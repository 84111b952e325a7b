------------------------------ MODULE CompatBmc ------------------------------
(***************************************************************************)
(* CompatBmc at work against one device: the endpoint is classified from   *)
(* its service root, event payloads are read through the layer, and a      *)
(* resource is updated while others change it.  CompatReads adds which     *)
(* documents are read and how they are repaired.                           *)
(*                                                                         *)
(* The device is external.  What it sends and how it takes conditional     *)
(* writes follows from the quirks it really has, which the module takes    *)
(* from the descriptions of the BmcQuirks predicates.                      *)
(***************************************************************************)
EXTENDS Quirks

CONSTANTS Roots,       \* service roots of the devices
          Payloads,    \* event payloads
          MaxChanges   \* bound on the changes of the updated resource

(* A payload and its records, whatever their properties are. *)
IsRecord(r) ==
    r = [memberId |-> r.memberId, odataId |-> r.odataId, eventId |-> r.eventId,
         eventType |-> r.eventType, logEntry |-> r.logEntry, timestamp |-> r.timestamp]
IsPayload(p) ==
    /\ p = [type |-> p.type, id |-> p.id, odataId |-> p.odataId, records |-> p.records]
    /\ \A i \in DOMAIN p.records : IsRecord(p.records[i])
ASSUME PayloadAssumption == \A p \in Payloads : IsPayload(p)

VARIABLES root,        \* the device's service root
          bmcQuirks,   \* BmcQuirks of the layer, {} before classification
          stage,       \* "connect", "ready", or what is in progress
          sent,        \* document or payload as the device sent it
          read,        \* what the caller got
          current,     \* version of the resource that is updated
          write        \* the update in progress

compatVars == <<root, bmcQuirks, stage, sent, read, current, write>>
Nothing == [kind |-> "nothing"]

----------------------------------------------------------------------------
(* The device (external). *)

FailureOf(status, code, messages) ==
    [class |-> "Error", error |-> [status |-> status, code |-> code, messages |-> messages]]
Plain == <<"Base", "Error">>
IloCode == <<"iLO", "ExtendedInfo">>
NoReply == FailureOf(0, Plain, <<>>)  \* the exchange broke: no status

SuccessForms(quirks) ==
    {[class |-> c] : c \in {"Entity", "Empty", "Message", "Task"}}
    \cup (IF "AcceptedUpdateWithoutTask" \in quirks THEN {FailureOf(202, Plain, <<>>)} ELSE {})
    \cup (IF "AnnotationOnlyUpdateReply" \in quirks THEN {[class |-> "AnnotationsOnly"]} ELSE {})
    \cup (IF "SuccessAsExtendedInfoError" \in quirks
          THEN {FailureOf(200, IloCode, <<<<"iLO", "SystemResetRequired", FALSE>>>>),
                FailureOf(200, IloCode, <<<<"Base", "Success", FALSE>>,
                                          <<"Base", "PropertyValueModified", FALSE>>>>)}
          ELSE {})
RefusalForms(quirks) ==
    {FailureOf(400, Plain, <<>>)}
    \cup (IF "SuccessAsExtendedInfoError" \in quirks
          THEN {FailureOf(200, IloCode, <<<<"iLO", "InvalidOperationForSystemState", FALSE>>>>),
                FailureOf(200, IloCode, <<<<"iLO", "ResetRequired", FALSE>>,
                                          <<"Base", "InternalError", FALSE>>>>),
                FailureOf(200, IloCode, <<<<"Base", "Success", FALSE>>,
                                          <<"Base", "InternalError", TRUE>>>>),
                FailureOf(200, IloCode, <<>>)}
          ELSE {})

----------------------------------------------------------------------------
(* The layer. *)

CompatInit ==
    /\ root \in Roots
    /\ bmcQuirks = {} /\ stage = "connect"
    /\ sent = Nothing /\ read = Nothing
    /\ current = 0 /\ write = Nothing

(* CompatBmc::classify, CompatBmc::new. *)
ClassifyEndpoint ==
    /\ stage = "connect"
    /\ bmcQuirks' = Classify(Evidence(root))
    /\ stage' = "ready"
    /\ UNCHANGED <<root, sent, read, current, write>>

(* The calls of the layer: one at a time here, its parts share no state but *)
(* the quirks.                                                              *)
MayCall == stage = "ready" /\ write = Nothing /\ sent = Nothing

(* A document is read: the caller gets the result of its repair. *)
Reads(doc, result, rules) ==
    /\ sent' = [kind |-> "document", doc |-> doc]
    /\ read' = [kind |-> "document", doc |-> result, rules |-> rules]
    /\ UNCHANGED <<root, bmcQuirks, stage, current, write>>

(* stream_events: each payload is repaired under the id it arrived with. *)
ReceiveEvent ==
    /\ MayCall
    /\ \E payload \in Payloads, lastEventId \in {"absent", "17"} :
          /\ sent' = [kind |-> "event", payload |-> payload, id |-> lastEventId]
          /\ read' = [kind |-> "event", payload |-> RepairEvent(bmcQuirks, payload, lastEventId)]
    /\ UNCHANGED <<root, bmcQuirks, stage, current, write>>

(* CompatBmc::update is called with the ETag of some earlier version, or    *)
(* without one.                                                             *)
UpdateCalled ==
    /\ MayCall
    /\ \E given \in {NoEtag} \cup {EtagOf(v) : v \in 0 .. current} :
          write' = [kind |-> "called", given |-> given, at |-> current]
    /\ UNCHANGED <<root, bmcQuirks, stage, sent, read, current>>

(* How an update ended: what became of it at the device, and what the       *)
(* caller was told.                                                         *)
Ended(fate, result) ==
    [kind |-> "done", given |-> write.given, at |-> write.at, over |-> current,
     untagged |-> write.kind = "read" /\ write.etag = NoEtag,
     fate |-> fate, result |-> result]

(* The read that fetches an ETag first, where the platform needs one: it    *)
(* may fail, which ends the update, and the resource may come without one.  *)
ReadEtag ==
    /\ write.kind = "called" /\ EtagPlan(bmcQuirks, write.given) = "read"
    /\ \/ \E etag \in {EtagOf(current), NoEtag} :
             write' = [kind |-> "read", given |-> write.given, at |-> current, etag |-> etag]
       \/ write' = Ended("read failed", "Error")
    /\ UNCHANGED <<root, bmcQuirks, stage, sent, read, current>>

(* The PATCH, what the device makes of it, and how its reply is read.       *)
(* Without an ETag the transport sends `*`.  The request or its reply may   *)
(* be lost.                                                                 *)
EtagSent ==
    CASE write.kind = "read" -> write.etag
      [] write.kind = "called" /\ EtagPlan(bmcQuirks, write.given) = "given" -> write.given
      [] OTHER -> NoEtag
IfMatchSent == IF EtagSent = NoEtag THEN Wildcard ELSE EtagSent
Accepted(ifMatch) ==
    IF ifMatch = Wildcard THEN "RejectsWildcardEtag" \notin Classify(Evidence(root))
    ELSE "RejectsOwnEtag" \notin Classify(Evidence(root)) /\ ifMatch = EtagOf(current)
PatchEnds(fate, replies) ==
    \E reply \in replies : write' = Ended(fate, UpdateReply(bmcQuirks, reply))
Patch ==
    /\ \/ write.kind = "read"
       \/ write.kind = "called" /\ EtagPlan(bmcQuirks, write.given) # "read"
    /\ current < MaxChanges
    /\ \/ /\ Accepted(IfMatchSent)
          /\ current' = current + 1
          /\ \/ PatchEnds("applied", SuccessForms(bmcQuirks))
             \/ PatchEnds("applied unheard", {NoReply})
       \/ /\ UNCHANGED current
          /\ \/ Accepted(IfMatchSent) /\ PatchEnds("refused", RefusalForms(bmcQuirks))
             \/ ~Accepted(IfMatchSent)
                /\ PatchEnds("precondition failed", {FailureOf(412, Plain, <<>>)})
             \/ PatchEnds("lost", {NoReply})
    /\ UNCHANGED <<root, bmcQuirks, stage, sent, read>>

(* Another client changes the resource. *)
ForeignChange ==
    /\ write # Nothing /\ write.kind # "done" /\ current < MaxChanges
    /\ current' = current + 1
    /\ UNCHANGED <<root, bmcQuirks, stage, sent, read, write>>

Forget ==
    /\ sent # Nothing \/ (write # Nothing /\ write.kind = "done")
    /\ sent' = Nothing /\ read' = Nothing /\ write' = Nothing
    /\ UNCHANGED <<root, bmcQuirks, stage, current>>

(* Every step but the reading of documents. *)
CompatStep == \/ ClassifyEndpoint \/ ReceiveEvent \/ UpdateCalled
              \/ (write # Nothing /\ (ReadEtag \/ Patch)) \/ ForeignChange \/ Forget

----------------------------------------------------------------------------
(* What the repairs of a platform promise of its event records: a reference *)
(* stays what it was, and a record becomes one only by losing a link that   *)
(* was empty; any other record has a MemberId, an EventType and an          *)
(* `@odata.id`, the latter made of the former where the device sent none;   *)
(* and no record keeps an empty link or a malformed time.                   *)
RecordReadable(quirks, old, r) ==
    /\ IsReference(old) => r = old
    /\ IsReference(r) => r = [old EXCEPT !.logEntry = "absent"]
    /\ ~IsReference(r) /\ "SseNoMemberId" \in quirks =>
          /\ r.memberId # NoId /\ r.odataId # NoId
          /\ old.odataId = NoId => r.odataId = r.memberId
    /\ ~IsReference(r) /\ "SseMissingEventType" \in quirks => r.eventType # "absent"
    /\ "SseEmptyLogEntry" \in quirks => r.logEntry # "empty"
    /\ "SseWrongTimestampOffset" \in quirks => r.timestamp # "compact"
EventsReadable ==
    read.kind = "event" /\ read.payload.type = "Event" =>
        \A i \in DOMAIN sent.payload.records :
            /\ i \in DOMAIN read.payload.records
            /\ RecordReadable(bmcQuirks, sent.payload.records[i], read.payload.records[i])

(* A write through the layer is reported as it went, and no change of       *)
(* another client is overwritten unseen.  An update is reported successful  *)
(* exactly when the device applied it and its answer arrived; so one that   *)
(* was applied is reported failed only if the reply was lost.  One given an *)
(* ETag replaces that very version, unless the platform takes no ETag.  And *)
(* the ETag the layer chose is turned down only where the resource changed  *)
(* since the caller, or the layer for it, read it, or where a platform that *)
(* refuses `*` gave no ETag when the layer read it for one.                 *)
WritesFaithful ==
    write.kind = "done" =>
        /\ (write.result # "Error") <=> write.fate = "applied"
        /\ (/\ write.fate \in {"applied", "applied unheard"}
            /\ write.given # NoEtag /\ "RejectsOwnEtag" \notin bmcQuirks)
              => write.given = EtagOf(write.over)
        /\ write.fate = "precondition failed"
              => \/ write.given # NoEtag /\ write.given # EtagOf(write.over)
                 \/ write.over # write.at
                 \/ write.untagged /\ "RejectsWildcardEtag" \in bmcQuirks
=============================================================================
