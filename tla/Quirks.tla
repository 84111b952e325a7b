-------------------------------- MODULE Quirks --------------------------------
(***************************************************************************)
(* The quirks crate: which known deviations a BMC has, decided from its    *)
(* service root, and what follows from them for the events it sends and    *)
(* for the replies to writes.  The repairs of documents are in Repairs.    *)
(***************************************************************************)
EXTENDS Naturals, Sequences, FiniteSets, SequencesExt

----------------------------------------------------------------------------
(* Classification. *)

(* RootEvidence::from_root: what the raw service root says. *)
Evidence(root) == [vendor |-> root.Vendor, product |-> root.Product,
                   version |-> root.RedfishVersion, rtp |-> root.RtpVersion,
                   ami |-> root.Ami \/ root.RtpVersion # "absent"]

(* The quirks of a rule, where the evidence matches it. *)
When(matches, quirks) == IF matches THEN quirks ELSE {}

VendorRules(e) == UNION {
    When(e.vendor = "HPE", {"NoAccountTypeInAccounts", "RejectsWildcardEtag",
        "SuccessAsExtendedInfoError"}),
    When(e.vendor = "Dell", {"FwInventoryWrongReleaseDate", "JobLocationInCreateResponse",
        "ComputerSystemsWrongLastResetTime", "EmptyNetworkAdapterControllers",
        "SseWrongTimestampOffset", "InvalidChassisUuidField"}),
    When(e.vendor = "AMI" \/ (e.vendor = "Lenovo" /\ e.ami), {"RejectsOwnEtag"}),
    When(e.vendor = "Lenovo" /\ e.ami, {"UnadvertisedMultipartHttpPushUri"}),
    When(e.vendor = "Lenovo" /\ ~e.ami, {"PasswordExpirationWithoutSeconds",
        "AnnotationOnlyUpdateReply"}),
    When(e.vendor = "AMI" /\ e.version = "1.11.0", {"InvalidContainedByFields",
        "AnnotatedChassisCertificatesLink", "MissingRootNavProperties",
        "MissingChassisTypeField", "MissingChassisNameField",
        "MissingUpdateServiceNameField", "CertificateTypeWrongPemChainCase",
        "WrongComputerSystemMembers", "WrongManagerMembers",
        "ExpandIsNotWorkingProperly", "UnadvertisedMultipartHttpPushUri"}),
    When(e.vendor = "AMI" /\ e.rtp = "13.09.1", {"ExpandIsNotWorkingProperly"})}

ProductRules(e) == UNION {
    When(e.vendor = "NVIDIA", {"SseNoMemberId", "SseMissingEventType"}),
    When(e.vendor = "NVIDIA" /\ e.product # "P3809", {"FilteredLogEntriesCount"}),
    When(e.vendor = "NVIDIA" /\ e.product = "VR NVL72", {"SseEmptyLogEntry",
        "SseMissingEnvelopeIds", "CompositeBootOrderEntries"}),
    When(e.vendor = "NVIDIA" /\ e.product = "GB BMC", {"ExpandIsNotWorkingProperly",
        "IncompleteAccountServiceCertificateCollection"}),
    When(e.vendor = "Nvidia" /\ e.product \in {"Nvidia-BMCMezz", "BlueField-3 DPU", "BlueField-4"},
      {"IncompleteAccountServiceCertificateCollection", "EmptyUuidField",
       "InvalidChassisUuidField", "DpuOemComputerSystem", "NullableMembers"}),
    When(e.vendor = "WIWYNN", {"SseNoMemberId", "SseMissingEventType", "InvalidChassisUuidField"}),
    When(e.vendor = "Supermicro", {"AcceptedUpdateWithoutTask", "AcceptedActionWithoutTask"}),
    When(e.vendor = "Nvidia" /\ e.product \in {"BlueField-4", "B4240V"},
      {"UnadvertisedNvidiaChassisReset"}),
    When(e.vendor = "LITE-ON", {"ResetToDefaultsTypeParameter",
        "PowerSupplyLocationIndicatorObject", "PowerShelfStates"}),
    When(e.vendor = "absent" /\ e.version = "1.9.0", {"PowerShelfStates"})}

(* BmcQuirks::classify: the quirks of every rule that the evidence matches. *)
Classify(e) == VendorRules(e) \cup ProductRules(e)

(* is_liteon, where a resource's own Manufacturer is evidence too. *)
IsLiteOn(manufacturer) == manufacturer = "LITE-ON TECHNOLOGY CORP."
BugResetToDefaultsTypeParameter(quirks, manufacturer) ==
    "ResetToDefaultsTypeParameter" \in quirks \/ IsLiteOn(manufacturer)
RepairsLocationIndicator(quirks, manufacturer) ==
    "PowerSupplyLocationIndicatorObject" \in quirks \/ IsLiteOn(manufacturer)

(* filter_computer_system_odata_ids and filter_manager_odata_ids. *)
KeepsSystem(quirks, id) ==
    "WrongComputerSystemMembers" \in quirks => Last(id) \in {"DGX", "HGX_Baseboard_0"}
KeepsManager(quirks, id) ==
    "WrongManagerMembers" \in quirks =>
        Last(id) \in {"BMC", "HGX_BMC_0", "HGX_FabricManager_0"}

----------------------------------------------------------------------------
(* Event stream payloads. *)

(* The identifiers of a record are none, one that the device sent, or the   *)
(* record's position.                                                       *)
NoId == <<>>
SentId(id) == <<id>>
PositionId(index) == <<"position", index>>

(* is_reference: a record with its `@odata.id` and nothing else; the        *)
(* timestamp stands for every property that no repair is about.             *)
IsReference(record) ==
    /\ record.odataId # NoId /\ record.memberId = NoId /\ record.eventId = NoId
    /\ record.eventType = "absent" /\ record.logEntry = "absent" /\ record.timestamp = "absent"

empty_log_entry(record, index) ==
    IF record.logEntry = "empty" THEN [record EXCEPT !.logEntry = "absent"] ELSE record
missing_record_member_id(record, index) ==
    IF record.memberId # NoId \/ IsReference(record) THEN record
    ELSE [record EXCEPT !.memberId =
             IF record.eventId # NoId THEN record.eventId ELSE PositionId(index)]
missing_event_type_to_other(record, index) ==
    IF IsReference(record) \/ record.eventType # "absent" THEN record
    ELSE [record EXCEPT !.eventType = "Other"]
missing_record_odata_id(record, index) ==
    IF record.odataId # NoId \/ record.memberId = NoId THEN record
    ELSE [record EXCEPT !.odataId = record.memberId]
compact_timestamp_offset(record, index) ==
    IF record.timestamp = "compact" THEN [record EXCEPT !.timestamp = "valid"] ELSE record

(* Mutant: the `@odata.id` is derived before the MemberId is there. *)
RepairRecordIdFirst(quirks, record, index) ==
    missing_event_type_to_other(missing_record_member_id(missing_record_odata_id(
        empty_log_entry(record, index), index), index), index)

(* EventRepairs: the record repairs in their order, each under its quirk. *)
RepairRecord(quirks, record, index) ==
    LET r1 == IF "SseEmptyLogEntry" \in quirks THEN empty_log_entry(record, index) ELSE record
        r2 == IF "SseNoMemberId" \in quirks THEN missing_record_member_id(r1, index) ELSE r1
        r3 == IF "SseMissingEventType" \in quirks THEN missing_event_type_to_other(r2, index) ELSE r2
        r4 == missing_record_odata_id(r3, index)
    IN  IF "SseWrongTimestampOffset" \in quirks THEN compact_timestamp_offset(r4, index) ELSE r4

(* missing_event_id, missing_event_odata_id: an Event without either        *)
(* identifier takes the id of the stream, when there is one.                *)
EventIds(quirks, payload, lastEventId) ==
    LET named == IF /\ "SseMissingEnvelopeIds" \in quirks /\ payload.type = "Event"
                    /\ lastEventId # "absent"
                    /\ payload.id = "absent" /\ payload.odataId = "absent"
                 THEN [payload EXCEPT !.id = lastEventId] ELSE payload
    IN  IF named.odataId = "absent" /\ named.id \notin {"absent", "null"}
        THEN [named EXCEPT !.odataId = named.id] ELSE named

RepairEvent(quirks, payload, lastEventId) ==
    IF payload.type \notin {"Event", "MetricReport"} THEN payload
    ELSE [EventIds(quirks, payload, lastEventId) EXCEPT
            !.records = [i \in DOMAIN @ |-> RepairRecord(quirks, @[i], i - 1)]]

----------------------------------------------------------------------------
(* Replies to writes. *)

IloSuccessMessages == {"SystemResetRequired", "ResetRequired", "DeviceResetRequired",
                       "Accepted", "PropertyValueAlreadySet"}
Outcomes == {"Success", "Created", "NoOperation"}

(* ilo_success: messages are <<registry, key, critical>>. *)
IloSuccess(code, messages) ==
    /\ code[2] = "ExtendedInfo"
    /\ \A m \in Range(messages) : ~m[3] /\ m[2] # "absent"
    /\ \/ \E m \in Range(messages) : m[2] \in Outcomes
       \/ /\ messages # <<>>
          /\ \A m \in Range(messages) : m[1] = code[1] /\ m[2] \in IloSuccessMessages

(* SuccessReplies::read, CompatBmc::failed_write: a failure of the          *)
(* transport with status 200 that is the platform's success.                *)
FailedWrite(quirks, error) ==
    IF /\ "SuccessAsExtendedInfoError" \in quirks
       /\ error.status = 200 /\ IloSuccess(error.code, error.messages)
    THEN "Message" ELSE "Error"

(* The ETag of an update: none, the ETag of a version, or `*`. *)
NoEtag == <<"none", 0>>
Wildcard == <<"any", 0>>
EtagOf(version) == <<"version", version>>

(* Mutant: no ETag is read where `*` is refused. *)
EtagPlanWithoutRead(quirks, given) ==
    CASE "RejectsOwnEtag" \in quirks -> "wildcard"
      [] OTHER -> IF given = NoEtag THEN "wildcard" ELSE "given"

(* The ETag CompatBmc::update hands to the transport: none where only `*`   *)
(* is accepted, and one read for the purpose where `*` is refused.          *)
EtagPlan(quirks, given) ==
    CASE "RejectsOwnEtag" \in quirks -> "wildcard"
      [] "RejectsOwnEtag" \notin quirks /\ "RejectsWildcardEtag" \in quirks /\ given = NoEtag
            -> "read"
      [] OTHER -> IF given = NoEtag THEN "wildcard" ELSE "given"

(* CompatBmc::update and action on what the transport answered: <<class,    *)
(* body>> where a failure carries its status.                               *)
UpdateReply(quirks, reply) ==
    IF reply.class = "Error"
    THEN IF "AcceptedUpdateWithoutTask" \in quirks /\ reply.error.status = 202
         THEN "Empty" ELSE FailedWrite(quirks, reply.error)
    ELSE IF reply.class = "AnnotationsOnly"
         THEN IF "AnnotationOnlyUpdateReply" \in quirks THEN "Empty" ELSE "Error"
         ELSE reply.class

ActionReply(quirks, reply) ==
    IF reply.class = "Error"
    THEN IF "AcceptedActionWithoutTask" \in quirks /\ reply.error.status = 202
         THEN "Empty" ELSE FailedWrite(quirks, reply.error)
    ELSE reply.class

(* create, delete, poll and the uploads. *)
WriteReply(quirks, reply) ==
    IF reply.class = "Error" THEN FailedWrite(quirks, reply.error) ELSE reply.class
=============================================================================
