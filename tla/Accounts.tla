------------------------------ MODULE Accounts ------------------------------
(***************************************************************************)
(* The account service of the redfish crate, used by several clients at    *)
(* once.  On iDRAC 8 and 9 the accounts are fixed, preallocated slots:     *)
(* creating one takes over a disabled slot with a conditional update and   *)
(* deleting one disables it.  Elsewhere accounts are created with POST and *)
(* removed with DELETE.                                                    *)
(*                                                                         *)
(* Members of the collection are numbers.  The device (external) gives the *)
(* ETag of a slot its version, counts it up on every change, and for some  *)
(* slots gives no ETag at all.                                             *)
(***************************************************************************)
EXTENDS Naturals, FiniteSets, FiniteSetsExt

CONSTANTS Clients,
          Members,      \* members of the collection
          NotNumbered,  \* members whose Id is not a number
          Slots,        \* the configured range of slots
          Untagged,     \* members the device sends without an ETag
          Generations,  \* server generations, for the choice of behaviour
          Nobody,       \* the owner of a disabled slot
          MaxWrites     \* bound on the changes of the slots, together

\* The Ids of slots are numbers; "no ETag" is not the ETag of a version.
ASSUME AccountsAssumption == Members \subseteq Nat /\ Nobody \notin Nat

VARIABLES behavior,  \* AccountServiceBehavior
          slot,      \* the device: owner and version of each member
          client,    \* each client's collection and call
          wasBusy    \* history: members that were busy or unread in the call

accountVars == <<behavior, slot, client, wasBusy>>

(* IdracVersion::from_manager_model, account_service_config. *)
IdracVersion(generation) == CASE generation \in {12, 13} -> 8
                              [] generation \in 14 .. 16 -> 9
                              [] generation >= 17 -> 10
                              [] OTHER -> 0
ConfigOf(idrac) == IF idrac >= 10 THEN "Standard" ELSE "FixedSlots"

NoHandle == [slot |-> 0, etag |-> Nobody, owner |-> Nobody]
Idle == [pc |-> "idle", expanded |-> FALSE, seen |-> [m \in Members |-> Nobody],
         todo |-> {}, candidates |-> {}, target |-> 0, etag |-> 0,
         account |-> NoHandle, result |-> "none"]

(* A call returns: its result, and the account the caller now holds. *)
Returned(c, result, account) ==
    [client EXCEPT ![c] = [Idle EXCEPT !.result = result, !.account = account]]

(* A call goes on: the client's new record. *)
GoesOn(c, call) == client' = [client EXCEPT ![c] = call]

(* The history of a call is dropped where nothing looks at it any more. *)
Forgotten(c) == [wasBusy EXCEPT ![c] = {}]

AccountsInit ==
    /\ \E g \in {x \in Generations : IdracVersion(x) # 0} : behavior = ConfigOf(IdracVersion(g))
    /\ slot \in [Members -> [owner : {Nobody, "admin"}, version : {0}]]
    /\ client = [c \in Clients |-> Idle]
    /\ wasBusy = [c \in Clients |-> {}]

Etag(m) == IF m \in Untagged THEN Nobody ELSE slot[m].version
Busy(m) == slot[m].owner # Nobody

----------------------------------------------------------------------------
(* AccountCollection::new: the members are inlined, where $expand is        *)
(* supported, or references.                                                *)
ReadCollection(c) ==
    /\ client[c].pc = "idle"
    /\ \E expanded \in BOOLEAN :
          GoesOn(c, [client[c] EXCEPT !.pc = "holding", !.expanded = expanded,
                        !.seen = IF expanded THEN [m \in Members |-> slot[m].owner] ELSE @,
                        !.result = "none"])
    /\ wasBusy' = [wasBusy EXCEPT ![c] = {m \in Members : Busy(m)}]
    /\ UNCHANGED <<behavior, slot>>

(* AccountCollection::create_account, where the slots are fixed. *)
CreateInSlot(c) ==
    /\ client[c].pc = "holding" /\ behavior = "FixedSlots"
    /\ GoesOn(c, [client[c] EXCEPT !.pc = "scan", !.todo = Members])
    /\ UNCHANGED <<behavior, slot, wasBusy>>

(* What a client makes of a member while it scans: the inlined copy, or the *)
(* member as it is now.                                                     *)
View(c, m) == IF client[c].expanded THEN client[c].seen[m] ELSE slot[m].owner
IsCandidate(c, m) == m \notin NotNumbered /\ m \in Slots /\ View(c, m) = Nobody

(* Inlined members are looked at without a request between them, and not    *)
(* again after that.                                                        *)
Scan(c) ==
    /\ client[c].pc = "scan" /\ client[c].todo # {}
    /\ LET read == IF client[c].expanded THEN client[c].todo ELSE {Min(client[c].todo)}
       IN  GoesOn(c, [client[c] EXCEPT !.todo = @ \ read, !.seen = Idle.seen,
                         !.candidates = @ \cup {m \in read : IsCandidate(c, m)}])
    /\ UNCHANGED <<behavior, slot, wasBusy>>

(* Mutant: the candidates are tried in the order of the collection. *)
FirstOf(candidates) == Max(candidates)

(* The candidates are sorted by their number. *)
Lowest(candidates) == Min(candidates)

(* A read fails: fixed_slot_read_error_is_skippable, or the call fails.     *)
(* Nothing is read for an inlined member.                                   *)
ReadFails(c) ==
    /\ client[c].pc = "scan"
    /\ \/ client[c].todo # {} /\ ~client[c].expanded
       \/ client[c].todo = {} /\ client[c].candidates # {}
    /\ LET scanning == client[c].todo # {}
           m == IF scanning THEN Min(client[c].todo) ELSE Lowest(client[c].candidates)
       IN  \/ /\ GoesOn(c, [client[c] EXCEPT !.todo = @ \ {m}, !.candidates = @ \ {m}])
              /\ wasBusy' = [wasBusy EXCEPT ![c] = @ \cup {m}]
           \/ /\ client' = Returned(c, "failed", client[c].account)
              /\ wasBusy' = Forgotten(c)
    /\ UNCHANGED <<behavior, slot>>

(* Mutant: a slot that has no ETag is taken with `If-Match: *`. *)
TakesAny(m) == ~Busy(m)

(* The candidate is read again and must be disabled and carry an ETag. *)
Takes(m) == ~Busy(m) /\ m \notin Untagged

Refetch(c) ==
    /\ client[c].pc = "scan" /\ client[c].todo = {} /\ client[c].candidates # {}
    /\ LET m == Lowest(client[c].candidates)
       IN  GoesOn(c, IF Takes(m)
                     THEN [client[c] EXCEPT !.pc = "patch", !.target = m, !.etag = slot[m].version]
                     ELSE [client[c] EXCEPT !.candidates = @ \ {m}])
    /\ UNCHANGED <<behavior, slot, wasBusy>>

(* Error::AccountSlotNotAvailable. *)
NoSlotFound(c) ==
    /\ client[c].pc = "scan" /\ client[c].todo = {} /\ client[c].candidates = {}
    /\ client' = Returned(c, "no slot", client[c].account)
    /\ UNCHANGED <<behavior, slot, wasBusy>>

(* A change of slot m by the device. *)
Changed(m, owner) == [slot EXCEPT ![m] = [owner |-> owner, version |-> slot[m].version + 1]]
Handle(m, owner, version) ==
    [slot |-> m, etag |-> IF m \in Untagged THEN Nobody ELSE version, owner |-> owner]
Room == MapThenSumSet(LAMBDA m : slot[m].version, Members) < MaxWrites

(* Account::update with the fresh ETag; the answer may be lost. *)
TakeSlot(c) ==
    /\ client[c].pc = "patch"
    /\ LET m == client[c].target
           applies == client[c].etag = slot[m].version \/ m \in Untagged
       IN  /\ Room
           /\ IF applies
              THEN /\ slot' = Changed(m, c)
                   /\ \E result \in {"created", "failed"} :
                         client' = Returned(c, result, IF result = "created"
                                                       THEN Handle(m, c, slot[m].version + 1)
                                                       ELSE client[c].account)
                   /\ wasBusy' = [d \in Clients |->
                                    CASE d = c -> {}
                                      [] client[d].pc = "idle" -> wasBusy[d]
                                      [] OTHER -> wasBusy[d] \cup {m}]
              ELSE /\ client' = Returned(c, "failed", client[c].account)
                   /\ wasBusy' = Forgotten(c)
                   /\ UNCHANGED slot
    /\ UNCHANGED behavior

(* create_account elsewhere: the device chooses the member of the new       *)
(* account.                                                                 *)
Post(c) ==
    /\ client[c].pc = "holding" /\ behavior = "Standard"
    /\ \E m \in Members :
          /\ ~Busy(m) /\ Room
          /\ slot' = Changed(m, c)
          /\ client' = Returned(c, "created", Handle(m, c, slot[m].version + 1))
    /\ wasBusy' = Forgotten(c)
    /\ UNCHANGED behavior

(* all_accounts_data: the caller keeps one of the accounts, which of fixed  *)
(* slots are the enabled ones.  The copy is the collection's where the      *)
(* member is inlined; its ETag is that of the version it was read in.       *)
List(c) ==
    /\ client[c].pc = "holding"
    /\ \E m \in Members :
          /\ View(c, m) # Nobody
          /\ client[c].expanded => client[c].seen[m] = slot[m].owner
          /\ client' = Returned(c, "none", Handle(m, View(c, m), slot[m].version))
    /\ wasBusy' = Forgotten(c)
    /\ UNCHANGED <<behavior, slot>>

(* Account::delete: DisableSlot is an update with the handle's own ETag, or *)
(* `*` when it has none; DeleteResource is unconditional.                   *)
Deletes(h) == \/ behavior = "Standard"
              \/ h.etag = Nobody
              \/ h.etag = slot[h.slot].version
Delete(c) ==
    /\ client[c].pc \in {"idle", "holding"} /\ client[c].account # NoHandle
    /\ LET h == client[c].account
       IN  /\ Room
           /\ slot' = IF Deletes(h) THEN Changed(h.slot, Nobody) ELSE slot
           /\ client' = [client EXCEPT ![c].account = NoHandle]
    /\ UNCHANGED <<behavior, wasBusy>>

AccountsNext ==
    \E c \in Clients : \/ ReadCollection(c) \/ CreateInSlot(c) \/ Scan(c) \/ ReadFails(c)
                       \/ Refetch(c) \/ NoSlotFound(c) \/ TakeSlot(c) \/ Post(c) \/ List(c) \/ Delete(c)

----------------------------------------------------------------------------
(* Nobody loses an account to somebody else's call: a slot that has an      *)
(* owner is only ever freed, and only by a client whose handle stands for   *)
(* that owner's account; where the device gives no ETag, or accounts are    *)
(* deleted as resources, a stale handle is not told apart.                  *)
AccountsKept ==
    [][\A m \in Members : Busy(m) /\ slot'[m].owner # slot[m].owner =>
          /\ slot'[m].owner = Nobody
          /\ \E c \in Clients :
                /\ client[c].account.slot = m /\ client'[c].account = NoHandle
                /\ \/ client[c].account.owner = slot[m].owner
                   \/ behavior = "Standard" \/ m \in Untagged]_accountVars

(* A usable slot that was free when the collection was read, and all        *)
(* through the call, is found: creation reports that there is none only     *)
(* when every usable slot was taken at some time, and never takes a slot    *)
(* above a usable one that stayed free.                                     *)
FreeSlotFound ==
    \A c \in Clients :
        LET usable == {m \in Slots \cap Members : m \notin NotNumbered \cup Untagged \cup wasBusy[c]}
        IN  /\ client[c].result = "no slot" => usable = {}
            /\ client[c].pc = "patch" => \A m \in usable : m >= client[c].target
=============================================================================
