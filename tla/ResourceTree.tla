----------------------------- MODULE ResourceTree ----------------------------
(***************************************************************************)
(* A caller walking a Redfish service through the typed wrappers while the *)
(* service changes.                                                        *)
(*                                                                         *)
(* A handle is a snapshot: the data of one resource as of the moment it    *)
(* was read.  An operation of ResourceApi reads documents one request at a *)
(* time; between two requests the service may change, and a document that  *)
(* inlines another hands out the copy it was read with.  The service       *)
(* itself is external: it may leave out a property, inline a resource or   *)
(* refer to it, refuse any request, and delete a member.                   *)
(***************************************************************************)
EXTENDS ResourceApi, Quirks, Integers

CONSTANTS TreeRoots,   \* evidence of the services' roots
          MaxClock     \* bound on the changes of the service

VARIABLES platform,    \* the quirks of the service
          clock,       \* changes of the service so far
          held,        \* the handle the caller holds
          untouched,   \* the resource has not changed since the handle's snapshot
          tagged,      \* the service sends ETags
          call,        \* the operation in progress
          request,     \* the last request of the operation: its method or query
          restricted   \* the caller gave $expand up, or the platform cannot do it

treeVars == <<platform, clock, held, untouched, tagged, call, request, restricted>>

Data == <<>>
Wrappers ==
    [ServiceRoot |-> ServiceRoot, ChassisCollection |-> ChassisCollection, Chassis |-> Chassis,
     Assembly |-> Assembly, NetworkAdapter |-> NetworkAdapter, PowerSupply |-> PowerSupply,
     EnvironmentMetrics |-> EnvironmentMetrics, Control |-> Control,
     PcieDeviceCollection |-> PcieDeviceCollection,
     NetworkDeviceFunctionCollection |-> NetworkDeviceFunctionCollection,
     PortCollection |-> PortCollection, Port |-> Port,
     NvidiaChassisActions |-> NvidiaChassisActions,
     NvidiaNetworkAdapter |-> NvidiaNetworkAdapter,
     NvidiaHostPrivilegeConfig |-> NvidiaHostPrivilegeConfig,
     SystemCollection |-> SystemCollection, ComputerSystem |-> ComputerSystem, Bios |-> Bios,
     BootOptionCollection |-> BootOptionCollection, BootOption |-> BootOption, Drive |-> Drive,
     Memory |-> Memory, MemoryMetrics |-> MemoryMetrics, Processor |-> Processor,
     ProcessorMetrics |-> ProcessorMetrics, SecureBoot |-> SecureBoot,
     SecureBootDatabaseCollection |-> SecureBootDatabaseCollection,
     SecureBootDatabase |-> SecureBootDatabase, CertificateCollection |-> CertificateCollection,
     EthernetInterfaceCollection |-> EthernetInterfaceCollection,
     EthernetInterface |-> EthernetInterface, Storage |-> Storage,
     VolumeCollection |-> VolumeCollection, NvidiaComputerSystem |-> NvidiaComputerSystem,
     LenovoComputerSystem |-> LenovoComputerSystem,
     LenovoBootManagerCollection |-> LenovoBootManagerCollection,
     LenovoBootManager |-> LenovoBootManager,
     SupermicroComputerSystem |-> SupermicroComputerSystem,
     SmcFixedBootOrder |-> SmcFixedBootOrder, HpeBios |-> HpeBios,
     HpeServerBootSettings |-> HpeServerBootSettings,
     LenovoComputerSystemActions |-> LenovoComputerSystemActions,
     HpeComputerSystemActions |-> HpeComputerSystemActions,
     SupermicroComputerSystemActions |-> SupermicroComputerSystemActions,
     DellStorageActions |-> DellStorageActions, ManagerCollection |-> ManagerCollection,
     Manager |-> Manager, ManagerNetworkProtocol |-> ManagerNetworkProtocol,
     HostInterfaceCollection |-> HostInterfaceCollection, HostInterface |-> HostInterface,
     SerialInterfaceCollection |-> SerialInterfaceCollection,
     SerialInterface |-> SerialInterface, DellManager |-> DellManager,
     DellAttributes |-> DellAttributes, DellLcService |-> DellLcService,
     DellJobService |-> DellJobService, DellJobs |-> DellJobs, LenovoManager |-> LenovoManager,
     LenovoSecurityService |-> LenovoSecurityService, HpeManager |-> HpeManager,
     HpeiLoDateTime |-> HpeiLoDateTime,
     HpeManagerNetworkProtocol |-> HpeManagerNetworkProtocol, NvidiaManager |-> NvidiaManager,
     SupermicroManager |-> SupermicroManager, KcsInterface |-> KcsInterface,
     SysLockdown |-> SysLockdown, ConfigBmc |-> ConfigBmc,
     FabricCollection |-> FabricCollection, Fabric |-> Fabric,
     SwitchCollection |-> SwitchCollection, Switch |-> Switch, PowerEquipment |-> PowerEquipment,
     PowerShelfCollection |-> PowerShelfCollection, PowerShelf |-> PowerShelf,
     DeltaPowerShelf |-> DeltaPowerShelf,
     ComponentIntegrityCollection |-> ComponentIntegrityCollection,
     ComponentIntegrity |-> ComponentIntegrity, UpdateService |-> UpdateService,
     NvidiaUpdateServiceActions |-> NvidiaUpdateServiceActions, EventService |-> EventService,
     EventDestination |-> EventDestination, TelemetryService |-> TelemetryService,
     MetricDefinition |-> MetricDefinition, MetricReportDefinition |-> MetricReportDefinition,
     MetricReport |-> MetricReport, SessionService |-> SessionService,
     SessionCollection |-> SessionCollection, Session |-> Session, LogService |-> LogService,
     JobService |-> JobService, JobCollection |-> JobCollection, TaskService |-> TaskService,
     TaskCollection |-> TaskCollection]

(* The operations of a handle; what has no wrapper of its own has none. *)
Operations(h) ==
    IF h.link THEN EntityLink(h.type)
    ELSE IF h.type \in DOMAIN Wrappers THEN Wrappers[h.type] ELSE Data

(* What the walk below knows of: the kinds of operation, and the ways to    *)
(* take a hop.  The tables name no others.                                  *)
Kinds == {"navigate", "update", "create", "delete", "action", "link"}
HopNames == {"get", "fresh", "expand", "expand new", "collection", "root collection",
             "dell attributes", "dpu"}
IsOperation(op) ==
    /\ op = Operation(op.kind, op.hops, op.tail, op.to)
    /\ op.kind \in Kinds /\ op.hops \in Seq(HopNames)
ASSUME TableAssumption ==
    \A type \in DOMAIN Wrappers : \A name \in DOMAIN Wrappers[type] :
        IsOperation(Wrappers[type][name])

----------------------------------------------------------------------------
(* The root and the transport it hands to every wrapper. *)

(* The members of a collection: one that the platform's filters keep and    *)
(* one that they do not.                                                    *)
Listable == {"kept", "wrong"}
Filters(quirks, type) ==
    \/ type = "SystemCollection" /\ ~KeepsSystem(quirks, <<"Systems", "Self">>)
    \/ type = "ManagerCollection" /\ ~KeepsManager(quirks, <<"Managers", "Self">>)
Patches(quirks, type) ==
    \/ "NullableMembers" \in quirks
    \/ Filters(quirks, type)
    \/ type = "PowerSupply" /\ RepairsLocationIndicator(quirks, "unknown")

NoCall == [op |-> Operation("none", <<>>, "none", "none")]

(* ServiceRoot::new: the features the root declares, none of them where the *)
(* platform's $expand is broken.                                            *)
ProtocolFeatures(quirks, declared) ==
    IF "ExpandIsNotWorkingProperly" \in quirks THEN {} ELSE declared

TreeInit ==
    \E root \in TreeRoots, declared \in SUBSET {"no_links", "expand_all"} :
        /\ platform = Classify(Evidence(root))
        /\ held = [type |-> "ServiceRoot", is |-> "ServiceRoot", link |-> FALSE, asOf |-> 0,
                     features |-> ProtocolFeatures(platform, declared), listed |-> <<>>]
        /\ restricted = ("ExpandIsNotWorkingProperly" \in platform)
        /\ tagged \in BOOLEAN
        /\ clock = 0 /\ untouched = TRUE /\ call = NoCall /\ request = "none"

(* NvBmc::restrict_expand, through the root. *)
RestrictExpand ==
    /\ call = NoCall /\ held.type = "ServiceRoot" /\ ~held.link
    /\ held' = [held EXCEPT !.features = {}]
    /\ restricted' = TRUE /\ request' = "none"
    /\ UNCHANGED <<platform, clock, untouched, tagged, call>>

(* NvBmc::expand_property: no_links is preferred, and a plain get where the *)
(* service has neither.                                                     *)
OptimalQuery(features) ==
    IF "no_links" \in features THEN "no_links"
    ELSE IF "expand_all" \in features THEN "expand_all" ELSE "get"

----------------------------------------------------------------------------
(* Navigation. *)

(* The ways a hop may be taken: which call of the transport reads it,       *)
(* whether a copy inlined in the document at hand will do, and whether the  *)
(* id filter is applied to the members.                                     *)
Get(inlined) == [query |-> "get", inlined |-> inlined, filters |-> FALSE]
Expand(inlined, filters) ==
    [query |-> OptimalQuery(held.features),
     inlined |-> inlined /\ OptimalQuery(held.features) = "get", filters |-> filters]
Ways(hop, type) ==
    CASE hop = "get" -> {Get(TRUE)}
      [] hop = "fresh" -> {Get(FALSE)}
      [] hop = "expand" -> {Expand(TRUE, FALSE)}
      [] hop = "expand new" -> {Expand(FALSE, FALSE)}
      [] hop = "collection" -> {Expand(~Patches(platform, type), FALSE)}
      [] hop = "root collection" ->
            {Expand(~Patches(platform, type), Filters(platform, type))}
            \cup IF "MissingRootNavProperties" \in platform
                 THEN {Expand(FALSE, FALSE)} ELSE {}
      [] hop = "dell attributes" -> {Get(TRUE), Expand(FALSE, FALSE)}
      [] hop = "dpu" -> {Get("DpuOemComputerSystem" \notin platform)}

(* What a document lists, where an operation goes on to its members. *)
Lists(type) ==
    type \in DOMAIN Wrappers /\ \E name \in DOMAIN Wrappers[type] :
        LET op == Wrappers[type][name] IN op.hops = <<>> /\ op.kind = "navigate" /\ op.tail # "one"
Listings(op) ==
    IF op.tail = "one" /\ ~Lists(op.to) THEN {<<>>}
    ELSE UNION {[ms -> {"inlined", "reference"}] : ms \in SUBSET Listable}
Without(f, ms) == [m \in DOMAIN f \ ms |-> f[m]]

Begin(op) ==
    [op |-> op, left |-> op.hops, asOf |-> held.asOf, since |-> held.asOf,
     listed |-> held.listed, todo |-> DOMAIN held.listed, got |-> <<>>, gone |-> {},
     reread |-> FALSE]

(* The caller calls an operation of its handle that navigates. *)
Navigate(name) ==
    /\ call = NoCall
    /\ Operations(held)[name].kind = "navigate"
    /\ call' = Begin(Operations(held)[name]) /\ request' = "none"
    /\ UNCHANGED <<platform, clock, held, untouched, tagged, restricted>>

Fails == call' = NoCall /\ UNCHANGED <<held, untouched>>

(* The next document is at hand, as of some moment. *)
Reached(asOf, filters) ==
    \E listing \in IF Len(call.left) = 1 THEN Listings(call.op) ELSE {<<>>} :
        LET listed == IF filters THEN Without(listing, {"wrong"}) ELSE listing IN
        /\ call' = [call EXCEPT !.left = Tail(@), !.asOf = asOf, !.listed = listed,
                                !.todo = DOMAIN listed]
        /\ UNCHANGED <<held, untouched>>

(* Nothing is done for a property that is absent, and any request may fail. *)
(* What a link leads to is read as the type it promises: a document of      *)
(* another kind is an error.                                                *)
Fits == held.is = held.type
Hop ==
    /\ call # NoCall /\ call.op.kind = "navigate" /\ call.left # <<>>
    /\ \/ Fails /\ UNCHANGED request
       \/ \E way \in Ways(Head(call.left), call.op.to) :
            \/ way.inlined /\ Fits /\ Reached(call.asOf, way.filters) /\ UNCHANGED request
            \/ ((Fits /\ Reached(clock, way.filters)) \/ Fails) /\ request' = way.query
    /\ UNCHANGED <<platform, clock, tagged, restricted>>

IsList == call # NoCall /\ call.left = <<>> /\ call.op.tail \in {"each", "each present", "each inlined"}
Taken(m, asOf) ==
    call' = [call EXCEPT !.todo = @ \ {m}, !.got = [n \in DOMAIN @ \cup {m} |->
                IF n = m THEN asOf ELSE @[n]]]

(* One round of a list's loop.  Only `subscriptions` passes over a member   *)
(* that is gone.                                                            *)
SkipsGoneAlways(op) == TRUE
SkipsGone(op) == op.tail = "each present"
Member ==
    /\ IsList
    /\ \E m \in call.todo :
        \/ /\ call.listed[m] = "inlined" /\ Taken(m, call.asOf)
           /\ UNCHANGED <<held, untouched, request>>
        \/ /\ call.listed[m] = "reference" /\ call.op.tail = "each inlined"
           /\ Fails /\ UNCHANGED request
        \/ /\ call.listed[m] = "reference" /\ call.op.tail # "each inlined" /\ request' = "get"
           /\ \/ m \notin call.gone /\ Taken(m, clock) /\ UNCHANGED <<held, untouched>>
              \/ /\ m \in call.gone /\ SkipsGone(call.op)
                 /\ call' = [call EXCEPT !.todo = @ \ {m}] /\ UNCHANGED <<held, untouched>>
              \/ Fails
    /\ UNCHANGED <<platform, clock, tagged, restricted>>

(* A handle of a resource read as of asOf; whether the resource has changed *)
(* since is the service's affair, unless the handle is a view of the same   *)
(* data.                                                                    *)
Becomes(type, is, link, asOf, listed) ==
    held' = [held EXCEPT !.type = type, !.is = is, !.link = link, !.asOf = asOf,
                             !.listed = listed]
OperationReturns ==
    /\ call # NoCall /\ call.op.kind = "navigate" /\ call.left = <<>>
    /\ call' = NoCall
    /\ \/ /\ call.op.tail = "one"
          /\ Becomes(call.op.to, call.op.to, FALSE, call.asOf,
                     IF Lists(call.op.to) THEN call.listed ELSE <<>>)
          /\ untouched' \in IF call.op.hops = <<>> THEN {untouched}
                            ELSE {TRUE, call.asOf = clock}
       \/ /\ call.op.tail = "links" /\ call.listed # <<>>
          /\ Becomes(call.op.to, call.op.to, TRUE, call.asOf, <<>>) /\ untouched' = TRUE
       \/ /\ IsList /\ call.todo = {}
          /\ \E m \in DOMAIN call.got :
                /\ Becomes(call.op.to, call.op.to, FALSE, call.got[m], <<>>)
                /\ untouched' \in {TRUE, call.got[m] = clock}
       \/ /\ call.op.tail # "one" /\ call.todo = {} /\ call.got = <<>> /\ UNCHANGED <<held, untouched>>
    /\ UNCHANGED <<platform, clock, tagged, request, restricted>>

----------------------------------------------------------------------------
(* Changes. *)

(* NvBmc::update: the handle's own ETag, where it has one and the platform  *)
(* takes it; "*" otherwise.                                                 *)
SendsOwnEtag(op) == op.tail = "own etag" /\ tagged /\ "RejectsOwnEtag" \notin platform

Change(name) ==
    /\ call = NoCall
    /\ Operations(held)[name].kind \in {"update", "create", "delete", "action"}
    /\ call' = Begin(Operations(held)[name]) /\ request' = "none"
    /\ UNCHANGED <<platform, clock, held, untouched, tagged, restricted>>

(* The resource that a reply names: on a platform that answers a create     *)
(* with the job that makes it, that job.                                    *)
Named(op) ==
    {op.to} \cup IF op.tail \in {"entity or job", "job"} /\ "JobLocationInCreateResponse" \in platform
                 THEN {"Job"} ELSE {}

(* The reply names an entity: VolumeCollection::create and DellJobs make a  *)
(* task of one that is not in the collection; an action, or an update whose *)
(* entity is dropped, makes nothing of it.                                  *)
IsEntityUnchecked(op, is) == op.to # "none" /\ op.tail # "job"
IsEntity(op, is) == op.to # "none" /\ op.tail # "job" /\ (op.tail = "entity or job" => is = op.to)

Applied ==
    /\ call # NoCall /\ call.op.kind # "navigate" /\ ~call.reread
    /\ clock < MaxClock
    /\ call.op.kind = "update" /\ SendsOwnEtag(call.op) => untouched
    /\ clock' = clock + 1
    /\ request' = call.op.kind
    /\ \/ call' = NoCall /\ untouched' = FALSE /\ UNCHANGED held
       \/ \E is \in Named(call.op), inlined \in BOOLEAN :
            IF ~IsEntity(call.op, is) THEN call' = NoCall /\ untouched' = FALSE /\ UNCHANGED held
            ELSE IF inlined
            THEN /\ Becomes(call.op.to, is, FALSE, clock + 1, <<>>)
                 /\ call' = NoCall /\ untouched' = TRUE
            ELSE /\ call' = [call EXCEPT !.reread = TRUE, !.since = clock + 1, !.op.to = is]
                 /\ untouched' = FALSE /\ UNCHANGED held
    /\ UNCHANGED <<platform, tagged, restricted>>

(* The request is refused, or an action is not advertised and not sent. *)
Refused ==
    /\ call # NoCall /\ call.op.kind # "navigate" /\ ~call.reread
    /\ Fails
    /\ request' \in {call.op.kind, request}
    /\ UNCHANGED <<platform, clock, tagged, restricted>>

(* try_map_entity_async: the entity named by reference is read before the   *)
(* operation returns.                                                       *)
EntityAsHeld(op) == held.asOf
EntityAsOf(op) == clock
Reread ==
    /\ call # NoCall /\ call.reread
    /\ request' = "get"
    /\ \/ /\ Becomes(call.op.to, call.op.to, FALSE, EntityAsOf(call.op), <<>>)
          /\ call' = NoCall /\ untouched' = TRUE
       \/ Fails
    /\ UNCHANGED <<platform, clock, tagged, restricted>>

(* job_link and task_link: the location must differ from the collection's   *)
(* id and have that id for a path prefix.  With a slash added at the end,   *)
(* the collection's own location does both.                                 *)
IsMemberLocation(location) == location \notin {"collection", "elsewhere"}
Link(name) ==
    /\ call = NoCall
    /\ Operations(held)[name].kind = "link"
    /\ \E location \in {"member", "collection", "collection/", "elsewhere"} :
        /\ IsMemberLocation(location)
        /\ Becomes(Operations(held)[name].to,
                   IF location = "member" THEN Operations(held)[name].to ELSE location,
                   TRUE, held.asOf, <<>>)
    /\ UNCHANGED <<platform, clock, untouched, tagged, call, request, restricted>>

----------------------------------------------------------------------------
(* Others change the service (external): the resource of the handle or      *)
(* another, or a member of the collection that is being listed is deleted.  *)
ServiceChanges ==
    /\ clock < MaxClock
    /\ clock' = clock + 1
    /\ untouched' \in {untouched, FALSE}
    /\ \/ UNCHANGED call
       \/ IsList /\ \E m \in Listable : call' = [call EXCEPT !.gone = @ \cup {m}]
    /\ UNCHANGED <<platform, held, tagged, request, restricted>>

TreeNext ==
    \/ RestrictExpand
    \/ \E name \in DOMAIN Operations(held) : Navigate(name) \/ Change(name) \/ Link(name)
    \/ Hop \/ Member \/ OperationReturns
    \/ Applied \/ Refused \/ Reread
    \/ ServiceChanges

----------------------------------------------------------------------------
(* Properties. *)

(* A walk never goes back in time: what an operation returns was read no    *)
(* earlier than the handle it was called on, and after the change that it   *)
(* made itself.                                                             *)
NeverBackInTime ==
    [][held' # held => held'.asOf >= (IF call = NoCall THEN held.asOf ELSE call.since)]_treeVars

(* No request carries $expand on a platform whose $expand is broken, nor    *)
(* through any handle reached from a root on which the caller gave it up.   *)
NoExpandWhereGivenUp == restricted => request \notin {"no_links", "expand_all"}

(* A list that is returned has every member of the collection it was made   *)
(* from; the event subscriptions may only lack members that were deleted    *)
(* meanwhile.                                                               *)
ListsWhole ==
    IsList /\ call.todo = {} =>
        DOMAIN call.listed \ DOMAIN call.got
            \subseteq IF call.op.tail = "each present" THEN call.gone ELSE {}

(* A handle that has been read stands for the kind of resource that its     *)
(* type says: the job that a Dell service names in its reply to a create is *)
(* not taken for what the job makes, nor is what a link of task_link leads  *)
(* to, where it is no task; and no handle sends $expand where its root gave *)
(* that up.                                                                 *)
HandlesTrue == (~held.link => held.is = held.type) /\ NoExpandWhereGivenUp

(* task_link and job_link only hand out links to members of the collection: *)
(* the location of anything else, the collection itself included, is an     *)
(* error.                                                                   *)
LinksInCollection == held.link => held.is = held.type

(* On a platform that lists members that are not systems or managers, the   *)
(* collections of systems and managers have none of them.                   *)
MembersFiltered ==
    Filters(platform, held.type) => "wrong" \notin DOMAIN held.listed
=============================================================================
