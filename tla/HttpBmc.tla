------------------------------- MODULE HttpBmc -------------------------------
(***************************************************************************)
(* HttpBmc behind ConcurrencyLimitedBmc: tasks of an async runtime call    *)
(* the operations of the Bmc trait on one shared value.  Every await is a  *)
(* point where other tasks run and where the caller may drop the future.   *)
(*                                                                         *)
(* An operation waits for a permit in arrival order, takes its own copy of *)
(* the cached entity, reads the credentials, sends one request through     *)
(* HttpClient (the module Transport has its retries and its decoding), and *)
(* on return fills the cache and gives its permit back.                    *)
(*                                                                         *)
(* The service is external.  A resource is its version number, its ETag is *)
(* the version, and it answers conditional requests as RFC 9110 has it.    *)
(***************************************************************************)
EXTENDS Naturals, FiniteSets, Sequences, SequencesExt

CONSTANTS Tasks,          \* concurrent callers
          Urls,           \* endpoint URLs, query included
          Types,          \* entity types a caller may ask a URL for
          Limit,          \* with_request_concurrency_limit
          Capacity,       \* CacheSettings::capacity
          MaxVersion,     \* bound on the changes of each resource
          MaxCredentials, \* bound on the calls of set_credentials
          Offered,        \* the calls each caller makes
          Absent          \* None of an Option

ASSUME HttpBmcAssumption ==
    /\ Limit \in Nat \ {0}
    /\ Capacity \in Nat
    /\ MaxVersion \in [Urls -> Nat] /\ MaxCredentials \in Nat
    /\ Absent \notin Nat

VARIABLES task,        \* each caller's operation and where it stands
          arrivals,    \* the semaphore's FIFO queue of waiters
          permits,     \* free permits
          cache,       \* TypeErasedCarCache: URL to typed entity
          credentials, \* the credentials in force, numbered by replacement
          version      \* the service: the current version of each resource

bmcVars == <<task, arrivals, permits, cache, credentials, version>>

----------------------------------------------------------------------------
(* The calls.  get stands for get, expand, filter and their repaired forms, *)
(* which all end in get_with_cache and differ in the URL; create for create *)
(* and the uploads' POST of a fixed path; refer for every operation on a    *)
(* URI reference of the service: action, multipart_update,                  *)
(* http_push_uri_update, stream, stream_events and poll.                    *)

ETags == UNION {0 .. MaxVersion[u] : u \in Urls}
Gets == [op : {"get"}, url : Urls, type : Types]
Updates == [op : {"update"}, url : Urls, etag : ETags \cup {Absent}]
Others == [op : {"create", "delete", "session"}, url : Urls]
References == [op : {"refer"}, url : Urls, sameOrigin : BOOLEAN]
Calls == Gets \cup Updates \cup Others \cup References

ASSUME OfferedAssumption == Offered \in [Tasks -> SUBSET Calls]

IdleTask == [pc |-> "idle"]
Entities == [type : Types, etag : ETags]

(* Request headers: If-None-Match of a get, If-Match of an update, where   *)
(* a missing ETag is sent as the wildcard.                                 *)
Wildcard == {Absent}
IfMatch(etag) == IF etag = Absent THEN Wildcard ELSE {etag}

HttpBmcInit ==
    /\ task = [t \in Tasks |-> IdleTask]
    /\ arrivals = <<>>
    /\ permits = Limit
    /\ cache = [u \in Urls |-> Absent]
    /\ credentials = 0
    /\ version = [u \in Urls |-> 0]

----------------------------------------------------------------------------
(* The concurrency limit. *)

(* An operation is called and joins the semaphore's queue.  `since` and     *)
(* `under` are history: the version at the call of a get, the credentials   *)
(* in force when the permit was obtained.                                   *)
Call(t, call) ==
    /\ task[t].pc = "idle"
    /\ task' = [task EXCEPT ![t] = [pc |-> "waiting", call |-> call,
                                    since |-> IF call.op = "get"
                                              THEN version[call.url] ELSE 0]]
    /\ arrivals' = Append(arrivals, t)
    /\ UNCHANGED <<permits, cache, credentials, version>>

(* Mutant: a newcomer may overtake the waiters. *)
AcquireUnfair(t) ==
    /\ permits > 0
    /\ t \in Range(arrivals) /\ Last(arrivals) = t
    /\ arrivals' = Front(arrivals)
    /\ permits' = permits - 1
    /\ task' = [task EXCEPT ![t] = [pc |-> "entered", call |-> @.call, since |-> @.since,
                                    under |-> credentials]]
    /\ UNCHANGED <<cache, credentials, version>>

(* `permit(&self.semaphore).await` returns: the longest waiter, and no      *)
(* later caller, gets a free permit.                                        *)
Acquire(t) ==
    /\ permits > 0
    /\ arrivals # <<>> /\ Head(arrivals) = t
    /\ arrivals' = Tail(arrivals)
    /\ permits' = permits - 1
    /\ task' = [task EXCEPT ![t] = [pc |-> "entered", call |-> @.call, since |-> @.since,
                                    under |-> credentials]]
    /\ UNCHANGED <<cache, credentials, version>>

----------------------------------------------------------------------------
(* The operations of HttpBmc, up to the request. *)

(* RedfishEndpoint::with_same_origin_uri_reference. *)
SameOrigin(call) == call.op = "refer" => call.sameOrigin

(* cache.get_typed::<Arc<T>>: an entity of another type is not found, and   *)
(* capacity zero disables the lookup.                                       *)
GetTyped(call) ==
    IF Capacity > 0 /\ cache[call.url] # Absent /\ cache[call.url].type = call.type
    THEN cache[call.url]
    ELSE Absent

(* Mutant: the credentials stay the ones given to the constructor. *)
FirstCredentials == 0

(* read_credentials: the ones in force. *)
ReadCredentials == credentials

(* The cached copy, the conditional header and the credentials are all      *)
(* taken between the permit and the request, without an await.  Creating a  *)
(* session sends no credentials.                                            *)
Request(call) ==
    LET cached == IF call.op = "get" THEN GetTyped(call) ELSE Absent
    IN  [cached |-> cached,
         etag |-> IF call.op = "get"
                  THEN IF cached = Absent THEN {} ELSE {cached.etag}
                  ELSE IF call.op = "update" THEN IfMatch(call.etag) ELSE {},
         cred |-> IF call.op = "session" THEN Absent ELSE ReadCredentials]

Send(t) ==
    LET call == task[t].call IN
    /\ task[t].pc = "entered"
    /\ SameOrigin(call)
    /\ task' = [task EXCEPT ![t] =
                  [pc |-> "sent", call |-> call, since |-> task[t].since,
                   under |-> task[t].under, request |-> Request(call)]]
    /\ UNCHANGED <<arrivals, permits, cache, credentials, version>>

(* The operation ends: the guard returned by permit() is dropped. *)
Ends(t, result) ==
    /\ task' = [task EXCEPT ![t] = [pc |-> "done", call |-> @.call,
                                    since |-> @.since, result |-> result]]
    /\ permits' = permits + 1

(* A URI reference that leaves the BMC's origin is refused before transport.*)
Reject(t) ==
    /\ task[t].pc = "entered"
    /\ ~SameOrigin(task[t].call)
    /\ Ends(t, [class |-> "Rejected"])
    /\ UNCHANGED <<arrivals, cache, credentials, version>>

----------------------------------------------------------------------------
(* The service answers, or the transport fails (external).                  *)

Reply(t, reply) ==
    task' = [task EXCEPT ![t] = [pc |-> "answered", call |-> @.call, since |-> @.since,
                                 request |-> @.request, reply |-> reply]]

ServeGet(t) ==
    LET call == task[t].call
        now == version[call.url]
    IN  /\ task[t].pc = "sent" /\ call.op = "get"
        /\ IF now \in task[t].request.etag
           THEN Reply(t, [class |-> "NotModified"])
           ELSE \E tagged \in BOOLEAN :
                   Reply(t, [class |-> "Ok", etag |-> now, tagged |-> tagged])
        /\ UNCHANGED <<arrivals, permits, cache, credentials, version>>

(* A conditional update is applied when its ETag is current or `*`. *)
ServeUpdate(t) ==
    LET call == task[t].call
        applies == task[t].request.etag \in {Wildcard, {version[call.url]}}
    IN  /\ task[t].pc = "sent" /\ call.op \in {"update", "delete"}
        /\ version[call.url] < MaxVersion[call.url]
        /\ Reply(t, [class |-> IF call.op = "delete" \/ applies THEN "Changed"
                               ELSE "PreconditionFailed"])
        /\ version' = [version EXCEPT ![call.url] =
                          IF call.op = "delete" \/ applies THEN @ + 1 ELSE @]
        /\ UNCHANGED <<arrivals, permits, cache, credentials>>

ServeOther(t) ==
    /\ task[t].pc = "sent" /\ task[t].call.op \in {"create", "session", "refer"}
    /\ Reply(t, [class |-> "Changed"])
    /\ UNCHANGED <<arrivals, permits, cache, credentials, version>>

RequestFails(t) ==
    /\ task[t].pc = "sent"
    /\ Reply(t, [class |-> "Failed"])
    /\ UNCHANGED <<arrivals, permits, cache, credentials, version>>

(* Someone else changes the resource. *)
ServiceChanges(u) ==
    /\ version[u] < MaxVersion[u]
    /\ version' = [version EXCEPT ![u] = @ + 1]
    /\ UNCHANGED <<task, arrivals, permits, cache, credentials>>

----------------------------------------------------------------------------
(* The operations of HttpBmc, from the answer on. *)

(* put_typed, by CarCache's contract: the key is stored, the cache stays    *)
(* within its capacity, and a put of a key already there evicts nothing.    *)
Cached(c) == {u \in Urls : c[u] # Absent}
PutTyped(u, entity) ==
    \E out \in SUBSET (Cached(cache) \ {u}) :
        /\ Cardinality(out) =
              IF u \notin Cached(cache) /\ Cardinality(Cached(cache)) >= Capacity
              THEN 1 ELSE 0
        /\ cache' = [v \in Urls |-> IF v = u THEN entity
                                    ELSE IF v \in out THEN Absent ELSE cache[v]]

(* Mutant: 304 is answered from the cache as it is after the request. *)
CopyLate(t) == cache[task[t].call.url]

(* The cached entity a 304 is answered from: the operation's own copy.      *)
Copy(t) == task[t].request.cached

(* get_with_cache after the request: an entity with an ETag replaces the    *)
(* cached one; 304 is answered from the copy taken before the request.      *)
GetReceives(t) ==
    LET call == task[t].call
        reply == task[t].reply
        entity == [type |-> call.type, etag |-> reply.etag]
        copy == Copy(t)
    IN  /\ task[t].pc = "answered" /\ call.op = "get"
        /\ \/ /\ reply.class = "Ok"
              /\ IF Capacity > 0 /\ reply.tagged
                 THEN PutTyped(call.url, entity) ELSE UNCHANGED cache
              /\ Ends(t, [class |-> "Ok", entity |-> entity])
           \/ /\ reply.class = "NotModified"
              /\ Ends(t, IF copy = Absent THEN [class |-> "CacheMiss"]
                         ELSE [class |-> "Ok", entity |-> copy])
              /\ UNCHANGED cache
           \/ /\ reply.class = "Failed"
              /\ Ends(t, [class |-> "Failed"])
              /\ UNCHANGED cache
        /\ UNCHANGED <<arrivals, credentials, version>>

(* create, create_session, update, delete, action and the rest return what  *)
(* the client returned, and leave the cache alone.                          *)
Receives(t) ==
    /\ task[t].pc = "answered" /\ task[t].call.op # "get"
    /\ Ends(t, [class |-> task[t].reply.class])
    /\ UNCHANGED <<arrivals, cache, credentials, version>>

Returns(t) ==
    /\ task[t].pc = "done"
    /\ task' = [task EXCEPT ![t] = IdleTask]
    /\ UNCHANGED <<arrivals, permits, cache, credentials, version>>

(* The caller drops the future at an await: a waiter leaves the queue       *)
(* without a permit, a request in flight gives its permit back.  What the   *)
(* service did is not undone.                                               *)
Cancel(t) ==
    /\ task[t].pc \in {"waiting", "sent", "answered"}
    /\ arrivals' = RemoveFirst(arrivals, t)
    /\ permits' = permits + (IF task[t].pc = "waiting" THEN 0 ELSE 1)
    /\ task' = [task EXCEPT ![t] = IdleTask]
    /\ UNCHANGED <<cache, credentials, version>>

SetCredentials ==
    /\ credentials < MaxCredentials
    /\ credentials' = credentials + 1
    /\ UNCHANGED <<task, arrivals, permits, cache, version>>

Steps(t) ==
    \/ Acquire(t) \/ Send(t) \/ Reject(t)
    \/ ServeGet(t) \/ ServeUpdate(t) \/ ServeOther(t) \/ RequestFails(t)
    \/ GetReceives(t) \/ Receives(t) \/ Returns(t)

HttpBmcNext ==
    \/ \E t \in Tasks : Steps(t) \/ Cancel(t) \/ \E call \in Offered[t] : Call(t, call)
    \/ \E u \in Urls : ServiceChanges(u)
    \/ SetCredentials

HttpBmcSpec == HttpBmcInit /\ [][HttpBmcNext]_bmcVars

(* The executor polls every task that can make progress, and a request     *)
(* ends, at the latest at the transport's timeout.                         *)
HttpBmcFairSpec == HttpBmcSpec /\ \A t \in Tasks : WF_bmcVars(Steps(t))

----------------------------------------------------------------------------
(* A get that succeeds returns the entity of the type asked for, no older  *)
(* than the resource was when the operation was called; and a service that *)
(* answers 304 only to a matching ETag never makes one fail with a cache   *)
(* miss, whatever other gets put in or evict during the request.  A        *)
(* repaired lookup, an update by another task and a foreign change may all *)
(* fall between the lookup and the answer.                                 *)
GetIsCurrent ==
    \A t \in Tasks : task[t].pc = "done" /\ task[t].call.op = "get" =>
        /\ task[t].result.class # "CacheMiss"
        /\ task[t].result.class = "Ok" =>
              /\ task[t].result.entity.type = task[t].call.type
              /\ task[t].result.entity.etag >= task[t].since

(* An operation holds a permit from permit() until it ends or is dropped.   *)
Holding(t) == task[t].pc \in {"entered", "sent", "answered"}

(* Permits are conserved over completion, refusal and cancellation at every *)
(* await: the free ones and the ones held by an operation make up the       *)
(* limit, so at most Limit operations are ever beyond the semaphore.        *)
PermitsExact ==
    permits + Cardinality({t \in Tasks : Holding(t)}) = Limit

(* Credentials replaced while an operation waits for its permit are the     *)
(* ones its request carries: nothing but a request already sent uses those  *)
(* of before, and only create_session goes without.                         *)
FreshCredentials ==
    \A t \in Tasks : task[t].pc = "sent" =>
        IF task[t].call.op = "session" THEN task[t].request.cred = Absent
        ELSE task[t].request.cred \in task[t].under .. credentials

(* Permits are conserved, and therefore every operation called ends: no    *)
(* waiter is starved by later callers, and no permit is lost to one that    *)
(* was refused or cancelled.                                                *)
EveryCallEnds ==
    /\ []PermitsExact
    /\ \A t \in Tasks : task[t].pc # "idle" ~> task[t].pc = "idle"
=============================================================================
