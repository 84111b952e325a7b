---------------------------- MODULE HttpBmcProofs ----------------------------
(***************************************************************************)
(* Proofs about HttpBmc, for every set of callers, URLs and types, every   *)
(* concurrency limit and cache capacity, and every choice of calls.        *)
(***************************************************************************)
EXTENDS HttpBmc, FiniteSetTheorems, SequenceFacts, TLAPS

----------------------------------------------------------------------------
(* The inductive invariant.                                                 *)

Phases == {"idle", "waiting", "entered", "sent", "answered", "done"}

\* What a caller's record says of the operation it is in, seen from the
\* service and the credentials as they are now.
CallKnown(t) ==
    /\ task[t].pc \in Phases
    /\ task[t].pc # "idle" => task[t].call \in Calls /\ task[t].since \in Nat
    /\ task[t].pc \in {"waiting", "entered", "sent"} /\ task[t].call.op = "get" =>
          task[t].since <= version[task[t].call.url]

\* The credentials a request carries lie between those in force when the
\* permit was obtained and those in force now.
CredentialsFresh(t) ==
    /\ task[t].pc \in {"entered", "sent"} => task[t].under \in 0 .. credentials
    /\ task[t].pc = "sent" =>
          IF task[t].call.op = "session" THEN task[t].request.cred = Absent
          ELSE task[t].request.cred \in task[t].under .. credentials

\* The conditional header of a get is the ETag of the copy it took, and the
\* copy has the type asked for.
CopyMatches(t) ==
    task[t].pc \in {"sent", "answered"} /\ task[t].call.op = "get" =>
        IF task[t].request.cached = Absent THEN task[t].request.etag = {}
        ELSE /\ task[t].request.etag = {task[t].request.cached.etag}
             /\ task[t].request.cached.type = task[t].call.type

\* What the service answered a get with is no older than the call.
ReplyCurrent(t) ==
    task[t].pc = "answered" /\ task[t].call.op = "get" =>
        /\ task[t].reply.class = "Ok" => task[t].reply.etag >= task[t].since
        /\ task[t].reply.class = "NotModified" =>
              /\ task[t].request.cached # Absent
              /\ task[t].request.cached.etag >= task[t].since

ResultCurrent(t) ==
    task[t].pc = "done" /\ task[t].call.op = "get" =>
        /\ task[t].result.class # "CacheMiss"
        /\ task[t].result.class = "Ok" =>
              /\ task[t].result.entity.type = task[t].call.type
              /\ task[t].result.entity.etag >= task[t].since

TaskInv(t) ==
    CallKnown(t) /\ CredentialsFresh(t) /\ CopyMatches(t) /\ ReplyCurrent(t) /\ ResultCurrent(t)

\* The semaphore's queue holds the waiting callers, each once.
QueueExact ==
    /\ arrivals \in Seq(Tasks)
    /\ \A i, j \in DOMAIN arrivals : arrivals[i] = arrivals[j] => i = j
    /\ \A i \in DOMAIN arrivals : task[arrivals[i]].pc = "waiting"

Holders == {t \in Tasks : Holding(t)}
PermitInv == permits \in Nat /\ IsFiniteSet(Holders) /\ PermitsExact

ServiceTyped == version \in [Urls -> Nat] /\ credentials \in Nat

HttpBmcInv ==
    /\ task = [t \in Tasks |-> task[t]]
    /\ ServiceTyped
    /\ \A t \in Tasks : TaskInv(t)
    /\ QueueExact
    /\ PermitInv

----------------------------------------------------------------------------
(* What the steps have in common.                                           *)

\* Every call names a URL of the service, and only the calls it lists.
LEMMA CallUrl ==
    ASSUME NEW call \in Calls
    PROVE  /\ call.url \in Urls
           /\ call.op \in {"get", "update", "create", "delete", "session", "refer"}
    BY DEF Calls, Gets, Updates, Others, References

\* What is known of a caller that takes no part in a step stays true, since
\* versions and credentials only grow.
LEMMA OthersKept ==
    ASSUME NEW u, TaskInv(u), ServiceTyped, ServiceTyped',
           task'[u] = task[u], credentials <= credentials',
           \A v \in Urls : version[v] <= version'[v]
    PROVE  TaskInv(u)'
<1>1. CallKnown(u)'
  <2> USE DEF TaskInv, CallKnown
  <2>1. ASSUME task[u].pc \in {"waiting", "entered", "sent"}, task[u].call.op = "get"
        PROVE  task[u].since <= version'[task[u].call.url]
    <3>1. task[u].call.url \in Urls /\ task[u].since \in Nat
      BY <2>1, CallUrl
    <3>2. /\ version[task[u].call.url] \in Nat /\ version'[task[u].call.url] \in Nat
          /\ version[task[u].call.url] <= version'[task[u].call.url]
      BY <3>1 DEF ServiceTyped
    <3>3. QED
      BY <2>1, <3>1, <3>2
  <2>2. QED
    BY <2>1
<1>2. CredentialsFresh(u)'
  BY DEF TaskInv, CredentialsFresh, ServiceTyped
<1>3. CopyMatches(u)' /\ ReplyCurrent(u)' /\ ResultCurrent(u)'
  BY DEF TaskInv, CopyMatches, ReplyCurrent, ResultCurrent
<1>4. QED
  BY <1>1, <1>2, <1>3 DEF TaskInv

\* A step of one caller: the others' parts of the invariant are kept.
LEMMA OneStep ==
    ASSUME HttpBmcInv, ServiceTyped', NEW t \in Tasks, NEW r,
           task' = [task EXCEPT ![t] = r], TaskInv(t)', credentials' = credentials,
           \A v \in Urls : version[v] <= version'[v]
    PROVE  /\ task' = [u \in Tasks |-> task'[u]]
           /\ \A u \in Tasks : TaskInv(u)'
<1>1. task' = [u \in Tasks |-> task'[u]]
  BY DEF HttpBmcInv
<1>2. ASSUME NEW u \in Tasks, u # t PROVE TaskInv(u)'
  <2>1. task'[u] = task[u]
    BY <1>2 DEF HttpBmcInv
  <2>2. TaskInv(u) /\ ServiceTyped /\ credentials <= credentials'
    BY DEF HttpBmcInv, ServiceTyped
  <2>3. QED
    BY <2>1, <2>2, OthersKept
<1>3. QED
  BY <1>1, <1>2

LEMMA QueueElement ==
    ASSUME QueueExact, NEW i \in DOMAIN arrivals
    PROVE  arrivals[i] \in Tasks /\ task[arrivals[i]].pc = "waiting"
<1>1. arrivals \in Seq(Tasks) /\ task[arrivals[i]].pc = "waiting"
  BY DEF QueueExact
<1>2. QED
  BY <1>1

\* A queue none of whose callers moves stays exact.
LEMMA QueueKept ==
    ASSUME HttpBmcInv, NEW t \in Tasks, NEW r, task' = [task EXCEPT ![t] = r],
           task[t].pc # "waiting", arrivals' = arrivals
    PROVE  QueueExact'
<1>1. ASSUME NEW i \in DOMAIN arrivals PROVE task'[arrivals[i]].pc = "waiting"
  <2>1. arrivals[i] \in Tasks /\ task[arrivals[i]].pc = "waiting"
    BY QueueElement DEF HttpBmcInv
  <2>2. QED
    BY <2>1 DEF HttpBmcInv
<1>2. QED
  BY <1>1 DEF HttpBmcInv, QueueExact

\* The permits over a step of one caller: it keeps, obtains or returns one.
LEMMA PermitsKept ==
    ASSUME HttpBmcInv, NEW t \in Tasks, NEW r, task' = [task EXCEPT ![t] = r],
           r.pc \in {"entered", "sent", "answered"} <=> Holding(t), permits' = permits
    PROVE  PermitInv'
<1>1. Holders' = Holders
  BY DEF HttpBmcInv, Holders, Holding
<1>2. QED
  BY <1>1 DEF HttpBmcInv, PermitInv, PermitsExact, Holders

LEMMA PermitObtained ==
    ASSUME HttpBmcInv, NEW t \in Tasks, NEW r, task' = [task EXCEPT ![t] = r],
           r.pc \in {"entered", "sent", "answered"}, ~Holding(t),
           permits > 0, permits' = permits - 1
    PROVE  PermitInv'
<1>1. Holders' = Holders \cup {t} /\ t \notin Holders
  BY DEF HttpBmcInv, Holders, Holding
<1>2. IsFiniteSet(Holders) /\ permits \in Nat /\ permits + Cardinality(Holders) = Limit
  BY DEF HttpBmcInv, PermitInv, PermitsExact, Holders
<1>3. IsFiniteSet(Holders') /\ Cardinality(Holders') = Cardinality(Holders) + 1
  BY <1>1, <1>2, FS_AddElement
<1>4. Cardinality(Holders) \in Nat
  BY <1>2, FS_CardinalityType
<1>5. permits' \in Nat /\ permits' + Cardinality(Holders') = Limit
  BY <1>2, <1>3, <1>4
<1>6. QED
  BY <1>3, <1>5 DEF PermitInv, PermitsExact, Holders

LEMMA PermitReturned ==
    ASSUME HttpBmcInv, NEW t \in Tasks, NEW r, task' = [task EXCEPT ![t] = r],
           r.pc \notin {"entered", "sent", "answered"}, Holding(t), permits' = permits + 1
    PROVE  PermitInv'
<1>1. Holders' = Holders \ {t} /\ t \in Holders
  BY DEF HttpBmcInv, Holders, Holding
<1>2. IsFiniteSet(Holders) /\ permits \in Nat /\ permits + Cardinality(Holders) = Limit
  BY DEF HttpBmcInv, PermitInv, PermitsExact, Holders
<1>3. IsFiniteSet(Holders') /\ Cardinality(Holders') = Cardinality(Holders) - 1
  BY <1>1, <1>2, FS_RemoveElement
<1>4. Cardinality(Holders) \in Nat
  BY <1>2, FS_CardinalityType
<1>5. permits' \in Nat /\ permits' + Cardinality(Holders') = Limit
  BY <1>2, <1>3, <1>4
<1>6. QED
  BY <1>3, <1>5 DEF PermitInv, PermitsExact, Holders

----------------------------------------------------------------------------
(* One lemma per action.                                                    *)

LEMMA InitInv == HttpBmcInit => HttpBmcInv
<1> SUFFICES ASSUME HttpBmcInit PROVE HttpBmcInv
  OBVIOUS
<1> USE DEF HttpBmcInit, IdleTask
<1>1. task = [t \in Tasks |-> task[t]] /\ ServiceTyped
  BY DEF ServiceTyped
<1>2. ASSUME NEW t \in Tasks PROVE TaskInv(t)
  BY DEF TaskInv, CallKnown, Phases, CredentialsFresh, CopyMatches, ReplyCurrent, ResultCurrent
<1>3. QueueExact
  BY DEF QueueExact
<1>4. PermitInv
  <2>1. Holders = {}
    BY DEF Holders, Holding
  <2>2. IsFiniteSet({}) /\ Cardinality({}) = 0
    BY FS_EmptySet
  <2>3. permits \in Nat /\ permits + Cardinality(Holders) = Limit /\ IsFiniteSet(Holders)
    BY <2>1, <2>2, HttpBmcAssumption
  <2>4. QED
    BY <2>3 DEF PermitInv, PermitsExact, Holders
<1>5. QED
  BY <1>1, <1>2, <1>3, <1>4 DEF HttpBmcInv

LEMMA CallInv ==
    ASSUME HttpBmcInv, NEW t \in Tasks, NEW call \in Offered[t], Call(t, call)
    PROVE  HttpBmcInv'
<1> DEFINE r == [pc |-> "waiting", call |-> call,
                 since |-> IF call.op = "get" THEN version[call.url] ELSE 0]
<1>1. /\ task[t].pc = "idle" /\ task' = [task EXCEPT ![t] = r]
      /\ arrivals' = Append(arrivals, t)
      /\ permits' = permits /\ credentials' = credentials /\ version' = version
  BY DEF Call
<1>2. call \in Calls /\ call.url \in Urls
  BY OfferedAssumption, CallUrl
<1>3. ServiceTyped' /\ \A v \in Urls : version[v] <= version'[v]
  BY <1>1 DEF HttpBmcInv, ServiceTyped
<1>4. task'[t] = r
  BY <1>1 DEF HttpBmcInv
<1>5. TaskInv(t)'
  BY <1>1, <1>2, <1>3, <1>4
  DEF TaskInv, CallKnown, Phases, CredentialsFresh, CopyMatches, ReplyCurrent, ResultCurrent, ServiceTyped
<1>6. QueueExact'
  <2>1. arrivals \in Seq(Tasks)
    BY DEF HttpBmcInv, QueueExact
  <2>2. /\ arrivals' \in Seq(Tasks) /\ Len(arrivals') = Len(arrivals) + 1
        /\ arrivals'[Len(arrivals) + 1] = t
        /\ \A i \in 1 .. Len(arrivals) : arrivals'[i] = arrivals[i]
    BY <1>1, <2>1
  <2>3. ASSUME NEW i \in DOMAIN arrivals
        PROVE  arrivals[i] # t /\ arrivals[i] \in Tasks /\ task[arrivals[i]].pc = "waiting"
    BY <1>1, QueueElement DEF HttpBmcInv
  <2>4. ASSUME NEW i \in DOMAIN arrivals PROVE task'[arrivals[i]].pc = "waiting"
    BY <2>3, <1>1 DEF HttpBmcInv
  <2>5. \A i, j \in DOMAIN arrivals : arrivals[i] = arrivals[j] => i = j
    BY DEF HttpBmcInv, QueueExact
  <2>6. DOMAIN arrivals' = 1 .. Len(arrivals) + 1 /\ DOMAIN arrivals = 1 .. Len(arrivals)
        /\ Len(arrivals) \in Nat
    BY <2>1, <2>2
  <2>7. \A i, j \in DOMAIN arrivals' : arrivals'[i] = arrivals'[j] => i = j
    BY <2>2, <2>3, <2>5, <2>6
  <2>8. \A i \in DOMAIN arrivals' : task'[arrivals'[i]].pc = "waiting"
    BY <2>2, <2>4, <2>6, <1>4
  <2>9. QED
    BY <2>2, <2>7, <2>8 DEF QueueExact
<1>7. PermitInv'
  BY <1>1, PermitsKept DEF Holding
<1>8. QED
  BY <1>1, <1>3, <1>5, <1>6, <1>7, OneStep DEF HttpBmcInv

LEMMA AcquireInv ==
    ASSUME HttpBmcInv, NEW t \in Tasks, Acquire(t)
    PROVE  HttpBmcInv'
<1> DEFINE r == [pc |-> "entered", call |-> task[t].call, since |-> task[t].since,
                 under |-> credentials]
<1>1. /\ permits > 0 /\ arrivals # <<>> /\ Head(arrivals) = t
      /\ arrivals' = Tail(arrivals) /\ permits' = permits - 1
      /\ task' = [task EXCEPT ![t] = r]
      /\ credentials' = credentials /\ version' = version
  BY DEF Acquire, HttpBmcInv
<1>2. arrivals \in Seq(Tasks)
  BY DEF HttpBmcInv, QueueExact
<1>3. /\ 1 \in DOMAIN arrivals /\ arrivals[1] = t
      /\ DOMAIN arrivals = 1 .. Len(arrivals) /\ Len(arrivals) \in Nat
  BY <1>1, <1>2
<1>4. task[t].pc = "waiting"
  BY <1>3 DEF HttpBmcInv, QueueExact
<1>5. ServiceTyped' /\ \A v \in Urls : version[v] <= version'[v]
  BY <1>1 DEF HttpBmcInv, ServiceTyped
<1>6. task'[t] = r
  BY <1>1 DEF HttpBmcInv
<1>7. TaskInv(t)'
  <2>1. CallKnown(t) /\ ServiceTyped
    BY DEF HttpBmcInv, TaskInv
  <2>2. QED
    BY <2>1, <1>1, <1>4, <1>6
    DEF TaskInv, CallKnown, Phases, CredentialsFresh, CopyMatches, ReplyCurrent, ResultCurrent, ServiceTyped
<1>8. QueueExact'
  <2>1. /\ arrivals' \in Seq(Tasks) /\ DOMAIN arrivals' = 1 .. Len(arrivals) - 1
        /\ \A i \in 1 .. Len(arrivals) - 1 : arrivals'[i] = arrivals[i + 1]
    BY <1>1, <1>2
  <2>2. \A i, j \in DOMAIN arrivals : arrivals[i] = arrivals[j] => i = j
    BY DEF HttpBmcInv, QueueExact
  <2>3. \A i, j \in DOMAIN arrivals' : arrivals'[i] = arrivals'[j] => i = j
    BY <1>3, <2>1, <2>2
  <2>4. ASSUME NEW i \in DOMAIN arrivals' PROVE task'[arrivals'[i]].pc = "waiting"
    <3>1. i + 1 \in DOMAIN arrivals /\ arrivals'[i] = arrivals[i + 1] /\ i + 1 # 1
      BY <1>3, <2>1
    <3>2. arrivals[i + 1] # t
      BY <1>3, <2>2, <3>1
    <3>3. task[arrivals[i + 1]].pc = "waiting" /\ arrivals[i + 1] \in Tasks
      BY <3>1, QueueElement DEF HttpBmcInv
    <3>4. QED
      BY <3>1, <3>2, <3>3, <1>1 DEF HttpBmcInv
  <2>5. QED
    BY <2>1, <2>3, <2>4 DEF QueueExact
<1>9. PermitInv'
  BY <1>1, <1>4, PermitObtained DEF Holding
<1>10. QED
  BY <1>1, <1>5, <1>7, <1>8, <1>9, OneStep DEF HttpBmcInv

LEMMA SendInv ==
    ASSUME HttpBmcInv, NEW t \in Tasks, Send(t)
    PROVE  HttpBmcInv'
<1> DEFINE call == task[t].call
           r == [pc |-> "sent", call |-> call, since |-> task[t].since,
                 under |-> task[t].under, request |-> Request(call)]
<1>1. /\ task[t].pc = "entered" /\ task' = [task EXCEPT ![t] = r]
      /\ arrivals' = arrivals /\ permits' = permits
      /\ credentials' = credentials /\ version' = version
  BY DEF Send
<1>2. ServiceTyped' /\ \A v \in Urls : version[v] <= version'[v]
  BY <1>1 DEF HttpBmcInv, ServiceTyped
<1>3. task'[t] = r
  BY <1>1 DEF HttpBmcInv
<1>4. CallKnown(t)'
  BY <1>1, <1>3 DEF HttpBmcInv, TaskInv, CallKnown, Phases
<1>5. CredentialsFresh(t)'
  <2>1. task[t].under \in 0 .. credentials /\ credentials \in Nat
    BY <1>1 DEF HttpBmcInv, TaskInv, CredentialsFresh, ServiceTyped
  <2>2. Request(call).cred = IF call.op = "session" THEN Absent ELSE credentials
    BY DEF Request, ReadCredentials
  <2> HIDE DEF call
  <2>3. QED
    BY <1>1, <1>3, <2>1, <2>2 DEF CredentialsFresh
<1>6. CopyMatches(t)'
  <2>1. ASSUME call.op = "get"
        PROVE  /\ Request(call).cached = GetTyped(call)
               /\ Request(call).etag = IF GetTyped(call) = Absent THEN {} ELSE {GetTyped(call).etag}
    BY <2>1 DEF Request
  <2>2. GetTyped(call) # Absent => GetTyped(call).type = call.type
    BY DEF GetTyped
  <2> HIDE DEF call
  <2>3. QED
    BY <1>3, <2>1, <2>2 DEF CopyMatches
<1>7. ReplyCurrent(t)' /\ ResultCurrent(t)'
  BY <1>3 DEF ReplyCurrent, ResultCurrent
<1>8. PermitInv'
  BY <1>1, PermitsKept DEF Holding
<1>9. QueueExact'
  BY <1>1, QueueKept
<1> HIDE DEF r
<1>10. QED
  BY <1>1, <1>2, <1>4, <1>5, <1>6, <1>7, <1>8, <1>9, OneStep DEF HttpBmcInv, TaskInv

\* An operation ends: whatever its result, the caller keeps its call, and the
\* permit goes back.
LEMMA EndsInv ==
    ASSUME HttpBmcInv, NEW t \in Tasks, Holding(t), NEW result, Ends(t, result),
           task[t].call.op = "get" =>
             /\ result.class # "CacheMiss"
             /\ result.class = "Ok" => /\ result.entity.type = task[t].call.type
                                       /\ result.entity.etag >= task[t].since,
           UNCHANGED <<arrivals, credentials, version>>
    PROVE  HttpBmcInv'
<1> DEFINE r == [pc |-> "done", call |-> task[t].call, since |-> task[t].since, result |-> result]
<1>1. task' = [task EXCEPT ![t] = r] /\ permits' = permits + 1
  BY DEF Ends, HttpBmcInv
<1>2. ServiceTyped' /\ \A v \in Urls : version[v] <= version'[v]
  BY DEF HttpBmcInv, ServiceTyped
<1>3. task'[t] = r
  BY <1>1 DEF HttpBmcInv
<1>4. CallKnown(t) /\ task[t].pc \notin {"idle", "waiting"}
  BY DEF HttpBmcInv, TaskInv, Holding
<1>5. TaskInv(t)'
  BY <1>3, <1>4
  DEF TaskInv, CallKnown, Phases, CredentialsFresh, CopyMatches, ReplyCurrent, ResultCurrent
<1>6. PermitInv'
  BY <1>1, PermitReturned
<1>7. QueueExact'
  BY <1>1, <1>4, QueueKept
<1> HIDE DEF r
<1>8. QED
  BY <1>1, <1>2, <1>5, <1>6, <1>7, OneStep DEF HttpBmcInv

LEMMA RejectInv ==
    ASSUME HttpBmcInv, NEW t \in Tasks, Reject(t)
    PROVE  HttpBmcInv'
<1>1. Holding(t) /\ Ends(t, [class |-> "Rejected"]) /\ UNCHANGED <<arrivals, credentials, version>>
  BY DEF Reject, Holding
<1>2. QED
  BY <1>1, EndsInv

\* The service answers, or the transport fails: the caller keeps its call, its
\* copy and its permit.
LEMMA ReplyInv ==
    ASSUME HttpBmcInv, ServiceTyped', NEW t \in Tasks, NEW reply, task[t].pc = "sent",
           Reply(t, reply),
           task[t].call.op = "get" =>
             /\ reply.class = "Ok" => reply.etag >= task[t].since
             /\ reply.class = "NotModified" => /\ task[t].request.cached # Absent
                                               /\ task[t].request.cached.etag >= task[t].since,
           UNCHANGED <<arrivals, permits, credentials>>,
           \A v \in Urls : version[v] <= version'[v]
    PROVE  HttpBmcInv'
<1> DEFINE r == [pc |-> "answered", call |-> task[t].call, since |-> task[t].since,
                 request |-> task[t].request, reply |-> reply]
<1>1. task' = [task EXCEPT ![t] = r]
  BY DEF Reply, HttpBmcInv
<1>2. task'[t] = r
  BY <1>1 DEF HttpBmcInv
<1>3. CallKnown(t) /\ CopyMatches(t)
  BY DEF HttpBmcInv, TaskInv
<1>4. TaskInv(t)'
  BY <1>2, <1>3
  DEF TaskInv, CallKnown, Phases, CredentialsFresh, CopyMatches, ReplyCurrent, ResultCurrent
<1>5. PermitInv'
  BY <1>1, PermitsKept DEF Holding
<1>6. QueueExact'
  BY <1>1, QueueKept
<1> HIDE DEF r
<1>7. QED
  BY <1>1, <1>4, <1>5, <1>6, OneStep DEF HttpBmcInv

LEMMA ServeGetInv ==
    ASSUME HttpBmcInv, NEW t \in Tasks, ServeGet(t)
    PROVE  HttpBmcInv'
<1> DEFINE now == version[task[t].call.url]
<1>1. /\ task[t].pc = "sent" /\ task[t].call.op = "get"
      /\ UNCHANGED <<arrivals, permits, credentials, version>>
  BY DEF ServeGet
<1>2. ServiceTyped' /\ \A v \in Urls : version[v] <= version'[v]
  BY <1>1 DEF HttpBmcInv, ServiceTyped
<1>3. now \in Nat /\ task[t].since \in Nat /\ task[t].since <= now
  <2>1. task[t].call \in Calls /\ task[t].since \in Nat /\ task[t].since <= now
    BY <1>1 DEF HttpBmcInv, TaskInv, CallKnown
  <2>2. QED
    BY <2>1, CallUrl DEF HttpBmcInv, ServiceTyped
<1>4. CASE now \in task[t].request.etag
  <2>1. Reply(t, [class |-> "NotModified"])
    BY <1>4 DEF ServeGet
  <2>2. task[t].request.cached # Absent /\ task[t].request.cached.etag = now
    BY <1>1, <1>4 DEF HttpBmcInv, TaskInv, CopyMatches
  <2> HIDE DEF now
  <2>3. QED
    BY <1>1, <1>2, <1>3, <2>1, <2>2, ReplyInv
<1>5. CASE now \notin task[t].request.etag
  <2>1. PICK tagged \in BOOLEAN : Reply(t, [class |-> "Ok", etag |-> now, tagged |-> tagged])
    BY <1>5 DEF ServeGet
  <2> HIDE DEF now
  <2>2. QED
    BY <1>1, <1>2, <1>3, <2>1, ReplyInv
<1>6. QED
  BY <1>4, <1>5

LEMMA ServeUpdateInv ==
    ASSUME HttpBmcInv, NEW t \in Tasks, ServeUpdate(t)
    PROVE  HttpBmcInv'
<1>1. /\ task[t].pc = "sent" /\ task[t].call.op # "get"
      /\ UNCHANGED <<arrivals, permits, credentials>>
  BY DEF ServeUpdate
<1>2. PICK reply : Reply(t, reply)
  BY DEF ServeUpdate
<1>3. \/ version' = version
      \/ version' = [version EXCEPT ![task[t].call.url] = version[task[t].call.url] + 1]
  BY DEF ServeUpdate, HttpBmcInv, ServiceTyped
<1>4. ServiceTyped' /\ \A v \in Urls : version[v] <= version'[v]
  BY <1>1, <1>3 DEF HttpBmcInv, ServiceTyped
<1>5. QED
  BY <1>1, <1>2, <1>4, ReplyInv

LEMMA ServeOtherInv ==
    ASSUME HttpBmcInv, NEW t \in Tasks, ServeOther(t) \/ RequestFails(t)
    PROVE  HttpBmcInv'
<1>1. /\ task[t].pc = "sent"
      /\ UNCHANGED <<arrivals, permits, credentials, version>>
      /\ ServeOther(t) => task[t].call.op # "get"
  BY DEF ServeOther, RequestFails
<1>2. ServiceTyped' /\ \A v \in Urls : version[v] <= version'[v]
  BY <1>1 DEF HttpBmcInv, ServiceTyped
<1>3. CASE ServeOther(t)
  <2>1. Reply(t, [class |-> "Changed"])
    BY <1>3 DEF ServeOther
  <2>2. QED
    BY <1>1, <1>2, <2>1, ReplyInv
<1>4. CASE RequestFails(t)
  <2>1. Reply(t, [class |-> "Failed"])
    BY <1>4 DEF RequestFails
  <2>2. QED
    BY <1>1, <1>2, <2>1, ReplyInv
<1>5. QED
  BY <1>3, <1>4

LEMMA ServiceChangesInv ==
    ASSUME HttpBmcInv, (\E u \in Urls : ServiceChanges(u)) \/ SetCredentials
    PROVE  HttpBmcInv'
<1>1. /\ UNCHANGED <<task, arrivals, permits>>
      /\ ServiceTyped' /\ credentials <= credentials'
      /\ \A v \in Urls : version[v] <= version'[v]
  <2>1. CASE \E u \in Urls : ServiceChanges(u)
    BY <2>1 DEF ServiceChanges, HttpBmcInv, ServiceTyped
  <2>2. CASE SetCredentials
    BY <2>2 DEF SetCredentials, HttpBmcInv, ServiceTyped
  <2>3. QED
    BY <2>1, <2>2
<1>2. ASSUME NEW u \in Tasks PROVE TaskInv(u)'
  BY <1>1, OthersKept DEF HttpBmcInv
<1>3. QueueExact' /\ PermitInv'
  BY <1>1 DEF HttpBmcInv, QueueExact, PermitInv, PermitsExact, Holders, Holding
<1>4. QED
  BY <1>1, <1>2, <1>3 DEF HttpBmcInv

LEMMA GetReceivesInv ==
    ASSUME HttpBmcInv, NEW t \in Tasks, GetReceives(t)
    PROVE  HttpBmcInv'
<1> DEFINE call   == task[t].call
           reply  == task[t].reply
           entity == [type |-> call.type, etag |-> reply.etag]
           copy   == task[t].request.cached
<1>1. /\ task[t].pc = "answered" /\ call.op = "get" /\ Holding(t)
      /\ UNCHANGED <<arrivals, credentials, version>>
  BY DEF GetReceives, Holding
<1>2. ReplyCurrent(t) /\ CopyMatches(t)
  BY DEF HttpBmcInv, TaskInv
<1>3. \/ reply.class = "Ok" /\ Ends(t, [class |-> "Ok", entity |-> entity])
      \/ /\ reply.class = "NotModified"
         /\ Ends(t, IF copy = Absent THEN [class |-> "CacheMiss"]
                    ELSE [class |-> "Ok", entity |-> copy])
      \/ reply.class = "Failed" /\ Ends(t, [class |-> "Failed"])
  BY DEF GetReceives, Copy
<1>4. CASE reply.class = "Ok" /\ Ends(t, [class |-> "Ok", entity |-> entity])
  <2>1. reply.etag >= task[t].since
    BY <1>1, <1>2, <1>4 DEF ReplyCurrent
  <2>2. QED
    BY <1>1, <1>4, <2>1, EndsInv
<1>5. CASE /\ reply.class = "NotModified"
           /\ Ends(t, IF copy = Absent THEN [class |-> "CacheMiss"]
                      ELSE [class |-> "Ok", entity |-> copy])
  <2>1. copy # Absent /\ copy.etag >= task[t].since /\ copy.type = call.type
    BY <1>1, <1>2, <1>5 DEF ReplyCurrent, CopyMatches
  <2>2. Ends(t, [class |-> "Ok", entity |-> copy])
    BY <1>5, <2>1
  <2>3. QED
    BY <1>1, <2>1, <2>2, EndsInv
<1>6. CASE reply.class = "Failed" /\ Ends(t, [class |-> "Failed"])
  BY <1>1, <1>6, EndsInv
<1>7. QED
  BY <1>3, <1>4, <1>5, <1>6

LEMMA ReceivesInv ==
    ASSUME HttpBmcInv, NEW t \in Tasks, Receives(t)
    PROVE  HttpBmcInv'
<1>1. /\ Holding(t) /\ Ends(t, [class |-> task[t].reply.class]) /\ task[t].call.op # "get"
      /\ UNCHANGED <<arrivals, credentials, version>>
  BY DEF Receives, Holding
<1>2. QED
  BY <1>1, EndsInv

\* A caller that is not waiting is not in the queue; one that is leaves it
\* without disturbing the others.
LEMMA LeavesQueue ==
    ASSUME HttpBmcInv, NEW t \in Tasks, task' = [task EXCEPT ![t] = IdleTask],
           arrivals' = RemoveFirst(arrivals, t)
    PROVE  QueueExact'
<1>1. arrivals \in Seq(Tasks) /\ \A i, j \in DOMAIN arrivals : arrivals[i] = arrivals[j] => i = j
  BY DEF HttpBmcInv, QueueExact
<1>2. DOMAIN arrivals = 1 .. Len(arrivals) /\ Len(arrivals) \in Nat
  BY <1>1
<1>3. ASSUME NEW i \in DOMAIN arrivals, arrivals[i] # t PROVE task'[arrivals[i]].pc = "waiting"
  BY <1>3, QueueElement DEF HttpBmcInv
<1>4. CASE Contains(arrivals, t)
  <2>1. PICK k \in 1 .. Len(arrivals) : arrivals[k] = t /\ arrivals' = RemoveAt(arrivals, k)
    BY <1>1, <1>4, RemoveFirstPosition
  <2>2. /\ arrivals' \in Seq(Tasks) /\ Len(arrivals') = Len(arrivals) - 1
        /\ \A i \in 1 .. Len(arrivals) - 1 :
              arrivals'[i] = IF i < k THEN arrivals[i] ELSE arrivals[i + 1]
    <3>1. /\ RemoveAt(arrivals, k) \in Seq(Tasks) /\ Len(RemoveAt(arrivals, k)) = Len(arrivals) - 1
          /\ \A i \in 1 .. Len(arrivals) - 1 :
                RemoveAt(arrivals, k)[i] = IF i < k THEN arrivals[i] ELSE arrivals[i + 1]
      BY <1>1, RemoveAtProperties
    <3>2. QED
      BY <2>1, <3>1
  <2>3. DOMAIN arrivals' = 1 .. Len(arrivals) - 1
    BY <2>2
  <2>4. ASSUME NEW i \in DOMAIN arrivals', NEW j \in DOMAIN arrivals', arrivals'[i] = arrivals'[j]
        PROVE  i = j
    <3> DEFINE old(n) == IF n < k THEN n ELSE n + 1
    <3>1. /\ old(i) \in DOMAIN arrivals /\ old(j) \in DOMAIN arrivals
          /\ arrivals'[i] = arrivals[old(i)] /\ arrivals'[j] = arrivals[old(j)]
      BY <1>2, <2>2, <2>3
    <3>2. old(i) = old(j)
      BY <1>1, <2>4, <3>1
    <3>3. QED
      BY <1>2, <2>3, <3>2
  <2>5. ASSUME NEW i \in DOMAIN arrivals' PROVE task'[arrivals'[i]].pc = "waiting"
    <3>1. PICK j \in DOMAIN arrivals : arrivals'[i] = arrivals[j] /\ j # k
      BY SMTT(60), <1>2, <2>1, <2>2, <2>3
    <3>2. arrivals[j] # t
      BY <1>1, <1>2, <2>1, <3>1
    <3>3. QED
      BY <1>3, <3>1, <3>2
  <2>6. QED
    BY <2>2, <2>4, <2>5 DEF QueueExact
<1>5. CASE ~Contains(arrivals, t)
  <2>1. arrivals' = arrivals /\ \A i \in DOMAIN arrivals : arrivals[i] # t
    BY <1>2, <1>5 DEF RemoveFirst, Contains
  <2>2. QED
    BY <1>1, <1>3, <2>1 DEF QueueExact
<1>6. QED
  BY <1>4, <1>5

LEMMA CancelInv ==
    ASSUME HttpBmcInv, NEW t \in Tasks, Returns(t) \/ Cancel(t)
    PROVE  HttpBmcInv'
<1>1. task' = [task EXCEPT ![t] = IdleTask] /\ UNCHANGED <<credentials, version>>
  BY DEF Returns, Cancel
<1>2. ServiceTyped' /\ \A v \in Urls : version[v] <= version'[v]
  BY <1>1 DEF HttpBmcInv, ServiceTyped
<1>3. TaskInv(t)'
  <2>1. task'[t].pc = "idle"
    BY <1>1 DEF HttpBmcInv, IdleTask
  <2>2. QED
    BY <2>1
    DEF TaskInv, CallKnown, Phases, CredentialsFresh, CopyMatches, ReplyCurrent, ResultCurrent
<1>4. QueueExact' /\ PermitInv'
  <2>1. CASE Returns(t)
    <3>1. task[t].pc = "done" /\ arrivals' = arrivals /\ permits' = permits
      BY <2>1 DEF Returns
    <3>2. QED
      BY <1>1, <3>1, QueueKept, PermitsKept DEF Holding, IdleTask
  <2>2. CASE Cancel(t) /\ task[t].pc = "waiting"
    <3>1. arrivals' = RemoveFirst(arrivals, t) /\ permits' = permits
      BY <2>2 DEF Cancel, HttpBmcInv, PermitInv
    <3>2. QED
      BY <1>1, <2>2, <3>1, LeavesQueue, PermitsKept DEF Holding, IdleTask
  <2>3. CASE Cancel(t) /\ task[t].pc # "waiting"
    <3>1. arrivals' = RemoveFirst(arrivals, t) /\ permits' = permits + 1 /\ Holding(t)
      BY <2>3 DEF Cancel, Holding
    <3>2. QED
      BY <1>1, <3>1, LeavesQueue, PermitReturned DEF IdleTask
  <2>4. QED
    BY <2>1, <2>2, <2>3
<1>5. QED
  BY <1>1, <1>2, <1>3, <1>4, OneStep DEF HttpBmcInv

LEMMA NextInv == HttpBmcInv /\ [HttpBmcNext]_bmcVars => HttpBmcInv'
<1> SUFFICES ASSUME HttpBmcInv, [HttpBmcNext]_bmcVars PROVE HttpBmcInv'
  OBVIOUS
<1>1. CASE UNCHANGED bmcVars
  BY ZenonT(60), <1>1 DEF bmcVars, HttpBmcInv, ServiceTyped, TaskInv, CallKnown, CredentialsFresh, CopyMatches,
     ReplyCurrent, ResultCurrent, QueueExact, PermitInv, PermitsExact, Holders, Holding
<1>2. ASSUME NEW t \in Tasks, NEW call \in Offered[t], Call(t, call) PROVE HttpBmcInv'
  BY <1>2, CallInv
<1>3. ASSUME NEW t \in Tasks, Acquire(t) PROVE HttpBmcInv'
  BY <1>3, AcquireInv
<1>4. ASSUME NEW t \in Tasks, Send(t) PROVE HttpBmcInv'
  BY <1>4, SendInv
<1>5. ASSUME NEW t \in Tasks, Reject(t) PROVE HttpBmcInv'
  BY <1>5, RejectInv
<1>6. ASSUME NEW t \in Tasks, ServeGet(t) PROVE HttpBmcInv'
  BY <1>6, ServeGetInv
<1>7. ASSUME NEW t \in Tasks, ServeUpdate(t) PROVE HttpBmcInv'
  BY <1>7, ServeUpdateInv
<1>8. ASSUME NEW t \in Tasks, ServeOther(t) \/ RequestFails(t) PROVE HttpBmcInv'
  BY <1>8, ServeOtherInv
<1>9. ASSUME NEW t \in Tasks, GetReceives(t) PROVE HttpBmcInv'
  BY <1>9, GetReceivesInv
<1>10. ASSUME NEW t \in Tasks, Receives(t) PROVE HttpBmcInv'
  BY <1>10, ReceivesInv
<1>11. ASSUME NEW t \in Tasks, Returns(t) \/ Cancel(t) PROVE HttpBmcInv'
  BY <1>11, CancelInv
<1>12. ASSUME (\E u \in Urls : ServiceChanges(u)) \/ SetCredentials PROVE HttpBmcInv'
  BY <1>12, ServiceChangesInv
<1>13. QED
  BY <1>1, <1>2, <1>3, <1>4, <1>5, <1>6, <1>7, <1>8, <1>9, <1>10, <1>11, <1>12
  DEF HttpBmcNext, Steps

\* The inductive invariant of the client behind its concurrency limit holds in
\* every state: for each caller what its request, its copy and its answer have
\* to do with the resource and the credentials of now, the queue of waiters
\* and the count of permits (ConcurrencyLimitedBmc, HttpBmc).
THEOREM HttpBmcInvariance == HttpBmcSpec => []HttpBmcInv
<1>1. QED
  BY InitInv, NextInv, PTL DEF HttpBmcSpec

\* A get never returns an entity that is older than its call or of another
\* type, and never misses the copy a 304 is answered from, whatever other
\* callers put into or push out of the cache meanwhile (get_with_cache).
THEOREM GetCorrect == HttpBmcSpec => []GetIsCurrent
<1>1. HttpBmcInv => GetIsCurrent
  BY DEF HttpBmcInv, TaskInv, ResultCurrent, GetIsCurrent
<1>2. QED
  BY <1>1, HttpBmcInvariance, PTL

\* A request carries credentials that were in force at some moment since its
\* permit was obtained, and only create_session carries none (set_credentials,
\* read_credentials).
THEOREM CredentialsCorrect == HttpBmcSpec => []FreshCredentials
<1>1. HttpBmcInv => FreshCredentials
  BY DEF HttpBmcInv, TaskInv, CredentialsFresh, FreshCredentials
<1>2. QED
  BY <1>1, HttpBmcInvariance, PTL

\* Permits are conserved over every completion, refusal and cancellation, so
\* no more than Limit operations are ever between permit() and their end
\* (with_request_concurrency_limit).
THEOREM PermitsCorrect ==
    HttpBmcSpec => [](PermitsExact /\ Cardinality({t \in Tasks : Holding(t)}) <= Limit)
<1>1. HttpBmcInv => PermitsExact /\ Cardinality({t \in Tasks : Holding(t)}) <= Limit
  <2> SUFFICES ASSUME HttpBmcInv
               PROVE  PermitsExact /\ Cardinality({t \in Tasks : Holding(t)}) <= Limit
    OBVIOUS
  <2>1. IsFiniteSet(Holders) /\ permits \in Nat /\ PermitsExact
    BY DEF HttpBmcInv, PermitInv
  <2>2. Cardinality(Holders) \in Nat
    BY <2>1, FS_CardinalityType
  <2>3. QED
    BY <2>1, <2>2, HttpBmcAssumption DEF PermitsExact, Holders
<1>2. QED
  BY <1>1, HttpBmcInvariance, PTL
=============================================================================
