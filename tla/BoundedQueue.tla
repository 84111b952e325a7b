---------------------------- MODULE BoundedQueue ----------------------------
(***************************************************************************)
(* The externally fed leaf queue of the dispatcher                         *)
(* (dispatcher/src/schedulers/bounded_queue.rs), its cloneable producer    *)
(* handles and the FIFO discipline (queue_fifo.rs).                        *)
(*                                                                         *)
(* Every method body that holds the queue mutex is one action; what the    *)
(* code does after it dropped the guard (pushing an event into the sink,   *)
(* closing after the last producer handle was dropped) is a later action   *)
(* of the same thread, so that other threads may run in between.  Threads  *)
(* are the producers and the one scheduler thread that owns the leaf.      *)
(*                                                                         *)
(* The u64 counters keep their width: ids wrap modulo IdSpan (2^64 in the  *)
(* code), admission orders are rebased when next_order reaches OrderMax    *)
(* (u64::MAX), statistics saturate at CounterMax (u64::MAX).               *)
(***************************************************************************)
EXTENDS Integers, FiniteSets, SequencesExt

CONSTANTS
  Producers,      \* producer handles that may exist at some time
  Works,          \* work items; one may be offered again once it left
  Runtimes,       \* runtimes the leaf may be attached to
  Capacity,       \* hard capacity, a NonZeroUsize
  IdSpan,         \* number of entry ids
  OrderMax,       \* largest admission order number
  CounterMax,     \* value at which the statistics saturate
  MaxQueueIds,    \* bound on the queue ids one runtime hands out
  Malformed,      \* TRUE: the discipline is a custom one that misbehaves
  MaxDiscipline,  \* bound on the ids a misbehaving discipline holds
  NoRuntime       \* "no sink registered yet"

ASSUME QueueAssumption ==
  /\ Capacity \in Nat \ {0}
  /\ IdSpan \in Nat /\ Capacity < IdSpan
  /\ OrderMax \in Nat /\ Capacity <= OrderMax
  /\ CounterMax \in Nat
  /\ MaxQueueIds \in Nat
  /\ MaxDiscipline \in Nat
  /\ Malformed \in BOOLEAN
  /\ NoRuntime \notin Runtimes
  /\ "scheduler" \notin Producers

VARIABLES
  entries,             \* QueueState.entries: live id -> [order, work]
  discipline,          \* Fifo.entries: the ids in dequeue order
  lifecycle,           \* QueueState.lifecycle
  in_flight,           \* QueueState.in_flight
  rejections,          \* QueueState.rejections
  evictions,           \* QueueState.evictions
  next_id,             \* QueueState.next_id
  next_order,          \* QueueState.next_order
  event_sink,          \* runtime of QueueState.event_sink, or NoRuntime
  queue_id,            \* QueueState.queue_id
  drained_event_sent,  \* QueueState.drained_event_sent
  producer_count,      \* QueueShared.producer_count
  handles,             \* the producer handles that exist
  running,             \* dispatched work whose completion has not come back
  pending,             \* per thread: what it still does after the unlock
  delivered,           \* Drained events pushed: <<runtime, queue id>>
  next_queue_id        \* per runtime: RuntimeSignals.next_queue_id

queueState == <<entries, discipline, lifecycle, in_flight, rejections, evictions,
                next_id, next_order, event_sink, queue_id, drained_event_sent>>
vars == <<queueState, producer_count, handles, running, pending, delivered,
          next_queue_id>>

EntryIds == 0 .. IdSpan - 1
Threads == Producers \cup {"scheduler"}

\* What a thread does after it dropped the guard.
Nothing == [kind |-> "None", sink |-> NoRuntime, id |-> 0]
WakeUp(r) == [kind |-> "WakeUp", sink |-> r, id |-> 0]
Drained(r, q) == [kind |-> "Drained", sink |-> r, id |-> q]
CloseAfterDrop == [kind |-> "Close", sink |-> NoRuntime, id |-> 0]

Idle(t) == pending[t] = Nothing
Live == DOMAIN entries
Queued == {entries[i].work : i \in Live}

SaturatingInc(n) == IF n < CounterMax THEN n + 1 ELSE n

Init ==
  /\ entries = <<>>
  /\ discipline = <<>>
  /\ lifecycle = "Open"
  /\ in_flight = 0
  /\ rejections = 0
  /\ evictions = 0
  /\ next_id = 0
  /\ next_order = 0
  /\ event_sink = NoRuntime
  /\ queue_id = 0
  /\ drained_event_sent = FALSE
  /\ \E p \in Producers : handles = {p}
  /\ producer_count = 1
  /\ running = {}
  /\ pending = [t \in Threads |-> Nothing]
  /\ delivered = {}
  /\ next_queue_id = [r \in Runtimes |-> 1]
-----------------------------------------------------------------------------
(***************************************************************************)
(* Admission.                                                              *)
(***************************************************************************)

\* next_entry_id: the first id from next_id on, wrapping, that is not live.
IsNextEntryId(ents, id) ==
  /\ id \notin DOMAIN ents
  /\ \A j \in EntryIds :
       (j - next_id) % IdSpan < (id - next_id) % IdSpan => j \in DOMAIN ents

\* Mutant: the range restarts but the live entries keep their numbers.
NotRebased(ents) == ents

\* rebase_admitted_order: live entries are renumbered from 0, in order.
Rebased(ents) ==
  [i \in DOMAIN ents |->
     [ents[i] EXCEPT !.order =
        Cardinality({j \in DOMAIN ents : ents[j].order < ents[i].order})]]

\* Fifo::push.
FifoPush(disc, id) == Append(disc, id)

\* insert_work into the entries and the discipline left by an eviction:
\* allocate an id, then an order (rebasing first at the end of the range).
InsertWork(ents, disc, w) ==
  LET full  == next_order = OrderMax
      base  == IF full THEN Rebased(ents) ELSE ents
      order == IF full THEN Cardinality(DOMAIN ents) ELSE next_order
  IN  \E id \in EntryIds :
        /\ IsNextEntryId(ents, id)
        /\ next_id' = (id + 1) % IdSpan
        /\ next_order' = order + 1
        /\ discipline' = FifoPush(disc, id)
        /\ entries' = [i \in DOMAIN ents \cup {id} |->
                         IF i = id THEN [order |-> order, work |-> w]
                                   ELSE base[i]]

\* evict_entry followed by the removal from the canonical entries.
Remaining(id) == [i \in Live \ {id} |-> entries[i]]

\* try_push wakes the runtime only when it made an empty queue non-empty.
WakeIfFirst(p) ==
  pending' = IF entries = <<>> /\ event_sink # NoRuntime
             THEN [pending EXCEPT ![p] = WakeUp(event_sink)]
             ELSE pending

\* The preconditions of try_push on an open queue: w is the caller's.
MayPush(p, w) ==
  /\ p \in handles /\ Idle(p)
  /\ w \notin Queued \cup running
  /\ lifecycle = "Open"

\* apply_admission admits only below the hard capacity.
HasRoom == Cardinality(Live) < Capacity

PushAdmit(p, w) ==
  /\ MayPush(p, w)
  /\ HasRoom
  /\ InsertWork(entries, discipline, w)
  /\ WakeIfFirst(p)
  /\ UNCHANGED <<lifecycle, in_flight, rejections, evictions, event_sink,
                 queue_id, drained_event_sent, producer_count, handles,
                 running, delivered, next_queue_id>>

\* The policy names a victim the discipline also knows.
PushEvict(p, w, id) ==
  /\ MayPush(p, w)
  /\ id \in Live /\ Contains(discipline, id)
  /\ evictions' = SaturatingInc(evictions)
  /\ InsertWork(Remaining(id), RemoveFirst(discipline, id), w)
  /\ UNCHANGED <<lifecycle, in_flight, rejections, event_sink, queue_id,
                 drained_event_sent, producer_count, handles, running,
                 pending, delivered, next_queue_id>>

\* The policy rejects, or admits into a full queue, or names a victim that
\* is not queued or that the discipline does not know.
PushReject(p, w) ==
  /\ MayPush(p, w)
  /\ rejections' = SaturatingInc(rejections)
  /\ UNCHANGED <<entries, discipline, lifecycle, in_flight, evictions,
                 next_id, next_order, event_sink, queue_id,
                 drained_event_sent, producer_count, handles, running,
                 pending, delivered, next_queue_id>>
-----------------------------------------------------------------------------
(***************************************************************************)
(* Producer handles and closing.                                           *)
(***************************************************************************)

CloneProducer(p, q) ==
  /\ p \in handles
  /\ q \in Producers \ handles /\ Idle(q)
  /\ handles' = handles \cup {q}
  /\ producer_count' = producer_count + 1
  /\ UNCHANGED <<queueState, running, pending, delivered, next_queue_id>>

\* fetch_sub returned 1: this was the last handle.
IsLast == producer_count = 1

\* Drop: the atomic decrement; the close follows in a later step.
DropProducer(p) ==
  /\ p \in handles /\ Idle(p)
  /\ handles' = handles \ {p}
  /\ producer_count' = producer_count - 1
  /\ pending' = IF IsLast
                THEN [pending EXCEPT ![p] = CloseAfterDrop]
                ELSE pending
  /\ UNCHANGED <<queueState, running, delivered, next_queue_id>>

\* Mutant: the flag is not set when the event is taken.
TakeDrainedEventAgain(t, life, sink, qid, sent) ==
  LET take == life = "Drained" /\ ~sent /\ sink # NoRuntime
  IN  /\ drained_event_sent' = sent
      /\ pending' = [pending EXCEPT
                       ![t] = IF take THEN Drained(sink, qid) ELSE Nothing]

\* take_drained_event on the values the caller just gave the lifecycle, the
\* sink, the queue id and the sent flag; the event is emitted after unlock.
TakeDrainedEvent(t, life, sink, qid, sent) ==
  LET take == life = "Drained" /\ ~sent /\ sink # NoRuntime
  IN  /\ drained_event_sent' = (sent \/ take)
      /\ pending' = [pending EXCEPT
                       ![t] = IF take THEN Drained(sink, qid) ELSE Nothing]

\* Mutant: work in flight is forgotten.
ClosedTooEarly == IF Live = {} THEN "Drained" ELSE "Draining"

\* An idle empty queue is drained as soon as it is closed.
ClosedLifecycle ==
  IF Live = {} /\ in_flight = 0 THEN "Drained" ELSE "Draining"

\* close_shared is idempotent.
CloseShared(t) ==
  /\ lifecycle' = IF lifecycle = "Open" THEN ClosedLifecycle ELSE lifecycle
  /\ TakeDrainedEvent(t, lifecycle', event_sink, queue_id, drained_event_sent)
  /\ UNCHANGED <<event_sink, queue_id>>
  /\ UNCHANGED <<entries, discipline, in_flight, rejections, evictions,
                 next_id, next_order, producer_count, handles, running,
                 delivered, next_queue_id>>

Close(p) == p \in handles /\ Idle(p) /\ CloseShared(p)

CloseLastDropped(p) == pending[p] = CloseAfterDrop /\ CloseShared(p)
-----------------------------------------------------------------------------
(***************************************************************************)
(* The scheduler side: Scheduler::take_next, on_complete and               *)
(* register_queue_event_sink.                                              *)
(***************************************************************************)

\* Mutant: no fallback.
NoFallback(id) == FALSE

\* The oldest live entry, by admission order: take_next's fallback.
IsOldest(id) ==
  id \in Live /\ \A j \in Live : entries[id].order <= entries[j].order

TakeEntry(id) ==
  /\ entries' = Remaining(id)
  /\ in_flight' = in_flight + 1
  /\ running' = running \cup {entries[id].work}

\* take_next asks the discipline at most depth + 1 times.
Attempts == Cardinality(Live) + 1
Answers == {k \in DOMAIN discipline : k <= Attempts /\ discipline[k] \in Live}

TakeNext ==
  /\ Idle("scheduler")
  /\ \/ \E k \in Answers :        \* the first answer that is still live
          /\ \A m \in Answers : k <= m
          /\ discipline' = SubSeq(discipline, k + 1, Len(discipline))
          /\ TakeEntry(discipline[k])
     \/ /\ Answers = {}           \* none: fall back to the oldest entry
        /\ \E id \in Live :
             /\ IsOldest(id)
             /\ discipline' =
                  RemoveFirst(SubSeq(discipline, Attempts + 1, Len(discipline)), id)
             /\ TakeEntry(id)
     \/ /\ Live = {} /\ discipline # <<>>   \* None, one stale id consumed
        /\ discipline' = Tail(discipline)
        /\ UNCHANGED <<entries, in_flight, running>>
  /\ UNCHANGED <<lifecycle, rejections, evictions, next_id, next_order,
                 event_sink, queue_id, drained_event_sent, producer_count,
                 handles, pending, delivered, next_queue_id>>

OnComplete(w) ==
  /\ Idle("scheduler")
  /\ w \in running
  /\ running' = running \ {w}
  /\ in_flight' = IF in_flight > 0 THEN in_flight - 1 ELSE 0
  /\ lifecycle' = IF lifecycle = "Draining" /\ Live = {} /\ in_flight' = 0
                  THEN "Drained" ELSE lifecycle
  /\ TakeDrainedEvent("scheduler", lifecycle', event_sink, queue_id,
                      drained_event_sent)
  /\ UNCHANGED <<event_sink, queue_id>>
  /\ UNCHANGED <<entries, discipline, rejections, evictions, next_id,
                 next_order, producer_count, handles, delivered,
                 next_queue_id>>

\* A sink of another runtime starts with no event sent.
SentTo(r) == r = event_sink /\ drained_event_sent

\* The runtime registers its sink when the leaf is attached and repeats it
\* after every mutation of the root.  Only a leaf that is new, or was handed
\* back with nothing in flight, can meet the sink of another runtime.
RegisterQueueEventSink(r) ==
  /\ Idle("scheduler")
  /\ r # event_sink => running = {}
  /\ event_sink' = r
  /\ IF r # event_sink
     THEN /\ next_queue_id[r] <= MaxQueueIds
          /\ queue_id' = next_queue_id[r]
          /\ next_queue_id' = [next_queue_id EXCEPT ![r] = @ + 1]
     ELSE UNCHANGED <<queue_id, next_queue_id>>
  /\ UNCHANGED lifecycle
  /\ TakeDrainedEvent("scheduler", lifecycle, r, queue_id', SentTo(r))
  /\ UNCHANGED <<entries, discipline, in_flight, rejections, evictions,
                 next_id, next_order, producer_count, handles, running,
                 delivered>>

\* emit, and the wake-up of try_push: the sink is called without the mutex.
Emit(t) ==
  /\ pending[t].kind \in {"WakeUp", "Drained"}
  /\ delivered' = IF pending[t].kind = "Drained"
                  THEN delivered \cup {<<pending[t].sink, pending[t].id>>}
                  ELSE delivered
  /\ pending' = [pending EXCEPT ![t] = Nothing]
  /\ UNCHANGED <<queueState, producer_count, handles, running, next_queue_id>>

\* A custom discipline that breaks its contract: it forgets an id, or will
\* answer with an id that is stale or that it answered before.
DisciplineFault ==
  /\ Malformed
  /\ \/ \E i \in DOMAIN discipline : discipline' = RemoveAt(discipline, i)
     \/ \E id \in EntryIds :
          /\ Len(discipline) < MaxDiscipline
          /\ discipline' = Append(discipline, id)
  /\ UNCHANGED <<entries, lifecycle, in_flight, rejections, evictions,
                 next_id, next_order, event_sink, queue_id,
                 drained_event_sent, producer_count, handles, running,
                 pending, delivered, next_queue_id>>
-----------------------------------------------------------------------------
ProducerStep(p) ==
  \/ \E w \in Works :
       \/ PushAdmit(p, w)
       \/ PushReject(p, w)
       \/ \E id \in EntryIds : PushEvict(p, w, id)
  \/ \E q \in Producers : CloneProducer(p, q)
  \/ DropProducer(p)
  \/ Close(p)
  \/ CloseLastDropped(p)

SchedulerStep ==
  \/ TakeNext
  \/ \E w \in Works : OnComplete(w)
  \/ \E r \in Runtimes : RegisterQueueEventSink(r)

Next ==
  \/ \E p \in Producers : ProducerStep(p)
  \/ SchedulerStep
  \/ \E t \in Threads : Emit(t)
  \/ DisciplineFault

Spec == Init /\ [][Next]_vars

\* The driver keeps polling and payloads finish, so the scheduler keeps
\* taking and completing work; a thread that unlocked runs on to its emit.
QueueFairness ==
  /\ WF_vars(TakeNext)
  /\ \A w \in Works : WF_vars(OnComplete(w))
  /\ \A t \in Threads : WF_vars(Emit(t))
  /\ \A p \in Producers : WF_vars(CloseLastDropped(p))
-----------------------------------------------------------------------------
(***************************************************************************)
(* Properties.                                                             *)
(***************************************************************************)

\* Types of every variable; ids and orders stay in their ranges.
TypeOK ==
  /\ Live \subseteq EntryIds
  /\ entries \in [Live -> [order : 0 .. OrderMax - 1, work : Works]]
  /\ discipline \in Seq(EntryIds)
  /\ lifecycle \in {"Open", "Draining", "Drained"}
  /\ in_flight \in Nat
  /\ rejections \in 0 .. CounterMax
  /\ evictions \in 0 .. CounterMax
  /\ next_id \in EntryIds
  /\ next_order \in 0 .. OrderMax
  /\ event_sink \in Runtimes \cup {NoRuntime}
  /\ queue_id \in 0 .. MaxQueueIds
  /\ drained_event_sent \in BOOLEAN
  /\ producer_count \in Nat
  /\ handles \subseteq Producers
  /\ running \subseteq Works
  /\ pending \in [Threads ->
       [kind : {"None", "WakeUp", "Drained", "Close"},
        sink : Runtimes \cup {NoRuntime}, id : 0 .. MaxQueueIds]]
  /\ delivered \subseteq (Runtimes \X (1 .. MaxQueueIds))
  /\ next_queue_id \in [Runtimes -> 1 .. MaxQueueIds + 1]

\* The in_flight counter, saturating in the code so that a mistake would go
\* unnoticed, is the number of dispatched items that have not completed.
InFlightExact == in_flight = Cardinality(running)

\* A closed queue is Drained exactly when nothing is queued and nothing is
\* in flight: neither reported early, nor left Draining for ever.
LifecycleExact ==
  lifecycle # "Open" => (lifecycle = "Drained" <=> Live = {} /\ running = {})

\* The queue's accounts are exact at every moment of every race: ids and
\* orders in their ranges over wraps and rebases, in_flight the number of
\* items really out, and Drained neither early nor late (insert_work,
\* take_entry, on_complete, close_shared).
CountsExact == TypeOK /\ InFlightExact /\ LifecycleExact

\* The Drained event of one attachment is emitted at most once, whoever of
\* close, the last drop, on_complete and the registration comes first.
DrainedAtMostOnce ==
  \A t \in Threads : pending[t].kind = "Drained" =>
    /\ <<pending[t].sink, pending[t].id>> \notin delivered
    /\ \A u \in Threads : pending[u] = pending[t] => u = t

\* A drained queue that is attached has told its present runtime so, or a
\* thread is about to: the event is never lost between close and attach.
DrainedReported ==
  lifecycle = "Drained" /\ event_sink # NoRuntime =>
    \/ <<event_sink, queue_id>> \in delivered
    \/ \E t \in Threads : pending[t] = Drained(event_sink, queue_id)

\* Every attachment of a drained queue hears of it exactly once, whoever of
\* close, the last drop, on_complete and the registration comes first, and
\* although the event is sent after the mutex was released
\* (take_drained_event, register_queue_event_sink).
DrainedExactlyOnce == DrainedAtMostOnce /\ DrainedReported

\* The pairs of queued works in admission order.
AdmittedBefore ==
  LET ordered == {p \in Live \X Live : entries[p[1]].order < entries[p[2]].order}
  IN  {<<entries[p[1]].work, entries[p[2]].work>> : p \in ordered}

Contract == INSTANCE QueueContract WITH
  queued  <- Queued,
  before  <- AdmittedBefore,
  Ordered <- ~Malformed

\* The queue implements the abstract contract: admission order is the order
\* of the rebased numbers, dispatch takes the oldest, eviction the victim.
ImplementsContract == Contract!Spec

\* A queue that is attached and closed, by a producer or by the drop of the
\* last handle, eventually reports Drained to its runtime.
CloseEventuallyReported ==
  \A r \in Runtimes :
    ((lifecycle # "Open" \/ handles = {}) /\ event_sink = r) ~>
      (event_sink # r \/ <<event_sink, queue_id>> \in delivered)
=============================================================================
