------------------------------ MODULE Runtime ------------------------------
(***************************************************************************)
(* The dispatcher runtime (dispatcher/src/runtime.rs): one driver that     *)
(* polls Runtime::next, producers that feed a queue leaf, a handle that    *)
(* shuts the runtime down or changes its root, payload futures, and time.  *)
(*                                                                         *)
(* The root is a RoundRobin over one bounded queue, taken at the level of  *)
(* its contract (QueueContract, which BoundedQueue implements), and at     *)
(* most one PeriodicLeaf, whose next_due is the only scheduler deadline.   *)
(*                                                                         *)
(* One action is one critical section of the code: the queue mutex, the    *)
(* shared root mutex, the signal mutex.  A producer or handle wakes the    *)
(* driver in a step after the one that changed the queue or the root.  The *)
(* driver's poll is a loop of steps, named by pc, between which the other  *)
(* threads, the payloads and the clock run; while pc is "ready" or "take"  *)
(* the driver holds the shared root mutex.                                 *)
(***************************************************************************)
EXTENDS Integers, FiniteSets, SequencesExt

CONSTANTS
  Works,          \* work offered to the queue
  Ticks,          \* names for items of the periodic leaf
  Capacity,       \* capacity of the queue
  Producers,      \* producer threads
  MaxInFlight,    \* RuntimeConfig.global_max_in_flight
  Interval,       \* interval of the periodic leaf
  MaxTime,        \* horizon of the clock
  RuntimeEvents   \* the runtime-events feature

ASSUME RuntimeAssumption ==
  /\ Works \cap Ticks = {}
  /\ MaxInFlight \in Nat \ {0}
  /\ Cardinality(Ticks) >= MaxInFlight
  /\ Interval \in Nat \ {0}
  /\ MaxTime \in Nat
  /\ RuntimeEvents \in BOOLEAN
  /\ "handle" \notin Producers

VARIABLES
  \* the queue leaf (QueueContract) and the periodic leaf
  queued, before, running, lifecycle,
  due,          \* PeriodicLeaf.next_due, or Never (no leaf, or never again)
  front,        \* the child at the front of the root's rotation
  \* shared state
  shutdown,     \* Shared.shutdown
  waker,        \* a waker is registered in RuntimeSignals
  events,       \* number of QueueDrained events not collected yet
  signal,       \* per thread: the wake-up it still has to deliver
  \* the driver
  pc,           \* where the poll is; "idle" between calls, "parked" if Pending
  now,          \* the clock as read in this iteration
  stopping,     \* the poll's local copy of the shutdown flag
  sleep_hint,   \* Runtime.sleep_hint
  in_flight,    \* payloads in Runtime.in_flight
  completion,   \* completions not forwarded to the root yet
  output,       \* Runtime.output
  ret,          \* what the last finished poll returned, until it is used
  timer,        \* the deadline the driver retains, or Never
  \* the world
  woken,        \* the driver's task has been notified
  polled,       \* payloads that were polled and hold the task's waker
  finished,     \* payloads that are ready to return
  time

queueVars == <<queued, before, running, lifecycle>>
rootVars == <<queueVars, due, front>>
signalVars == <<waker, events, woken>>
driverVars == <<pc, now, stopping, sleep_hint, in_flight,
                completion, output, ret, timer>>
payloadVars == <<polled, finished>>
vars == <<rootVars, shutdown, signalVars, signal, driverVars, payloadVars, time>>

Queue == INSTANCE QueueContract WITH Ordered <- TRUE

Never == MaxTime + 1
Threads == Producers \cup {"handle"}
NoHint == [kind |-> "None", at |-> Never]
Observed(d) == [kind |-> "Observed", at |-> d]
Emitted(d) == [kind |-> "Emitted", at |-> d]
Output(k, w) == [kind |-> k, work |-> w]
None == Output("None", "none")

\* The root mutex is held by the driver across these steps.
Locked == pc \in {"ready", "take"}

Init ==
  /\ Queue!Init
  /\ due = Never /\ front = "queue"
  /\ shutdown = FALSE
  /\ waker = FALSE /\ events = 0 /\ woken = FALSE
  /\ signal = [t \in Threads |-> "None"]
  /\ pc = "idle" /\ now = 0 /\ stopping = FALSE
  /\ sleep_hint = NoHint
  /\ in_flight = {} /\ completion = {}
  /\ output = <<>> /\ ret = None /\ timer = Never
  /\ polled = {} /\ finished = {}
  /\ time = 0
-----------------------------------------------------------------------------
(***************************************************************************)
(* Signals.                                                                *)
(***************************************************************************)

\* Mutant: a task that is just running is not notified.
WakeIfParked == /\ waker' = FALSE
                /\ woken' = (woken \/ (waker /\ pc = "parked"))

\* RuntimeSignals::wake and the end of handle_queue_event: the registered
\* waker is taken and notifies the driver's task.
Wake == /\ waker' = FALSE
        /\ woken' = (woken \/ waker)

\* handle_queue_event: a Drained event is kept for the driver (only with
\* the runtime-events feature), and any event wakes.
HandleQueueEvent(drained) ==
  /\ events' = IF drained /\ RuntimeEvents THEN events + 1 ELSE events
  /\ Wake

\* The thread delivers the signal it owes, without holding another lock.
Deliver(t) ==
  /\ signal[t] # "None"
  /\ HandleQueueEvent(signal[t] = "Drained")
  /\ signal' = [signal EXCEPT ![t] = "None"]
  /\ UNCHANGED <<rootVars, shutdown, driverVars, payloadVars, time>>
-----------------------------------------------------------------------------
(***************************************************************************)
(* Producers and the handle.                                               *)
(***************************************************************************)
UnsignalledVars == <<due, front, shutdown, signalVars, driverVars, payloadVars, time>>

\* Work the driver has not returned yet is not offered again.
Fresh(w) == \A i \in DOMAIN output : output[i].work # w

\* try_push: only the push that makes the queue non-empty signals.
Push(p, w) ==
  /\ signal[p] = "None"
  /\ Fresh(w)
  /\ Queue!Admit(w)
  /\ signal' = [signal EXCEPT ![p] = IF queued = {} THEN "WakeUp" ELSE @]
  /\ UNCHANGED UnsignalledVars

PushEvicting(p, v, w) ==
  /\ signal[p] = "None"
  /\ Fresh(w)
  /\ Queue!Replace(v, w)
  /\ UNCHANGED signal
  /\ UNCHANGED UnsignalledVars

CloseQueue(p) ==
  /\ signal[p] = "None"
  /\ Queue!Close
  /\ signal' = [signal EXCEPT ![p] = IF lifecycle' = "Drained" THEN "Drained" ELSE @]
  /\ UNCHANGED UnsignalledVars

\* graceful_shutdown: the flag under the root mutex, then the wake-up.
GracefulShutdown ==
  /\ signal["handle"] = "None" /\ ~Locked
  /\ shutdown' = TRUE
  /\ signal' = [signal EXCEPT !["handle"] = "WakeUp"]
  /\ UNCHANGED <<rootVars, signalVars, driverVars, payloadVars, time>>

\* with_root_mut: the periodic leaf is removed (Never), or a new one, due now
\* or later, is attached in its place at the back of the rotation.
WithRootMut(d) ==
  /\ signal["handle"] = "None" /\ ~Locked
  /\ d # due
  /\ due' = d
  /\ front' = "queue"
  /\ signal' = [signal EXCEPT !["handle"] = "WakeUp"]
  /\ UNCHANGED <<queueVars, shutdown, signalVars, driverVars, payloadVars, time>>
-----------------------------------------------------------------------------
(***************************************************************************)
(* The driver.                                                             *)
(***************************************************************************)
Goto(l) == pc' = l
Return(o) == pc' = "idle" /\ ret' = o

\* now and stopping are locals of an iteration: no value survives it.
ForgetLocals == now' = 0 /\ stopping' = FALSE

\* The driver's task has used the output and calls next again; it only
\* remembers having seen Shutdown.
Call ==
  /\ pc = "idle" /\ Goto("poll")
  /\ ret' = IF ret.kind = "Shutdown" THEN ret ELSE None
  /\ UNCHANGED <<rootVars, shutdown, signalVars, signal, payloadVars, time, now,
                 stopping, sleep_hint, in_flight, completion, output, timer>>

\* A parked task runs when it was notified or its retained deadline passed.
Resume ==
  /\ pc = "parked" /\ Goto("poll")
  /\ woken \/ time >= timer
  /\ woken' = FALSE
  /\ timer' = IF time >= timer THEN Never ELSE timer
  /\ UNCHANGED <<rootVars, shutdown, waker, events, signal, payloadVars, time,
                 now, stopping, sleep_hint, in_flight, completion,
                 output, ret>>

\* Polling a parked runtime without being woken is always allowed.
PollEarly ==
  /\ pc = "parked" /\ Goto("poll")
  /\ UNCHANGED <<rootVars, shutdown, signalVars, signal, payloadVars, time, now,
                 stopping, sleep_hint, in_flight, completion,
                 output, ret, timer>>

\* poll begins by registering the waker.
RegisterWaker ==
  /\ pc = "poll" /\ Goto("forward")
  /\ waker' = TRUE
  /\ UNCHANGED <<rootVars, shutdown, events, woken, signal, payloadVars, time,
                 now, stopping, sleep_hint, in_flight, completion,
                 output, ret, timer>>

\* All pending completions go to the root.  The one that drains a closed
\* queue makes the queue signal its own runtime from inside the call.
ForwardCompletions ==
  /\ pc = "forward" /\ Goto("output")
  /\ completion' = {}
  /\ running' = running \ completion
  /\ lifecycle' = IF lifecycle = "Draining" /\ queued = {} /\ running' = {}
                  THEN "Drained" ELSE lifecycle
  /\ IF lifecycle' # lifecycle THEN HandleQueueEvent(TRUE) ELSE UNCHANGED signalVars
  /\ UNCHANGED <<queued, before, due, front, shutdown, signal, payloadVars, time, now,
                 stopping, sleep_hint, in_flight, output, ret, timer>>

\* Events are collected behind the queued outputs and one output returned;
\* without any, the iteration reads the clock and drops a reached deadline.
PopOutput ==
  LET out == output \o [i \in 1 .. events |-> Output("QueueDrained", "none")]
  IN  /\ pc = "output"
      /\ events' = 0
      /\ IF out # <<>>
         THEN /\ Return(Head(out))
              /\ output' = Tail(out)
              /\ UNCHANGED <<now, sleep_hint>>
         ELSE /\ Goto("scan")
              /\ now' = time
              /\ sleep_hint' = IF time < sleep_hint.at THEN sleep_hint ELSE NoHint
              /\ UNCHANGED <<output, ret>>
      /\ UNCHANGED <<rootVars, shutdown, waker, woken, signal, payloadVars,
                     time, stopping, in_flight, completion, timer>>

\* A scan that found the shutdown flag drops the retained deadline.
HintUnless(stop) == IF stop THEN NoHint ELSE sleep_hint

\* Below the cap the root is locked and the shutdown flag read.
LockRoot ==
  /\ pc = "scan"
  /\ LET below == Cardinality(in_flight) < MaxInFlight
     IN  /\ stopping' = (below /\ shutdown)
         /\ Goto(IF below /\ ~shutdown THEN "ready" ELSE "drain")
         /\ sleep_hint' = HintUnless(stopping')
  /\ UNCHANGED <<rootVars, shutdown, signalVars, signal, payloadVars, time, now, in_flight, completion, output, ret, timer>>

\* Mutant: an earlier deadline does not replace the retained one.
NoWorkFirst(next) ==
  sleep_hint' = IF next = Never THEN NoHint
                ELSE IF sleep_hint.kind = "None" THEN Observed(next)
                ELSE sleep_hint

\* What the scan makes of a root that has no work: a deadline only replaces
\* a later one, and no deadline drops the retained one.
NoWork(next) ==
  sleep_hint' = IF next = Never THEN NoHint
                ELSE IF sleep_hint.kind = "None" \/ sleep_hint.at > next
                THEN Observed(next) ELSE sleep_hint

\* Shared::next, first half: update_ready of both leaves.
UpdateReady ==
  /\ pc = "ready"
  /\ IF queued # {} \/ due <= now
     THEN Goto("take") /\ UNCHANGED sleep_hint
     ELSE Goto("drain") /\ NoWork(due)
  /\ UNCHANGED <<rootVars, shutdown, signalVars, signal, payloadVars, time, now,
                 stopping, in_flight, completion, output, ret, timer>>

\* Dispatch of one item: the scan goes on until the cap is reached.
Started(w) ==
  /\ in_flight' = in_flight \cup {w}
  /\ Goto(IF Cardinality(in_flight') < MaxInFlight THEN "ready" ELSE "drain")

\* PeriodicLeaf::take_next: the next tick is counted from the dispatch.  The
\* rotation turns when its front is served; when the front has no work both
\* children are asked and pushed back, which leaves it as it was.
TakeTick ==
  /\ due <= now
  /\ front = "leaf" \/ queued = {}
  /\ front' = "queue"
  /\ due' = IF now + Interval <= MaxTime THEN now + Interval ELSE Never
  /\ \E w \in Ticks \ in_flight : Started(w)
  /\ UNCHANGED queueVars

TakeQueued ==
  /\ front = "queue" \/ due > now
  /\ front' = IF due = Never THEN front ELSE "leaf"
  /\ \E w \in queued : Queue!Dispatch(w) /\ Started(w)
  /\ UNCHANGED due

\* Shared::next, second half: take_next.  A leaf that was ready still has
\* its work: only the scheduler, which is locked, takes work away.
TakeNext ==
  /\ pc = "take"
  /\ TakeTick \/ TakeQueued
  /\ UNCHANGED <<shutdown, signalVars, signal, payloadVars, time, now, stopping, sleep_hint, completion, output, ret, timer>>

\* drain_completed polls every payload until none is ready: all that remain
\* hold the task's waker.
PolledPayloads(left) == left
Without(done) == in_flight \ done

\* Mutant: Shutdown without waiting for the work in flight.
IsOverEarly == stopping /\ output' = <<>>

\* The conditions of the terminal output.
IsOver == stopping /\ in_flight' = {} /\ output' = <<>> /\ completion' = {}

\* Mutant: Pending although something completed.
AlwaysPark(progress) == "parked"

\* After progress the poll starts over, and forwards the completions.
Continue(progress) == IF progress THEN "forward" ELSE "parked"

\* drain_completed polls the payloads, and the end of the iteration decides:
\* the terminal output, a new deadline, another round, or Pending.
DrainCompleted ==
  LET done     == finished \cap in_flight
      progress == done # {}
  IN  /\ pc = "drain"
      /\ in_flight' = Without(done)
      /\ completion' = completion \cup done
      /\ \E s \in SetToSeqs(done) :
           output' = output \o [i \in DOMAIN s |-> Output("Work", s[i])]
      /\ finished' = finished \ done
      /\ polled' = PolledPayloads(in_flight')
      /\ IF IsOver
         THEN Return(Output("Shutdown", "none")) /\ UNCHANGED <<sleep_hint, timer>>
         ELSE IF output' = <<>> /\ sleep_hint.kind = "Observed"
         THEN /\ Return(Output("SleepUntil", "none"))
              /\ sleep_hint' = Emitted(sleep_hint.at)
              /\ timer' = sleep_hint.at
         ELSE /\ Goto(Continue(progress))
              /\ UNCHANGED <<ret, sleep_hint, timer>>
      /\ ForgetLocals
      /\ UNCHANGED <<rootVars, shutdown, signalVars, signal, time>>
-----------------------------------------------------------------------------
(***************************************************************************)
(* The world: a payload becomes ready and, when it was polled before,      *)
(* notifies the task that polled it; time passes.                          *)
(***************************************************************************)
Finish(w) ==
  /\ w \in in_flight \ finished
  /\ finished' = finished \cup {w}
  /\ woken' = (woken \/ w \in polled)
  /\ UNCHANGED <<rootVars, shutdown, waker, events, signal, driverVars, polled, time>>

Tick ==
  /\ time < MaxTime
  /\ time' = time + 1
  /\ UNCHANGED <<rootVars, shutdown, signalVars, signal, driverVars, payloadVars>>

DriverStep ==
  \/ Resume
  \/ RegisterWaker
  \/ ForwardCompletions
  \/ PopOutput
  \/ LockRoot
  \/ UpdateReady
  \/ TakeNext
  \/ DrainCompleted

Next ==
  \/ \E p \in Producers :
       \/ \E w \in Works : Push(p, w)
       \/ \E v, w \in Works : PushEvicting(p, v, w)
       \/ CloseQueue(p)
  \/ GracefulShutdown
  \/ \E d \in time .. Never : WithRootMut(d)
  \/ \E t \in Threads : Deliver(t)
  \/ Call
  \/ PollEarly
  \/ DriverStep
  \/ \E w \in Works \cup Ticks : Finish(w)
  \/ Tick

Spec == Init /\ [][Next]_vars

\* The driver loops on next until Shutdown, the executor runs a notified
\* task, every thread goes on to deliver its signal, payloads finish.
FairSpec ==
  /\ Spec
  /\ WF_vars(DriverStep)
  /\ WF_vars(ret.kind # "Shutdown" /\ Call)
  /\ \A t \in Threads : WF_vars(Deliver(t))
  /\ \A w \in Works \cup Ticks : WF_vars(Finish(w))
  /\ WF_vars(Tick)
-----------------------------------------------------------------------------
(***************************************************************************)
(* Properties.                                                             *)
(***************************************************************************)
Items == Works \cup Ticks
Times == 0 .. Never

\* Types of every variable; the global cap holds at every moment of a scan.
TypeOK ==
  /\ queued \subseteq Works /\ before \subseteq Works \X Works
  /\ running \subseteq Works /\ lifecycle \in {"Open", "Draining", "Drained"}
  /\ due \in Times /\ front \in {"queue", "leaf"} /\ shutdown \in BOOLEAN
  /\ waker \in BOOLEAN /\ events \in 0 .. 1 /\ woken \in BOOLEAN
  /\ signal \in [Threads -> {"None", "WakeUp", "Drained"}]
  /\ pc \in {"idle", "poll", "forward", "output", "scan", "ready", "take",
             "drain", "parked"}
  /\ now \in 0 .. MaxTime /\ time \in 0 .. MaxTime
  /\ stopping \in BOOLEAN
  /\ sleep_hint \in [kind : {"None", "Observed", "Emitted"}, at : Times]
  /\ in_flight \subseteq Items /\ completion \subseteq Items
  /\ polled \subseteq Items /\ finished \subseteq Items
  /\ output \in Seq([kind : {"Work", "QueueDrained"}, work : Items \cup {"none"}])
  /\ timer \in Times
  /\ Cardinality(in_flight) <= MaxInFlight

\* Nobody has to be told anything any more: the parked task was not
\* notified and no thread still owes it a wake-up.
Asleep == pc = "parked" /\ ~woken /\ \A t \in Threads : signal[t] = "None"

\* No lost wake-up: a driver that sleeps leaves nothing behind that it could
\* act on, whatever happened while its poll was running: no queued work it
\* may dispatch, no payload that is ready, no queue event it has not
\* collected, no shutdown it has not noticed.
NoLostWakeup ==
  Asleep =>
    /\ queued = {} \/ shutdown \/ Cardinality(in_flight) >= MaxInFlight
    /\ finished \cap in_flight = {}
    /\ events = 0
    /\ shutdown => in_flight # {}

\* No lost deadline: a sleeping driver that may dispatch has retained a
\* deadline no later than the one at which the scheduler becomes ready,
\* however deadlines were added, withdrawn or reached meanwhile.
NoLostDeadline ==
  Asleep /\ ~shutdown /\ Cardinality(in_flight) < MaxInFlight => timer <= due

\* The driver never parks blind: whatever producers, payloads, the handle and
\* the clock did in the middle of its poll, what it leaves behind when it
\* parks will be signalled or is covered by a deadline it retained
\* (NextFuture::poll, register_waker before the scan, the sleep hint).
NothingLost == TypeOK /\ NoLostWakeup /\ NoLostDeadline

\* An item has one fate: queued, in flight, or one output not yet returned.
OneFate ==
  /\ queued \cap in_flight = {}
  /\ \A i \in DOMAIN output : output[i].kind = "Work" =>
       /\ output[i].work \notin in_flight \cup queued
       /\ \A j \in DOMAIN output : output[j] = output[i] => i = j

\* Whenever the driver has control, every finished item was reported to the
\* scheduler before its result: what the queue counts as running is exactly
\* what is in flight, so a result never overtakes its completion; and no item
\* has two fates, being queued, in flight or one output not yet returned
\* (drain_completed, forward_completions).
ReportedBeforeReturned ==
  /\ pc \in {"idle", "parked"} => completion = {} /\ running = in_flight \cap Works
  /\ OneFate

\* Once the shutdown flag is set nothing is dispatched: the scan reads the
\* flag under the lock that graceful_shutdown takes to set it.
NoDispatchAfterShutdown == [][shutdown => in_flight' \subseteq in_flight]_vars

\* The terminal output comes last: nothing in flight, nothing left to return.
ShutdownIsLast ==
  [][ ret' # ret /\ ret'.kind = "Shutdown" =>
        in_flight = {} /\ output = <<>> /\ completion = {} /\ running = {} ]_vars

\* Shutdown is orderly: after it nothing is dispatched and before its
\* terminal output nothing is left (graceful_shutdown, NextFuture::poll).
ShutdownOrderly == NoDispatchAfterShutdown /\ ShutdownIsLast

\* Shutdown is sticky: later calls return nothing else.
StickyShutdown == [][ret.kind = "Shutdown" => ret'.kind = "Shutdown"]_ret

\* Every dispatched item comes out of next.
DispatchedReturned ==
  \A w \in Items : (w \in in_flight) ~> (ret = Output("Work", w))

\* Queued work does not wait for ever, unless the runtime is shut down.
QueuedLeaves == \A w \in Works : (w \in queued) ~> (w \notin queued \/ shutdown)

\* A deadline of the scheduler is acted on: the leaf is asked (or changed).
DueServed == \A d \in 0 .. MaxTime : (due = d) ~> (due # d \/ shutdown)

\* Nothing waits for ever: what is dispatched is returned, what is queued
\* leaves the queue and what is due is asked, unless the runtime is shut down
\* (NextFuture::poll, RuntimeSignals::wake, drain_completed).
WorkServed == DispatchedReturned /\ QueuedLeaves /\ DueServed

\* A requested shutdown ends in the terminal output.
ShutdownCompletes == shutdown ~> (ret.kind = "Shutdown")
=============================================================================
