---------------------------- MODULE RuntimeProofs ----------------------------
(***************************************************************************)
(* Proofs about Runtime, for every set of works, ticks and producers,      *)
(* every global cap, queue capacity, interval and horizon.                 *)
(***************************************************************************)
EXTENDS Runtime, FiniteSetTheorems, SequenceTheorems, TLAPS

-----------------------------------------------------------------------------
(* The inductive invariant.                                                 *)

Polling == {"forward", "output", "scan", "ready", "take", "drain", "parked"}
Scanned == {"scan", "ready", "take", "drain", "parked"}

Full == Cardinality(in_flight) >= MaxInFlight

\* The driver has been notified, or a thread still has to.
Told == woken \/ \E t \in Threads : signal[t] # "None"

\* The queue drains once: one thread signals it, or it waits to be collected.
DrainedOnce ==
  /\ lifecycle # "Drained" => events = 0 /\ \A t \in Threads : signal[t] # "Drained"
  /\ events = 1 => \A t \in Threads : signal[t] # "Drained"
  /\ \A t, u \in Threads : signal[t] = "Drained" /\ signal[u] = "Drained" => t = u

\* A poll has its waker registered, or somebody has used it.
Registered == pc \in Polling => waker \/ woken

\* Where an item is, and what the queue counts of it.
Placed ==
  /\ IsFiniteSet(in_flight)
  /\ pc # "forward" => completion = {}
  /\ pc \in Scanned => output = <<>>
  /\ in_flight \cap completion = {}
  /\ running = (in_flight \cup completion) \cap Works
  /\ OneFate

\* What the scan has read under the root mutex is still so.
ScanKnown ==
  /\ pc \in {"ready", "take"} => ~shutdown /\ ~Full
  /\ stopping => shutdown

\* The emitted deadline is the one the driver retains, or it has been
\* reached, which the next scan notices.
HintKept ==
  /\ sleep_hint.kind = "None" => sleep_hint.at = Never
  /\ sleep_hint.kind = "Emitted" =>
       timer = sleep_hint.at \/ (time >= sleep_hint.at /\ pc \notin Scanned)

\* What a poll that has passed a point leaves behind was told to it.
Noticed ==
  /\ pc \in {"drain", "parked"} => Told \/ queued = {} \/ shutdown \/ Full
  /\ pc = "drain" => Told \/ shutdown \/ Full \/ sleep_hint.at <= due
  /\ pc = "parked" => Told \/ shutdown \/ Full \/ timer <= due
  /\ pc \in Scanned => woken \/ events = 0
  /\ pc = "drain" /\ shutdown /\ ~stopping => Told \/ in_flight # {}
  /\ pc = "parked" /\ shutdown => Told \/ in_flight # {}
  /\ pc = "parked" => in_flight \subseteq polled /\ (woken \/ finished \cap in_flight = {})

RuntimeInv ==
  TypeOK /\ DrainedOnce /\ Registered /\ Placed /\ ScanKnown /\ HintKept /\ Noticed

LEMMA Constants ==
  /\ Works \cap Ticks = {} /\ MaxInFlight \in Nat /\ MaxInFlight > 0
  /\ Interval \in Nat /\ Interval > 0 /\ MaxTime \in Nat /\ "handle" \notin Producers
  /\ Never \in Nat /\ Never > MaxTime
  BY RuntimeAssumption DEF Never

LEMMA RuntimeInitInv == Init => RuntimeInv
<1> SUFFICES ASSUME Init PROVE RuntimeInv
  OBVIOUS
<1> USE DEF Init, Queue!Init
<1>1. Cardinality(in_flight) = 0 /\ IsFiniteSet(in_flight)
  BY FS_EmptySet
<1>2. TypeOK
  <2>1. shutdown \in BOOLEAN /\ waker \in BOOLEAN /\ woken \in BOOLEAN /\ stopping \in BOOLEAN
    OBVIOUS
  <2>2. signal \in [Threads -> {"None", "WakeUp", "Drained"}]
    OBVIOUS
  <2>3. sleep_hint \in [kind : {"None", "Observed", "Emitted"}, at : Times]
    BY Constants DEF NoHint, Times
  <2>4. /\ due \in Times /\ timer \in Times /\ now \in 0 .. MaxTime /\ time \in 0 .. MaxTime
        /\ events \in 0 .. 1 /\ Cardinality(in_flight) <= MaxInFlight
    BY <1>1, Constants DEF Times
  <2>5. QED
    BY <2>1, <2>2, <2>3, <2>4 DEF TypeOK
<1>3. DrainedOnce /\ Registered /\ ScanKnown /\ HintKept
  BY <1>1 DEF DrainedOnce, Registered, ScanKnown, HintKept, Polling, NoHint
<1>4. Placed
  BY <1>1 DEF Placed, OneFate
<1>5. Noticed
  BY DEF Noticed, Scanned
<1>6. QED
  BY <1>2, <1>3, <1>4, <1>5 DEF RuntimeInv

-----------------------------------------------------------------------------
(* Signals, producers and the handle.                                       *)

LEMMA DeliverInv ==
  ASSUME RuntimeInv, NEW t \in Threads, Deliver(t)
  PROVE  RuntimeInv'
<1>1. /\ UNCHANGED <<queued, before, running, lifecycle, due, front, shutdown, pc, now, stopping,
                     sleep_hint, in_flight, completion, output, ret, timer, polled, finished, time>>
      /\ waker' = FALSE /\ woken' = (woken \/ waker)
      /\ events' = IF signal[t] = "Drained" /\ RuntimeEvents THEN events + 1 ELSE events
      /\ signal' = [signal EXCEPT ![t] = "None"]
      /\ signal[t] # "None"
  BY DEF Deliver, HandleQueueEvent, Wake, rootVars, queueVars, driverVars, payloadVars
<1>2. TypeOK'
  <2>1. events' \in 0 .. 1
    BY <1>1 DEF RuntimeInv, TypeOK, DrainedOnce
  <2>2. QED
    BY <1>1, <2>1 DEF RuntimeInv, TypeOK
<1>3. DrainedOnce'
  BY <1>1 DEF RuntimeInv, TypeOK, DrainedOnce
<1>4. Registered' /\ (pc \in Polling => woken')
  BY <1>1 DEF RuntimeInv, Registered
<1>5. Placed' /\ ScanKnown' /\ HintKept'
  BY <1>1 DEF RuntimeInv, Placed, OneFate, ScanKnown, HintKept, Full
<1>6. Noticed'
  BY <1>1, <1>4 DEF RuntimeInv, Noticed, Told, Scanned, Polling, Full
<1>7. QED
  BY <1>2, <1>3, <1>4, <1>5, <1>6 DEF RuntimeInv

\* A step of a producer: the driver, the payloads and the clock stand still.
LEMMA PushInv ==
  ASSUME RuntimeInv, NEW p \in Producers, NEW w \in Works, Push(p, w)
  PROVE  RuntimeInv'
<1>1. /\ UNCHANGED <<running, lifecycle, due, front, shutdown, waker, events, woken, pc, now,
                     stopping, sleep_hint, in_flight, completion, output, ret, timer, polled,
                     finished, time>>
      /\ lifecycle = "Open" /\ w \notin queued \cup running
      /\ queued' = queued \cup {w} /\ before' = before \cup (queued \X {w})
      /\ signal' = [signal EXCEPT ![p] = IF queued = {} THEN "WakeUp" ELSE @]
      /\ signal[p] = "None" /\ Fresh(w)
  BY DEF Push, UnsignalledVars, Queue!Admit, signalVars, driverVars, payloadVars
<1>2. p \in Threads /\ signal \in [Threads -> {"None", "WakeUp", "Drained"}]
  BY DEF Threads, RuntimeInv, TypeOK
<1>3. /\ \A t \in Threads : signal[t] # "None" => signal'[t] = signal[t]
      /\ \A t \in Threads : signal'[t] = "Drained" => signal[t] = "Drained"
      /\ queued = {} => signal'[p] = "WakeUp"
      /\ signal' \in [Threads -> {"None", "WakeUp", "Drained"}]
  BY <1>1, <1>2
<1>4. TypeOK'
  BY <1>1, <1>3 DEF RuntimeInv, TypeOK
<1>5. DrainedOnce' /\ Registered' /\ ScanKnown' /\ HintKept'
  BY <1>1, <1>3 DEF RuntimeInv, DrainedOnce, Registered, ScanKnown, HintKept, Full
<1>6. Placed'
  <2>1. w \notin in_flight
    BY <1>1 DEF RuntimeInv, Placed
  <2>2. OneFate'
    BY <1>1, <2>1 DEF RuntimeInv, Placed, OneFate, Fresh
  <2>3. QED
    BY <1>1, <2>2 DEF RuntimeInv, Placed
<1>7. Noticed'
  <2>1. (Told => Told') /\ (queued = {} => Told')
    BY <1>1, <1>2, <1>3 DEF Told
  <2>2. QED
    BY <1>1, <2>1 DEF RuntimeInv, Noticed, Full
<1>8. QED
  BY <1>4, <1>5, <1>6, <1>7 DEF RuntimeInv

LEMMA PushEvictingInv ==
  ASSUME RuntimeInv, NEW p \in Producers, NEW v \in Works, NEW w \in Works, PushEvicting(p, v, w)
  PROVE  RuntimeInv'
<1>1. /\ UNCHANGED <<running, lifecycle, due, front, shutdown, waker, events, woken, pc, now,
                     stopping, sleep_hint, in_flight, completion, output, ret, timer, polled,
                     finished, time, signal>>
      /\ w \notin queued \cup running /\ v \in queued
      /\ queued' = (queued \ {v}) \cup {w} /\ Fresh(w)
      /\ before' = Queue!Without(v) \cup ((queued \ {v}) \X {w})
  BY DEF PushEvicting, UnsignalledVars, Queue!Replace, signalVars, driverVars, payloadVars
<1>2. TypeOK'
  <2>1. before' \subseteq Works \X Works
    BY <1>1 DEF RuntimeInv, TypeOK, Queue!Without
  <2>2. QED
    BY <1>1, <2>1 DEF RuntimeInv, TypeOK
<1>3. DrainedOnce' /\ Registered' /\ ScanKnown' /\ HintKept'
  BY <1>1 DEF RuntimeInv, DrainedOnce, Registered, ScanKnown, HintKept, Full
<1>4. Placed'
  <2>1. w \notin in_flight
    BY <1>1 DEF RuntimeInv, Placed
  <2>2. OneFate'
    BY <1>1, <2>1 DEF RuntimeInv, Placed, OneFate, Fresh
  <2>3. QED
    BY <1>1, <2>2 DEF RuntimeInv, Placed
<1>5. Noticed'
  BY <1>1 DEF RuntimeInv, Noticed, Full, Told
<1>6. QED
  BY <1>2, <1>3, <1>4, <1>5 DEF RuntimeInv

LEMMA CloseQueueInv ==
  ASSUME RuntimeInv, NEW p \in Producers, CloseQueue(p)
  PROVE  RuntimeInv'
<1>1. /\ UNCHANGED <<queued, before, running, due, front, shutdown, waker, events, woken, pc, now,
                     stopping, sleep_hint, in_flight, completion, output, ret, timer, polled,
                     finished, time>>
      /\ lifecycle = "Open" /\ lifecycle' \in {"Draining", "Drained"}
      /\ signal[p] = "None"
      /\ signal' = [signal EXCEPT ![p] = IF lifecycle' = "Drained" THEN "Drained" ELSE @]
  BY DEF CloseQueue, UnsignalledVars, Queue!Close, Queue!Settled, signalVars, driverVars, payloadVars
<1>2. p \in Threads /\ signal \in [Threads -> {"None", "WakeUp", "Drained"}]
  BY DEF Threads, RuntimeInv, TypeOK
<1>3. /\ \A t \in Threads : signal[t] # "None" => signal'[t] = signal[t]
      /\ \A t \in Threads : t # p => signal'[t] = signal[t]
      /\ signal' \in [Threads -> {"None", "WakeUp", "Drained"}]
      /\ lifecycle' # "Drained" => signal' = signal
  BY <1>1, <1>2
<1>4. TypeOK'
  BY <1>1, <1>3 DEF RuntimeInv, TypeOK
<1>5. DrainedOnce'
  BY <1>1, <1>3 DEF RuntimeInv, DrainedOnce
<1>6. Registered' /\ Placed' /\ ScanKnown' /\ HintKept'
  BY <1>1 DEF RuntimeInv, Registered, Placed, OneFate, ScanKnown, HintKept, Full
<1>7. Noticed'
  <2>1. Told => Told'
    BY <1>1, <1>2, <1>3 DEF Told
  <2>2. QED
    BY <1>1, <2>1 DEF RuntimeInv, Noticed, Full
<1>8. QED
  BY <1>4, <1>5, <1>6, <1>7 DEF RuntimeInv

\* A step of the handle, which tells the driver of what it changed.
LEMMA HandleInv ==
  ASSUME RuntimeInv, GracefulShutdown \/ \E d \in time .. Never : WithRootMut(d)
  PROVE  RuntimeInv'
<1>1. /\ UNCHANGED <<queued, before, running, lifecycle, waker, events, woken, pc, now,
                     stopping, sleep_hint, in_flight, completion, output, ret, timer, polled,
                     finished, time>>
      /\ signal["handle"] = "None"
      /\ signal' = [signal EXCEPT !["handle"] = "WakeUp"]
      /\ ~Locked
      /\ \/ shutdown' = TRUE /\ UNCHANGED <<due, front>>
         \/ due' \in time .. Never /\ front' = "queue" /\ UNCHANGED shutdown
  BY DEF GracefulShutdown, WithRootMut, rootVars, queueVars, signalVars, driverVars, payloadVars
<1>2. "handle" \in Threads /\ signal \in [Threads -> {"None", "WakeUp", "Drained"}]
  BY DEF Threads, RuntimeInv, TypeOK
<1>3. /\ \A t \in Threads : signal[t] # "None" => signal'[t] = signal[t]
      /\ \A t \in Threads : signal'[t] = "Drained" => signal[t] = "Drained"
      /\ signal' \in [Threads -> {"None", "WakeUp", "Drained"}]
      /\ Told'
  BY <1>1, <1>2 DEF Told
<1>4. TypeOK'
  <2>1. due' \in Times
    BY <1>1, Constants DEF RuntimeInv, TypeOK, Times
  <2>2. shutdown' \in BOOLEAN /\ front' \in {"queue", "leaf"}
    BY <1>1 DEF RuntimeInv, TypeOK
  <2>3. QED
    BY <1>1, <1>3, <2>1, <2>2 DEF RuntimeInv, TypeOK
<1>5. DrainedOnce' /\ Registered' /\ HintKept'
  BY <1>1, <1>3 DEF RuntimeInv, DrainedOnce, Registered, HintKept
<1>6. Placed' /\ ScanKnown'
  BY <1>1 DEF RuntimeInv, Placed, OneFate, ScanKnown, Locked, Full, TypeOK
<1>7. Noticed'
  BY <1>1, <1>3 DEF RuntimeInv, Noticed, Full, Scanned
<1>8. QED
  BY <1>4, <1>5, <1>6, <1>7 DEF RuntimeInv

LEMMA WorldInv ==
  ASSUME RuntimeInv, Tick \/ UNCHANGED vars
  PROVE  RuntimeInv'
<1>1. /\ UNCHANGED <<queued, before, running, lifecycle, due, front, shutdown, waker, events,
                     woken, signal, pc, now, stopping, sleep_hint, in_flight, completion, output,
                     ret, timer, polled, finished>>
  BY DEF Tick, vars, rootVars, queueVars, signalVars, driverVars, payloadVars
<1>2. time' \in 0 .. MaxTime /\ time <= time' /\ time \in Nat
  BY Constants DEF Tick, vars, RuntimeInv, TypeOK
<1>3. TypeOK'
  BY <1>1, <1>2 DEF RuntimeInv, TypeOK
<1>4. HintKept'
  <2>1. sleep_hint.at \in Nat
    BY Constants DEF RuntimeInv, TypeOK, Times
  <2>2. QED
    BY <1>1, <1>2, <2>1, Constants DEF RuntimeInv, HintKept
<1>5. DrainedOnce' /\ Registered' /\ Placed' /\ ScanKnown' /\ Noticed'
  BY <1>1 DEF RuntimeInv, DrainedOnce, Registered, Placed, OneFate, ScanKnown, Noticed, Told, Full
<1>6. QED
  BY <1>3, <1>4, <1>5 DEF RuntimeInv

LEMMA FinishInv ==
  ASSUME RuntimeInv, NEW w \in Works \cup Ticks, Finish(w)
  PROVE  RuntimeInv'
<1>1. /\ UNCHANGED <<queued, before, running, lifecycle, due, front, shutdown, waker, events,
                     signal, pc, now, stopping, sleep_hint, in_flight, completion, output,
                     ret, timer, polled, time>>
      /\ finished' = finished \cup {w} /\ w \in in_flight
      /\ woken' = (woken \/ w \in polled)
  BY DEF Finish, rootVars, queueVars, driverVars
<1>2. TypeOK'
  BY <1>1 DEF RuntimeInv, TypeOK
<1>3. DrainedOnce' /\ Registered' /\ Placed' /\ ScanKnown' /\ HintKept'
  BY <1>1 DEF RuntimeInv, DrainedOnce, Registered, Placed, OneFate, ScanKnown, HintKept, Full
<1>4. Noticed'
  BY <1>1 DEF RuntimeInv, Noticed, Told, Full
<1>5. QED
  BY <1>2, <1>3, <1>4 DEF RuntimeInv

-----------------------------------------------------------------------------
(* The driver.                                                              *)

\* A poll begins, or its waker is registered.
LEMMA PollBeginsInv ==
  ASSUME RuntimeInv, Call \/ Resume \/ PollEarly \/ RegisterWaker
  PROVE  RuntimeInv'
<1>1. /\ UNCHANGED <<queued, before, running, lifecycle, due, front, shutdown, events, signal, now,
                     stopping, sleep_hint, in_flight, completion, output, polled, finished, time>>
      /\ pc \in {"idle", "parked", "poll"} /\ pc' \in {"poll", "forward"}
      /\ pc' = "forward" => waker'
      /\ waker' \in BOOLEAN /\ woken' \in BOOLEAN
      /\ timer' = timer \/ (timer' = Never /\ time >= timer)
  BY DEF Call, Resume, PollEarly, RegisterWaker, Goto, rootVars, queueVars, signalVars, payloadVars,
     RuntimeInv, TypeOK
<1>2. TypeOK'
  <2>1. timer' \in Times
    BY <1>1, Constants DEF RuntimeInv, TypeOK, Times
  <2>2. QED
    BY <1>1, <2>1 DEF RuntimeInv, TypeOK
<1>3. DrainedOnce' /\ Registered' /\ Placed' /\ ScanKnown'
  BY <1>1 DEF RuntimeInv, DrainedOnce, Registered, Polling, Placed, OneFate, ScanKnown, Full, Scanned
<1>4. HintKept' /\ Noticed'
  BY <1>1 DEF RuntimeInv, HintKept, Noticed, Scanned
<1>5. QED
  BY <1>2, <1>3, <1>4 DEF RuntimeInv

LEMMA ForwardCompletionsInv ==
  ASSUME RuntimeInv, ForwardCompletions
  PROVE  RuntimeInv'
<1>1. /\ UNCHANGED <<queued, before, due, front, shutdown, signal, now, stopping, sleep_hint,
                     in_flight, output, ret, timer, polled, finished, time>>
      /\ pc = "forward" /\ pc' = "output"
      /\ completion' = {} /\ running' = running \ completion
      /\ lifecycle' = lifecycle \/ (lifecycle = "Draining" /\ lifecycle' = "Drained")
      /\ IF lifecycle' # lifecycle
         THEN /\ events' = IF RuntimeEvents THEN events + 1 ELSE events
              /\ waker' = FALSE /\ woken' = (woken \/ waker)
         ELSE UNCHANGED <<waker, events, woken>>
  BY DEF ForwardCompletions, Goto, HandleQueueEvent, Wake, signalVars, payloadVars
<1>2. lifecycle' # lifecycle => events = 0 /\ \A t \in Threads : signal[t] # "Drained"
  BY <1>1 DEF RuntimeInv, DrainedOnce
<1>3. /\ events' \in 0 .. 1 /\ (events' = events \/ lifecycle' = "Drained")
      /\ events' = 1 => \A t \in Threads : signal[t] # "Drained"
  BY <1>1, <1>2 DEF RuntimeInv, TypeOK, DrainedOnce
<1>4. waker' \in BOOLEAN /\ woken' \in BOOLEAN /\ (waker' \/ woken')
  BY <1>1 DEF RuntimeInv, TypeOK, Registered, Polling
<1>5. TypeOK'
  BY <1>1, <1>3, <1>4 DEF RuntimeInv, TypeOK
<1>6. DrainedOnce' /\ Registered'
  BY <1>1, <1>2, <1>3, <1>4 DEF RuntimeInv, DrainedOnce, Registered
<1>7. Placed'
  <2>1. running' = (in_flight' \cup completion') \cap Works
    BY <1>1 DEF RuntimeInv, Placed
  <2>2. QED
    BY <1>1, <2>1 DEF RuntimeInv, Placed, OneFate, Scanned
<1>8. ScanKnown' /\ HintKept' /\ Noticed'
  BY <1>1 DEF RuntimeInv, ScanKnown, HintKept, Noticed, Full, Scanned
<1>9. QED
  BY <1>5, <1>6, <1>7, <1>8 DEF RuntimeInv

OutputItem == [kind : {"Work", "QueueDrained"}, work : Items \cup {"none"}]

\* What OneFate says of the outputs of a sequence.
Single(out) ==
  \A i \in DOMAIN out : out[i].kind = "Work" =>
     /\ out[i].work \notin in_flight \cup queued
     /\ \A j \in DOMAIN out : out[j] = out[i] => i = j

\* Collecting events behind the outputs keeps the outputs single.
LEMMA CollectSingle ==
  ASSUME output \in Seq(OutputItem), Single(output), NEW n \in Nat
  PROVE  LET out == output \o [i \in 1 .. n |-> Output("QueueDrained", "none")]
         IN  /\ out \in Seq(OutputItem) /\ Single(out)
             /\ out = <<>> => output = <<>> /\ n = 0
             /\ out # <<>> => Head(out) \in OutputItem /\ Tail(out) \in Seq(OutputItem)
                              /\ Single(Tail(out))
<1> DEFINE e == [i \in 1 .. n |-> Output("QueueDrained", "none")]
           out == output \o e
<1>1. /\ e \in Seq(OutputItem) /\ Len(e) = n
      /\ \A i \in 1 .. n : e[i].kind = "QueueDrained"
  BY DEF Output, OutputItem
<1> HIDE DEF e
<1>2. /\ out \in Seq(OutputItem) /\ Len(out) = Len(output) + n
      /\ \A i \in 1 .. Len(out) :
            out[i] = IF i <= Len(output) THEN output[i] ELSE e[i - Len(output)]
  BY <1>1, ConcatProperties
<1>3. \A i \in 1 .. Len(out) : out[i].kind = "Work" => i <= Len(output) /\ out[i] = output[i]
  <2> SUFFICES ASSUME NEW i \in 1 .. Len(out), out[i].kind = "Work"
               PROVE  i <= Len(output) /\ out[i] = output[i]
    OBVIOUS
  <2>1. CASE i <= Len(output)
    BY <1>2, <2>1
  <2>2. CASE ~(i <= Len(output))
    <3>1. i - Len(output) \in 1 .. n
      BY <1>2, <2>2
    <3>2. QED
      BY <1>1, <1>2, <2>2, <3>1
  <2>3. QED
    BY <2>1, <2>2
<1> HIDE DEF out
<1>4. DOMAIN out = 1 .. Len(out) /\ DOMAIN output = 1 .. Len(output) /\ Len(output) \in Nat
  BY <1>2
<1>5. Single(out)
  <2> SUFFICES ASSUME NEW i \in DOMAIN out, out[i].kind = "Work"
               PROVE  /\ out[i].work \notin in_flight \cup queued
                      /\ \A j \in DOMAIN out : out[j] = out[i] => i = j
    BY DEF Single
  <2>1. i \in DOMAIN output /\ out[i] = output[i]
    BY <1>3, <1>4
  <2>2. ASSUME NEW j \in DOMAIN out, out[j] = out[i] PROVE i = j
    <3>1. j \in DOMAIN output /\ out[j] = output[j]
      BY <1>3, <1>4, <2>2
    <3>2. QED
      BY <2>1, <2>2, <3>1 DEF Single
  <2>3. QED
    BY <2>1, <2>2 DEF Single
<1>6. out = <<>> => output = <<>> /\ n = 0
  <2>1. out = <<>> => Len(output) + n = 0
    BY <1>2
  <2>2. QED
    BY <1>4, <2>1
<1>7. ASSUME out # <<>>
      PROVE  /\ Head(out) \in OutputItem /\ Tail(out) \in Seq(OutputItem)
             /\ Single(Tail(out))
  <2>1. /\ Head(out) \in OutputItem /\ Tail(out) \in Seq(OutputItem)
        /\ Len(Tail(out)) = Len(out) - 1
        /\ \A i \in 1 .. Len(out) - 1 : Tail(out)[i] = out[i + 1]
    BY <1>2, <1>7
  <2>2. \A i \in DOMAIN Tail(out) : i + 1 \in DOMAIN out /\ Tail(out)[i] = out[i + 1] /\ i \in Int
    BY <1>4, <2>1
  <2>3. Single(Tail(out))
    <3> SUFFICES ASSUME NEW i \in DOMAIN Tail(out), Tail(out)[i].kind = "Work"
                 PROVE  /\ Tail(out)[i].work \notin in_flight \cup queued
                        /\ \A j \in DOMAIN Tail(out) : Tail(out)[j] = Tail(out)[i] => i = j
      BY DEF Single
    <3>1. /\ out[i + 1].work \notin in_flight \cup queued
          /\ \A j \in DOMAIN out : out[j] = out[i + 1] => i + 1 = j
      BY <1>5, <2>2 DEF Single
    <3>2. QED
      BY <2>2, <3>1
  <2>4. QED
    BY <2>1, <2>3
<1>8. QED
  BY <1>2, <1>5, <1>6, <1>7 DEF out, e

LEMMA PopOutputInv ==
  ASSUME RuntimeInv, PopOutput
  PROVE  RuntimeInv' /\ (ret' = ret \/ ret'.kind # "Shutdown")
<1> DEFINE out == output \o [i \in 1 .. events |-> Output("QueueDrained", "none")]
<1>1. /\ UNCHANGED <<queued, before, running, lifecycle, due, front, shutdown, waker, woken, signal,
                     polled, finished, time, stopping, in_flight, completion, timer>>
      /\ pc = "output" /\ events' = 0
      /\ IF out # <<>>
         THEN /\ pc' = "idle" /\ ret' = Head(out) /\ output' = Tail(out)
              /\ UNCHANGED <<now, sleep_hint>>
         ELSE /\ pc' = "scan" /\ now' = time
              /\ sleep_hint' = IF time < sleep_hint.at THEN sleep_hint ELSE NoHint
              /\ UNCHANGED <<output, ret>>
  BY DEF PopOutput, Return, Goto, rootVars, queueVars, payloadVars
<1>2. output \in Seq(OutputItem) /\ Single(output) /\ events \in Nat
  BY DEF RuntimeInv, TypeOK, OutputItem, Placed, OneFate, Single
<1>3. /\ out = <<>> => output = <<>>
      /\ out # <<>> => Head(out) \in OutputItem /\ Tail(out) \in Seq(OutputItem) /\ Single(Tail(out))
  BY <1>2, CollectSingle
<1> HIDE DEF out
<1>4. output' \in Seq(OutputItem) /\ Single(output')
  BY <1>1, <1>2, <1>3
<1>5. /\ time \in Nat /\ time <= MaxTime /\ sleep_hint.at \in Nat
      /\ sleep_hint \in [kind : {"None", "Observed", "Emitted"}, at : Times]
      /\ NoHint \in [kind : {"None", "Observed", "Emitted"}, at : Times]
  BY Constants DEF RuntimeInv, TypeOK, Times, NoHint
<1>6. TypeOK'
  <2>1. sleep_hint' \in [kind : {"None", "Observed", "Emitted"}, at : Times]
    BY <1>1, <1>5
  <2>2. now' \in 0 .. MaxTime /\ events' \in 0 .. 1 /\ pc' \in {"idle", "scan"}
    BY <1>1 DEF RuntimeInv, TypeOK
  <2>3. QED
    BY <1>1, <1>4, <2>1, <2>2 DEF RuntimeInv, TypeOK, OutputItem
<1>7. DrainedOnce' /\ Registered' /\ ScanKnown'
  BY <1>1 DEF RuntimeInv, DrainedOnce, Registered, ScanKnown, Polling
<1>8. Placed'
  <2>1. OneFate'
    BY <1>1, <1>4 DEF RuntimeInv, Placed, OneFate, Single
  <2>2. QED
    BY <1>1, <1>3, <2>1 DEF RuntimeInv, Placed, Scanned
<1>9. HintKept'
  BY <1>1, <1>5 DEF RuntimeInv, HintKept, Scanned, NoHint
<1>10. Noticed'
  BY <1>1 DEF RuntimeInv, Noticed, Scanned
<1>11. QED
  BY <1>1, <1>3, <1>6, <1>7, <1>8, <1>9, <1>10 DEF RuntimeInv, OutputItem

LEMMA LockRootInv ==
  ASSUME RuntimeInv, LockRoot
  PROVE  RuntimeInv'
<1>1. /\ UNCHANGED <<queued, before, running, lifecycle, due, front, shutdown, waker, events, woken,
                     signal, polled, finished, time, now, in_flight, completion, output, ret, timer>>
      /\ pc = "scan"
      /\ stopping' = (Cardinality(in_flight) < MaxInFlight /\ shutdown)
      /\ pc' = IF Cardinality(in_flight) < MaxInFlight /\ ~shutdown THEN "ready" ELSE "drain"
      /\ sleep_hint' = IF stopping' THEN NoHint ELSE sleep_hint
  BY DEF LockRoot, Goto, HintUnless, rootVars, queueVars, signalVars, payloadVars
<1>2. Cardinality(in_flight) \in Nat /\ (Cardinality(in_flight) < MaxInFlight <=> ~Full)
  BY FS_CardinalityType, Constants DEF RuntimeInv, Placed, Full
<1>3. Full => in_flight # {}
  BY <1>2, FS_EmptySet, Constants DEF RuntimeInv, Placed, Full
<1>4. TypeOK'
  <2>1. NoHint \in [kind : {"None", "Observed", "Emitted"}, at : Times]
    BY Constants DEF NoHint, Times
  <2>2. stopping' \in BOOLEAN /\ pc' \in {"ready", "drain"}
    BY <1>1
  <2>3. QED
    BY <1>1, <2>1, <2>2 DEF RuntimeInv, TypeOK
<1>5. DrainedOnce' /\ Registered' /\ Placed'
  BY <1>1 DEF RuntimeInv, DrainedOnce, Registered, Polling, Placed, OneFate, Scanned
<1>6. ScanKnown' /\ HintKept'
  BY <1>1, <1>2 DEF RuntimeInv, ScanKnown, HintKept, Full, NoHint, Scanned
<1>7. Noticed'
  BY <1>1, <1>2, <1>3 DEF RuntimeInv, Noticed, Full, Told, Scanned
<1>8. QED
  BY <1>4, <1>5, <1>6, <1>7 DEF RuntimeInv

LEMMA UpdateReadyInv ==
  ASSUME RuntimeInv, UpdateReady
  PROVE  RuntimeInv'
<1>1. /\ UNCHANGED <<queued, before, running, lifecycle, due, front, shutdown, waker, events, woken,
                     signal, polled, finished, time, now, stopping, in_flight, completion, output,
                     ret, timer>>
      /\ pc = "ready"
      /\ IF queued # {} \/ due <= now THEN pc' = "take" /\ UNCHANGED sleep_hint
         ELSE pc' = "drain" /\ NoWork(due)
  BY DEF UpdateReady, Goto, rootVars, queueVars, signalVars, payloadVars
<1>2. /\ due \in Nat /\ sleep_hint.at \in Nat /\ Never \in Nat /\ due <= Never
      /\ sleep_hint \in [kind : {"None", "Observed", "Emitted"}, at : Times]
  BY Constants DEF RuntimeInv, TypeOK, Times
<1>3. ~shutdown
  BY <1>1 DEF RuntimeInv, ScanKnown
<1>4. /\ sleep_hint' \in [kind : {"None", "Observed", "Emitted"}, at : Times]
      /\ sleep_hint'.kind = "None" => sleep_hint'.at = Never
      /\ sleep_hint'.kind = "Emitted" => sleep_hint' = sleep_hint
      /\ pc' = "drain" => sleep_hint'.at <= due
  <2>1. CASE sleep_hint' = sleep_hint /\ (pc' = "drain" => sleep_hint.at <= due)
    BY <1>2, <2>1 DEF RuntimeInv, HintKept
  <2>2. CASE due = Never /\ sleep_hint' = NoHint
    BY <1>2, <2>2, Constants DEF NoHint, Times
  <2>3. CASE sleep_hint' = Observed(due)
    BY <1>2, <2>3 DEF Observed, RuntimeInv, TypeOK
  <2>4. QED
    BY <1>1, <1>2, <2>1, <2>2, <2>3 DEF NoWork
<1>5. TypeOK'
  BY <1>1, <1>4 DEF RuntimeInv, TypeOK
<1>6. DrainedOnce' /\ Registered' /\ Placed' /\ ScanKnown'
  BY <1>1 DEF RuntimeInv, DrainedOnce, Registered, Polling, Placed, OneFate, Scanned, ScanKnown, Full
<1>7. HintKept'
  BY <1>1, <1>4 DEF RuntimeInv, HintKept, Scanned
<1>8. Noticed'
  BY <1>1, <1>3, <1>4 DEF RuntimeInv, Noticed, Scanned
<1>9. QED
  BY <1>5, <1>6, <1>7, <1>8 DEF RuntimeInv

\* What is common to the dispatch of a tick and of queued work.
LEMMA StartedFacts ==
  ASSUME RuntimeInv, pc = "take", NEW w \in Items, w \notin in_flight, Started(w)
  PROVE  /\ IsFiniteSet(in_flight') /\ Cardinality(in_flight') <= MaxInFlight
         /\ in_flight' = in_flight \cup {w}
         /\ pc' \in {"ready", "drain"}
         /\ pc' = "ready" => ~Full'
         /\ pc' = "drain" => Full'
<1>1. /\ in_flight' = in_flight \cup {w}
      /\ pc' = IF Cardinality(in_flight') < MaxInFlight THEN "ready" ELSE "drain"
  BY DEF Started, Goto
<1>2. IsFiniteSet(in_flight) /\ ~Full
  BY DEF RuntimeInv, Placed, ScanKnown
<1>3. Cardinality(in_flight) \in Nat
  BY <1>2, FS_CardinalityType
<1>4. IsFiniteSet(in_flight') /\ Cardinality(in_flight') = Cardinality(in_flight) + 1
  BY <1>1, <1>2, FS_AddElement
<1>5. QED
  BY <1>1, <1>2, <1>3, <1>4, Constants DEF Full

LEMMA TakeNextInv ==
  ASSUME RuntimeInv, TakeNext
  PROVE  RuntimeInv' /\ ~shutdown
<1>1. /\ UNCHANGED <<shutdown, waker, events, woken, signal, polled, finished, time, now, stopping,
                     sleep_hint, completion, output, ret, timer>>
      /\ pc = "take" /\ lifecycle' = lifecycle
  BY DEF TakeNext, TakeTick, TakeQueued, Queue!Dispatch, signalVars, payloadVars, queueVars
<1>2. ~shutdown /\ completion = {} /\ output = <<>>
  BY <1>1 DEF RuntimeInv, ScanKnown, Placed, Scanned
<1>3. PICK w \in Items :
        /\ w \notin in_flight /\ Started(w)
        /\ \/ w \in Ticks /\ UNCHANGED <<queued, before, running>>
           \/ w \in queued /\ Queue!Dispatch(w)
  BY <1>1, Constants DEF TakeNext, TakeTick, TakeQueued, queueVars, Items, RuntimeInv, TypeOK,
                         Placed, OneFate
<1>4. /\ IsFiniteSet(in_flight') /\ Cardinality(in_flight') <= MaxInFlight
      /\ in_flight' = in_flight \cup {w} /\ pc' \in {"ready", "drain"}
      /\ pc' = "ready" => ~Full'
      /\ pc' = "drain" => Full'
  BY <1>1, <1>3, StartedFacts
<1>5. due' \in Times /\ front' \in {"queue", "leaf"}
  BY Constants DEF TakeNext, TakeTick, TakeQueued, RuntimeInv, TypeOK, Times
<1>6. /\ queued' \subseteq queued /\ before' \subseteq before /\ w \notin queued'
      /\ running' = (in_flight' \cup completion') \cap Works
  <2>1. CASE w \in Ticks /\ UNCHANGED <<queued, before, running>>
    <3>1. w \notin Works
      BY <2>1, Constants
    <3>2. QED
      BY <1>1, <1>4, <2>1, <3>1 DEF RuntimeInv, TypeOK, Placed
  <2>2. CASE w \in queued /\ Queue!Dispatch(w)
    BY <1>1, <1>4, <2>2 DEF Queue!Dispatch, Queue!Without, RuntimeInv, TypeOK, Placed
  <2>3. QED
    BY <1>3, <2>1, <2>2
<1>7. TypeOK'
  <2>1. queued' \subseteq Works /\ before' \subseteq Works \X Works /\ running' \subseteq Works
    BY <1>6 DEF RuntimeInv, TypeOK
  <2>2. QED
    BY <1>1, <1>4, <1>5, <2>1 DEF RuntimeInv, TypeOK
<1>8. Placed'
  BY <1>1, <1>2, <1>4, <1>6 DEF RuntimeInv, Placed, OneFate
<1>9. DrainedOnce' /\ Registered' /\ ScanKnown' /\ HintKept'
  BY <1>1, <1>2, <1>4 DEF RuntimeInv, DrainedOnce, Registered, Polling, ScanKnown, HintKept, Scanned
<1>10. Noticed'
  <2>1. in_flight' # {}
    BY <1>4
  <2>2. QED
    BY <1>1, <1>2, <1>4, <2>1 DEF RuntimeInv, Noticed, Scanned
<1>11. QED
  BY <1>2, <1>7, <1>8, <1>9, <1>10 DEF RuntimeInv

\* The results of the payloads that were ready, in any order.
LEMMA DrainedOutput ==
  ASSUME NEW done \in SUBSET Items, IsFiniteSet(done), NEW s \in SetToSeqs(done)
  PROVE  LET out == <<>> \o [i \in DOMAIN s |-> Output("Work", s[i])]
         IN  /\ out \in Seq(OutputItem)
             /\ \A i \in DOMAIN out : out[i].work \in done /\ out[i].kind = "Work"
             /\ \A i, j \in DOMAIN out : out[i] = out[j] => i = j
             /\ out = <<>> <=> done = {}
<1> DEFINE n == Cardinality(done)
           e == [i \in DOMAIN s |-> Output("Work", s[i])]
<1>1. n \in Nat /\ (n = 0 <=> done = {})
  BY FS_CardinalityType, FS_EmptySet
<1>2. s \in [1 .. n -> done] /\ \A i, j \in 1 .. n : i # j => s[i] # s[j]
  BY DEF SetToSeqs
<1> HIDE DEF n
<1>3. /\ e \in Seq(OutputItem) /\ Len(e) = n /\ DOMAIN e = 1 .. n
      /\ \A i \in 1 .. n : e[i] = Output("Work", s[i]) /\ s[i] \in done
  <2>1. e = [i \in 1 .. n |-> Output("Work", s[i])]
    BY <1>2
  <2>2. \A i \in 1 .. n : Output("Work", s[i]) \in OutputItem /\ s[i] \in done
    BY <1>2 DEF Output, OutputItem
  <2>3. QED
    BY <1>1, <2>1, <2>2
<1> HIDE DEF e
<1>4. <<>> \o e = e
  BY <1>3
<1>5. /\ \A i \in DOMAIN e : e[i].work \in done /\ e[i].kind = "Work"
      /\ \A i, j \in DOMAIN e : e[i] = e[j] => i = j
  BY <1>2, <1>3 DEF Output
<1>6. e = <<>> <=> done = {}
  BY <1>1, <1>3
<1>7. QED
  BY <1>3, <1>4, <1>5, <1>6 DEF e

\* The last step of an iteration: what it leaves, wherever it goes.
LEMMA DrainFacts ==
  ASSUME RuntimeInv, DrainCompleted
  PROVE  /\ UNCHANGED <<queued, before, running, lifecycle, due, front, shutdown, waker, events,
                        woken, signal, time>>
         /\ pc = "drain" /\ completion = {} /\ output = <<>>
         /\ in_flight' \cup completion' = in_flight /\ in_flight' \cap completion' = {}
         /\ finished' \subseteq finished /\ polled' = in_flight'
         /\ finished' \cap in_flight' = {}
         /\ output' \in Seq(OutputItem)
         /\ Single(output)' /\ OneFate'
         /\ output' = <<>> <=> completion' = {}
         /\ IsFiniteSet(in_flight') /\ Cardinality(in_flight') <= MaxInFlight
         /\ now' = 0 /\ stopping' = FALSE
         /\ \/ /\ pc' = "idle" /\ ret' = Output("Shutdown", "none") /\ IsOver
               /\ UNCHANGED <<sleep_hint, timer>>
            \/ /\ pc' = "idle" /\ ret' = Output("SleepUntil", "none") /\ output' = <<>>
               /\ sleep_hint' = Emitted(sleep_hint.at) /\ timer' = sleep_hint.at
               /\ sleep_hint.kind = "Observed"
            \/ /\ ~IsOver /\ ~(output' = <<>> /\ sleep_hint.kind = "Observed")
               /\ pc' = IF completion' # {} THEN "forward" ELSE "parked"
               /\ UNCHANGED <<ret, sleep_hint, timer>>
<1> DEFINE done == finished \cap in_flight
<1>1. /\ UNCHANGED <<queued, before, running, lifecycle, due, front, shutdown, waker, events,
                     woken, signal, time>>
      /\ pc = "drain" /\ in_flight' = in_flight \ done /\ completion' = completion \cup done
      /\ finished' = finished \ done /\ polled' = in_flight'
      /\ now' = 0 /\ stopping' = FALSE
  BY DEF DrainCompleted, Without, PolledPayloads, ForgetLocals, rootVars, queueVars, signalVars
<1>2. completion = {} /\ output = <<>> /\ IsFiniteSet(in_flight)
  BY <1>1 DEF RuntimeInv, Placed, Scanned
<1>3. completion' = done /\ done \in SUBSET Items
  BY <1>1, <1>2 DEF RuntimeInv, TypeOK
<1>4. IsFiniteSet(done) /\ IsFiniteSet(in_flight') /\ Cardinality(in_flight') <= Cardinality(in_flight)
  <2>1. done \in SUBSET in_flight /\ in_flight' \in SUBSET in_flight
    BY <1>1
  <2>2. QED
    BY <1>2, <2>1, FS_Subset
<1>5. Cardinality(in_flight') <= MaxInFlight
  <2>1. Cardinality(in_flight') \in Nat /\ Cardinality(in_flight) \in Nat
    BY <1>2, <1>4, FS_CardinalityType
  <2>2. QED
    BY <1>4, <2>1, Constants DEF RuntimeInv, TypeOK
<1>6. PICK s \in SetToSeqs(done) : output' = output \o [i \in DOMAIN s |-> Output("Work", s[i])]
  BY DEF DrainCompleted
<1>7. /\ output' \in Seq(OutputItem)
      /\ \A i \in DOMAIN output' : output'[i].work \in done /\ output'[i].kind = "Work"
      /\ \A i, j \in DOMAIN output' : output'[i] = output'[j] => i = j
      /\ output' = <<>> <=> done = {}
  <2> DEFINE out == <<>> \o [i \in DOMAIN s |-> Output("Work", s[i])]
  <2>1. /\ out \in Seq(OutputItem)
        /\ \A i \in DOMAIN out : out[i].work \in done /\ out[i].kind = "Work"
        /\ \A i, j \in DOMAIN out : out[i] = out[j] => i = j
        /\ out = <<>> <=> done = {}
    BY <1>3, <1>4, DrainedOutput
  <2>2. output' = out
    BY <1>2, <1>6
  <2> HIDE DEF out
  <2>3. QED
    BY <2>1, <2>2
<1>8. Single(output)' /\ OneFate'
  <2>1. done \cap queued' = {} /\ done \cap in_flight' = {} /\ queued' \cap in_flight' = {}
    BY <1>1 DEF RuntimeInv, Placed, OneFate
  <2>2. \A i \in DOMAIN output' :
           /\ output'[i].work \notin in_flight' \cup queued'
           /\ \A j \in DOMAIN output' : output'[j] = output'[i] => i = j
    BY <1>7, <2>1
  <2>3. QED
    BY <2>1, <2>2 DEF Single, OneFate
<1>9. \/ /\ pc' = "idle" /\ ret' = Output("Shutdown", "none") /\ IsOver
         /\ UNCHANGED <<sleep_hint, timer>>
      \/ /\ pc' = "idle" /\ ret' = Output("SleepUntil", "none") /\ output' = <<>>
         /\ sleep_hint' = Emitted(sleep_hint.at) /\ timer' = sleep_hint.at
         /\ sleep_hint.kind = "Observed"
      \/ /\ ~IsOver /\ ~(output' = <<>> /\ sleep_hint.kind = "Observed")
         /\ pc' = IF done # {} THEN "forward" ELSE "parked"
         /\ UNCHANGED <<ret, sleep_hint, timer>>
  BY DEF DrainCompleted, Return, Goto, Continue
<1> HIDE DEF IsOver
<1>10. QED
  BY <1>1, <1>2, <1>3, <1>4, <1>5, <1>7, <1>8, <1>9

LEMMA DrainCompletedInv ==
  ASSUME RuntimeInv, DrainCompleted
  PROVE  /\ RuntimeInv' /\ in_flight' \subseteq in_flight
         /\ ret' # ret /\ ret'.kind = "Shutdown" =>
              in_flight = {} /\ output = <<>> /\ completion = {} /\ running = {}
<1>1. /\ UNCHANGED <<queued, before, running, lifecycle, due, front, shutdown, waker, events,
                     woken, signal, time>>
      /\ pc = "drain" /\ completion = {} /\ output = <<>>
      /\ in_flight' \cup completion' = in_flight /\ in_flight' \cap completion' = {}
      /\ finished' \subseteq finished /\ polled' = in_flight'
      /\ finished' \cap in_flight' = {}
      /\ output' \in Seq(OutputItem)
      /\ OneFate'
      /\ output' = <<>> <=> completion' = {}
      /\ IsFiniteSet(in_flight') /\ Cardinality(in_flight') <= MaxInFlight
      /\ now' = 0 /\ stopping' = FALSE
  BY DrainFacts
<1>2. \/ /\ pc' = "idle" /\ ret' = Output("Shutdown", "none") /\ IsOver
         /\ UNCHANGED <<sleep_hint, timer>>
      \/ /\ pc' = "idle" /\ ret' = Output("SleepUntil", "none") /\ output' = <<>>
         /\ sleep_hint' = Emitted(sleep_hint.at) /\ timer' = sleep_hint.at
         /\ sleep_hint.kind = "Observed"
      \/ /\ ~IsOver /\ ~(output' = <<>> /\ sleep_hint.kind = "Observed")
         /\ pc' = IF completion' # {} THEN "forward" ELSE "parked"
         /\ UNCHANGED <<ret, sleep_hint, timer>>
  BY DrainFacts
<1>3. IsOver => in_flight = {} /\ completion' = {}
  BY <1>1 DEF IsOver
<1>4. /\ sleep_hint' \in [kind : {"None", "Observed", "Emitted"}, at : Times] /\ timer' \in Times
      /\ sleep_hint'.kind = "None" => sleep_hint'.at = Never
      /\ sleep_hint'.kind = "Emitted" => timer' = sleep_hint'.at
  <2>1. /\ sleep_hint \in [kind : {"None", "Observed", "Emitted"}, at : Times] /\ timer \in Times
        /\ sleep_hint.kind = "None" => sleep_hint.at = Never
        /\ sleep_hint.kind = "Emitted" => timer = sleep_hint.at
    BY <1>1 DEF RuntimeInv, TypeOK, HintKept, Scanned
  <2>2. CASE UNCHANGED <<sleep_hint, timer>>
    BY <2>1, <2>2
  <2>3. CASE sleep_hint' = Emitted(sleep_hint.at) /\ timer' = sleep_hint.at
    BY <2>1, <2>3 DEF Emitted
  <2>4. QED
    BY <1>2, <2>2, <2>3
<1>5. pc' \in {"idle", "forward", "parked"} /\ (pc' # "forward" => completion' = {})
  BY <1>1, <1>2, <1>3
<1>6. TypeOK'
  <2>1. now' \in 0 .. MaxTime
    BY <1>1, Constants
  <2>2. stopping' \in BOOLEAN
    BY <1>1
  <2>3. /\ in_flight' \subseteq Items /\ completion' \subseteq Items /\ polled' \subseteq Items
        /\ finished' \subseteq Items
    BY <1>1 DEF RuntimeInv, TypeOK
  <2>4. QED
    BY <1>1, <1>4, <1>5, <2>1, <2>2, <2>3 DEF RuntimeInv, TypeOK, OutputItem
<1>7. DrainedOnce' /\ Registered' /\ ScanKnown' /\ HintKept'
  BY <1>1, <1>4, <1>5 DEF RuntimeInv, DrainedOnce, Registered, Polling, ScanKnown, HintKept
<1>8. Placed'
  <2>1. running' = (in_flight' \cup completion') \cap Works
    BY <1>1 DEF RuntimeInv, Placed
  <2>2. pc' \in Scanned => output' = <<>>
    BY <1>1, <1>5 DEF Scanned
  <2>3. QED
    BY <1>1, <1>5, <2>1, <2>2 DEF Placed
<1>9. Noticed'
  <2>1. CASE pc' # "parked"
    BY <1>5, <2>1 DEF Noticed, Scanned
  <2>2. CASE pc' = "parked"
    <3>1. /\ completion' = {} /\ in_flight' = in_flight /\ output' = <<>>
          /\ UNCHANGED <<sleep_hint, timer>>
          /\ ~IsOver /\ sleep_hint.kind # "Observed"
      BY <1>1, <1>2, <1>5, <2>2
    <3>2. (Full' <=> Full) /\ (Told' <=> Told)
      BY <1>1, <3>1 DEF Full, Told
    <3>3. shutdown => Told \/ in_flight # {}
      BY <1>1, <3>1 DEF RuntimeInv, Noticed, IsOver
    <3>4. Told \/ shutdown \/ Full \/ timer <= due
      <4>1. CASE sleep_hint.kind = "Emitted"
        BY <1>1, <4>1 DEF RuntimeInv, Noticed, HintKept, Scanned
      <4>2. CASE sleep_hint.kind = "None"
        BY <1>1, <4>2, Constants DEF RuntimeInv, Noticed, HintKept, TypeOK, Times
      <4>3. QED
        BY <3>1, <4>1, <4>2 DEF RuntimeInv, TypeOK
    <3>5. QED
      BY <1>1, <2>2, <3>1, <3>2, <3>3, <3>4 DEF RuntimeInv, Noticed, Scanned
  <2>3. QED
    BY <2>1, <2>2
<1>10. ret' # ret /\ ret'.kind = "Shutdown" =>
         in_flight = {} /\ output = <<>> /\ completion = {} /\ running = {}
  <2>1. ret' # ret /\ ret'.kind = "Shutdown" => IsOver
    BY <1>2 DEF Output
  <2>2. QED
    BY <1>1, <1>3, <2>1 DEF RuntimeInv, Placed
<1>11. QED
  BY <1>1, <1>6, <1>7, <1>8, <1>9, <1>10 DEF RuntimeInv

-----------------------------------------------------------------------------
(* The theorems.                                                            *)

\* One step of any thread: the invariant is kept, only take_next adds to
\* what is in flight, and only the end of an iteration that has nothing left
\* returns Shutdown.
LEMMA RuntimeStep ==
  ASSUME RuntimeInv, [Next]_vars
  PROVE  /\ RuntimeInv'
         /\ shutdown => in_flight' \subseteq in_flight
         /\ ret' # ret /\ ret'.kind = "Shutdown" =>
              in_flight = {} /\ output = <<>> /\ completion = {} /\ running = {}
<1> DEFINE Steady == in_flight' = in_flight /\ ret' = ret
           Goal == /\ RuntimeInv'
                   /\ shutdown => in_flight' \subseteq in_flight
                   /\ ret' # ret /\ ret'.kind = "Shutdown" =>
                        in_flight = {} /\ output = <<>> /\ completion = {} /\ running = {}
<1>1. RuntimeInv' /\ Steady => Goal
  OBVIOUS
<1>2. ASSUME NEW p \in Producers, NEW w \in Works, Push(p, w) PROVE Goal
  BY <1>1, <1>2, PushInv DEF Push, UnsignalledVars, driverVars
<1>3. ASSUME NEW p \in Producers, NEW v \in Works, NEW w \in Works, PushEvicting(p, v, w) PROVE Goal
  BY <1>1, <1>3, PushEvictingInv DEF PushEvicting, UnsignalledVars, driverVars
<1>4. ASSUME NEW p \in Producers, CloseQueue(p) PROVE Goal
  BY <1>1, <1>4, CloseQueueInv DEF CloseQueue, UnsignalledVars, driverVars
<1>5. ASSUME GracefulShutdown \/ \E d \in time .. Never : WithRootMut(d) PROVE Goal
  BY <1>1, <1>5, HandleInv DEF GracefulShutdown, WithRootMut, driverVars
<1>6. ASSUME NEW t \in Threads, Deliver(t) PROVE Goal
  BY <1>1, <1>6, DeliverInv DEF Deliver, driverVars
<1>7. ASSUME Call \/ Resume \/ PollEarly \/ RegisterWaker PROVE Goal
  <2>1. in_flight' = in_flight /\ (ret' = ret \/ ret'.kind # "Shutdown")
    BY <1>7 DEF Call, Resume, PollEarly, RegisterWaker, None, Output
  <2>2. QED
    BY <1>7, <2>1, PollBeginsInv
<1>8. ASSUME ForwardCompletions PROVE Goal
  BY <1>1, <1>8, ForwardCompletionsInv DEF ForwardCompletions
<1>9. ASSUME PopOutput PROVE Goal
  <2>1. in_flight' = in_flight
    BY <1>9 DEF PopOutput
  <2>2. QED
    BY <1>9, <2>1, PopOutputInv
<1>10. ASSUME LockRoot PROVE Goal
  BY <1>1, <1>10, LockRootInv DEF LockRoot
<1>11. ASSUME UpdateReady PROVE Goal
  BY <1>1, <1>11, UpdateReadyInv DEF UpdateReady
<1>12. ASSUME TakeNext PROVE Goal
  <2>1. ret' = ret
    BY <1>12 DEF TakeNext
  <2>2. QED
    BY <1>12, <2>1, TakeNextInv
<1>13. ASSUME DrainCompleted PROVE Goal
  BY <1>13, DrainCompletedInv
<1>14. ASSUME NEW w \in Works \cup Ticks, Finish(w) PROVE Goal
  BY <1>1, <1>14, FinishInv DEF Finish, driverVars
<1>15. ASSUME Tick \/ UNCHANGED vars PROVE Goal
  BY <1>1, <1>15, WorldInv DEF Tick, vars, driverVars
<1> HIDE DEF Goal
<1>16. Goal
  BY <1>2, <1>3, <1>4, <1>5, <1>6, <1>7, <1>8, <1>9, <1>10, <1>11, <1>12, <1>13, <1>14, <1>15
  DEF Next, DriverStep
<1>17. QED
  BY <1>16 DEF Goal

\* The inductive invariant of the runtime holds in every state, whatever the
\* producers, the handle, the payloads and the clock do between the critical
\* sections of the driver's poll (runtime.rs).
THEOREM RuntimeInvariance == Spec => []RuntimeInv
<1>1. RuntimeInv /\ [Next]_vars => RuntimeInv'
  BY RuntimeStep
<1>2. QED
  BY <1>1, RuntimeInitInv, PTL DEF Spec

\* A driver that parks leaves nothing behind that it was not told of or has
\* not retained a deadline for: no wake-up and no deadline is lost, for any
\* number of producers (NextFuture::poll, RuntimeSignals).
THEOREM NothingLostCorrect == Spec => []NothingLost
<1>1. RuntimeInv => NothingLost
  <2> SUFFICES ASSUME RuntimeInv PROVE NothingLost
    OBVIOUS
  <2>1. ASSUME Asleep PROVE pc = "parked" /\ ~Told /\ ~woken
    BY <2>1 DEF Asleep, Told
  <2>2. NoLostWakeup
    BY <2>1 DEF NoLostWakeup, RuntimeInv, Noticed, Full, Scanned
  <2>3. NoLostDeadline
    <3> SUFFICES ASSUME Asleep, ~shutdown, Cardinality(in_flight) < MaxInFlight PROVE timer <= due
      BY DEF NoLostDeadline
    <3>1. ~Full
      BY FS_CardinalityType, Constants DEF RuntimeInv, Placed, Full
    <3>2. QED
      BY <2>1, <3>1 DEF RuntimeInv, Noticed
  <2>4. QED
    BY <2>2, <2>3 DEF NothingLost, RuntimeInv
<1>2. QED
  BY <1>1, RuntimeInvariance, PTL

\* Whenever the driver has control, the scheduler knows of every completion
\* whose result may come out of next, and no item has two fates
\* (drain_completed, forward_completions).
THEOREM ReportsCorrect == Spec => []ReportedBeforeReturned
<1>1. RuntimeInv => ReportedBeforeReturned
  BY DEF RuntimeInv, Placed, ReportedBeforeReturned
<1>2. QED
  BY <1>1, RuntimeInvariance, PTL

\* Nothing is dispatched once the shutdown flag is set, and the terminal
\* output is returned only when nothing is left (graceful_shutdown,
\* NextFuture::poll).
THEOREM ShutdownCorrect == Spec => ShutdownOrderly
<1> DEFINE Quiet == shutdown => in_flight' \subseteq in_flight
           Final == ret' # ret /\ ret'.kind = "Shutdown" =>
                      in_flight = {} /\ output = <<>> /\ completion = {} /\ running = {}
<1>1. RuntimeInv /\ [Next]_vars => [Quiet]_vars /\ [Final]_vars
  BY RuntimeStep
<1>2. QED
  BY <1>1, RuntimeInvariance, PTL
  DEF Spec, ShutdownOrderly, NoDispatchAfterShutdown, ShutdownIsLast
=============================================================================
