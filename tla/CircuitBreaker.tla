--------------------------- MODULE CircuitBreaker ---------------------------
(***************************************************************************)
(* The circuit breaker (dispatcher/src/schedulers/circuit_breaker.rs)      *)
(* wrapped, as its comments expect, in a BoundedConcurrency                *)
(* (bounded_concurrency.rs), over a child that always has work or runs     *)
(* out of it.  Both are called by one thread; the calls of one scan are    *)
(* update_ready and then any number of take_next and on_complete, between  *)
(* which the clock advances and other branches may be asked.               *)
(*                                                                         *)
(* The clock readings passed to the breaker never go back, so an Open      *)
(* breaker keeps the time that is left until its deadline.                 *)
(***************************************************************************)
EXTENDS Integers, FiniteSets, SequencesExt

CONSTANTS
  Items,          \* names for dispatched items
  Cap,            \* BoundedConcurrency.cap
  SampleWindow,   \* CircuitBreakerConfig.sample_window
  MinSamples,     \* CircuitBreakerConfig.min_samples
  ThresholdNum,   \* failure_threshold = ThresholdNum / ThresholdDen
  ThresholdDen,
  CoolDown        \* CircuitBreakerConfig.cool_down

ASSUME BreakerAssumption ==
  /\ Cap \in Nat \ {0}
  /\ SampleWindow \in Nat /\ MinSamples \in Nat /\ CoolDown \in Nat
  /\ ThresholdNum \in Nat /\ ThresholdDen \in Nat \ {0}
  /\ ThresholdNum <= ThresholdDen

VARIABLES
  state,              \* BreakerState; Open carries the time left
  samples,            \* the ring of outcomes, with the item's `old` mark
  breaker_in_flight,  \* CircuitBreaker.in_flight
  slots_used,         \* BoundedConcurrency.in_flight
  outstanding,        \* dispatched items: [item, old, lag], lag: time since
                      \* it completed, or Running; old: dispatched before an
                      \* opening
  since               \* time since the completion that last opened the breaker

breakerVars == <<state, samples, breaker_in_flight, slots_used, outstanding, since>>

Running == -1
Closed == [kind |-> "Closed", left |-> 0]
Open(left) == [kind |-> "Open", left |-> left]
HalfOpen == [kind |-> "HalfOpen", left |-> 0]
Probing == [kind |-> "Probing", left |-> 0]

BreakerInit ==
  /\ state = Closed
  /\ samples = <<>>
  /\ breaker_in_flight = 0
  /\ slots_used = 0
  /\ outstanding = {}
  /\ since = CoolDown

\* record_outcome: a full window forgets its oldest outcome.
RecordOutcome(s, o) ==
  IF SampleWindow = 0 THEN s
  ELSE Append(IF Len(s) >= SampleWindow THEN Tail(s) ELSE s, o)

\* failure_rate >= failure_threshold, for the windows that have a rate.
Failures(s) == Cardinality({i \in DOMAIN s : ~s[i].ok})
Trips(s) == /\ Len(s) >= MinSamples
            /\ Len(s) > 0
            /\ Failures(s) * ThresholdDen >= ThresholdNum * Len(s)

\* open: the cool-down counts from the completion, which is `lag` old by
\* the time it reaches the breaker; the samples are cleared.
OpenBreaker(lag) ==
  /\ state' = Open(CoolDown - lag)
  /\ samples' = <<>>
  /\ since' = lag

\* The runtime forwards every completion before it scans again.
Scanning == \A o \in outstanding : o.lag = Running

\* update_ready leaves Open when its deadline has been reached.  Saturated,
\* BoundedConcurrency does not ask the breaker at all.
BreakerUpdateReady ==
  /\ Scanning
  /\ slots_used < Cap
  /\ state.kind = "Open" /\ state.left = 0
  /\ state' = HalfOpen
  /\ UNCHANGED <<samples, breaker_in_flight, slots_used, outstanding, since>>

\* Mutant: the probe does not wait for the work dispatched before.
ProbeAtOnce == TRUE

\* A probe is sent once everything dispatched before has drained.
MayProbe == breaker_in_flight = 0

\* take_next of the concurrency cap, the breaker and the child: closed, any
\* item; half open, one probe once the earlier items have drained.
BreakerTakeNext(item) ==
  /\ Scanning
  /\ slots_used < Cap
  /\ \A o \in outstanding : o.item # item
  /\ \/ state.kind = "Closed" /\ UNCHANGED state
     \/ state.kind = "HalfOpen" /\ MayProbe /\ state' = Probing
  /\ breaker_in_flight' = breaker_in_flight + 1
  /\ slots_used' = slots_used + 1
  /\ outstanding' = outstanding \cup
       {[item |-> item, old |-> FALSE, lag |-> Running]}
  /\ UNCHANGED <<samples, since>>

\* The payload returns: the runtime takes the time of the completion.
Finish(o) ==
  /\ o.lag = Running
  /\ outstanding' = (outstanding \ {o}) \cup {[o EXCEPT !.lag = 0]}
  /\ UNCHANGED <<state, samples, breaker_in_flight, slots_used, since>>

\* Mutant: no decrement.
NoDec(n) == n

SaturatingDec(n) == IF n > 0 THEN n - 1 ELSE 0

\* The outstanding items once the breaker opened: dispatched before.
Aged(S) == {[o EXCEPT !.old = TRUE] : o \in S}

\* on_complete of a closed breaker: record, and maybe trip.
CompleteClosed(o, ok) ==
  LET s == RecordOutcome(samples, [ok |-> ok, old |-> o.old])
  IN  /\ state.kind = "Closed"
      /\ IF Trips(s)
         THEN /\ OpenBreaker(o.lag)
              /\ outstanding' = Aged(outstanding \ {o})
         ELSE /\ samples' = s
              /\ outstanding' = outstanding \ {o}
              /\ UNCHANGED <<state, since>>

\* on_complete while probing: the probe's verdict.
CompleteProbe(o, ok) ==
  /\ state.kind = "Probing"
  /\ IF ok THEN state' = Closed /\ samples' = <<>> /\ UNCHANGED since
           ELSE OpenBreaker(o.lag)
  /\ outstanding' = Aged(outstanding \ {o})

\* on_complete of an open breaker, or before the probe: ignored.
CompleteIgnored(o) ==
  /\ state.kind \in {"Open", "HalfOpen"}
  /\ outstanding' = outstanding \ {o}
  /\ UNCHANGED <<state, samples, since>>

BreakerOnComplete(o, ok) ==
  /\ o.lag # Running
  /\ slots_used' = SaturatingDec(slots_used)
  /\ breaker_in_flight' = SaturatingDec(breaker_in_flight)
  /\ CompleteClosed(o, ok) \/ CompleteProbe(o, ok) \/ CompleteIgnored(o)

\* Time passes; ages are kept only up to the length of a cool-down.
Older(n) == IF n < CoolDown THEN n + 1 ELSE n

BreakerTick ==
  /\ state' = IF state.kind = "Open" THEN Open(SaturatingDec(state.left)) ELSE state
  /\ since' = Older(since)
  /\ outstanding' = {[o EXCEPT !.lag = IF @ = Running THEN @ ELSE Older(@)] :
                       o \in outstanding}
  /\ UNCHANGED <<samples, breaker_in_flight, slots_used>>

BreakerNext ==
  \/ BreakerUpdateReady
  \/ \E item \in Items : BreakerTakeNext(item)
  \/ \E o \in outstanding : Finish(o)
  \/ \E o \in outstanding, ok \in BOOLEAN : BreakerOnComplete(o, ok)
  \/ BreakerTick

\* The driver sleeps until the reported deadline and asks again, time goes
\* on, payloads finish and their completions are forwarded.
BreakerFairness ==
  /\ WF_breakerVars(BreakerUpdateReady)
  /\ WF_breakerVars(\E item \in Items : BreakerTakeNext(item))
  /\ WF_breakerVars(\E o \in outstanding : Finish(o))
  /\ WF_breakerVars(\E o \in outstanding, ok \in BOOLEAN : BreakerOnComplete(o, ok))
  /\ WF_breakerVars(BreakerTick)

BreakerSpec == BreakerInit /\ [][BreakerNext]_breakerVars /\ BreakerFairness
-----------------------------------------------------------------------------
(***************************************************************************)
(* Properties.                                                             *)
(***************************************************************************)
Dispatched == [item : Items, old : BOOLEAN, lag : Running .. CoolDown]

\* The types of the variables; both counters stay within the cap, and the
\* window within its configured size.
BreakerTypeOK ==
  /\ state \in {Closed, HalfOpen, Probing} \cup {Open(n) : n \in 0 .. CoolDown}
  /\ samples \in Seq([ok : BOOLEAN, old : BOOLEAN])
  /\ Len(samples) <= SampleWindow
  /\ breaker_in_flight \in 0 .. Cap /\ slots_used \in 0 .. Cap
  /\ outstanding \subseteq Dispatched
  /\ since \in 0 .. CoolDown

\* Results of items dispatched before the breaker last opened are not in the
\* window of a closed breaker, and a probe is the only item outstanding, so
\* that what completes is its verdict.
NoStaleVerdict ==
  /\ BreakerTypeOK
  /\ \A i \in DOMAIN samples : ~samples[i].old
  /\ state.kind = "Probing" =>
       \E o \in outstanding : outstanding = {o} /\ ~o.old

\* An open breaker is open.  No result of work dispatched before it opened
\* decides a later verdict, however late its completion is forwarded
\* (on_complete); nothing is dispatched during the cool-down, which counts
\* from the completion that failed, and after it a single item until that one
\* has reported (update_ready, take_next, under the concurrency cap).
OpenMeansOpen ==
  [][ /\ NoStaleVerdict'
      /\ Cardinality(outstanding') > Cardinality(outstanding) =>
           \/ state.kind = "Closed"
           \/ since = CoolDown /\ outstanding = {} ]_breakerVars

\* The breaker does not stay open: it is closed again or sends a probe, with
\* no deadline reported while it waits for earlier work (update_ready).
OpenIsProbed == (state.kind = "Open") ~> (state.kind \in {"Probing", "Closed"})
=============================================================================
