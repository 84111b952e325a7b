--------------------------- MODULE DecoratorProofs ---------------------------
(***************************************************************************)
(* Proofs about the decorators of a scheduler: the circuit breaker under   *)
(* its concurrency cap, for every cap, window, threshold and cool-down,    *)
(* and the token bucket, for every set of configurations and costs.        *)
(***************************************************************************)
EXTENDS CircuitBreaker, TokenBucket, FiniteSetTheorems, TLAPS

-----------------------------------------------------------------------------
(* The circuit breaker.                                                     *)

DistinctItems(S) == \A o, p \in S : o.item = p.item => o = p

\* Both counters count what is outstanding.
CountsExact ==
  /\ IsFiniteSet(outstanding)
  /\ DistinctItems(outstanding)
  /\ breaker_in_flight = Cardinality(outstanding)
  /\ slots_used = Cardinality(outstanding)

\* What the state of the breaker says of the items that are outstanding and
\* of the time since it opened.
StateExact ==
  /\ state.kind = "Closed" => \A o \in outstanding : ~o.old
  /\ state.kind = "Open" => state.left + since = CoolDown
  /\ state.kind = "HalfOpen" => since = CoolDown

BreakerInv == NoStaleVerdict /\ CountsExact /\ StateExact

\* Two sets of dispatches of the same items are of one size.
LEMMA SameItems ==
  ASSUME NEW S, NEW T, IsFiniteSet(S), DistinctItems(S), DistinctItems(T),
         \A o \in S : \E p \in T : p.item = o.item,
         \A p \in T : \E o \in S : o.item = p.item
  PROVE  IsFiniteSet(T) /\ Cardinality(T) = Cardinality(S)
<1> DEFINE f == [o \in S |-> CHOOSE p \in T : p.item = o.item]
<1>1. \A o \in S : f[o] \in T /\ f[o].item = o.item
  OBVIOUS
<1>2. f \in [S -> T]
  BY <1>1
<1> HIDE DEF f
<1>3. f \in Injection(S, T)
  BY <1>1, <1>2 DEF Injection, IsInjective, DistinctItems
<1>4. f \in Surjection(S, T)
  BY <1>1, <1>2 DEF Surjection, DistinctItems
<1>5. QED
  BY <1>3, <1>4, FS_Bijection DEF ExistsBijection, Bijection

LEMMA AgedProperties ==
  ASSUME NEW S \in SUBSET Dispatched, IsFiniteSet(S), DistinctItems(S)
  PROVE  /\ Aged(S) \subseteq Dispatched
         /\ IsFiniteSet(Aged(S)) /\ DistinctItems(Aged(S))
         /\ Cardinality(Aged(S)) = Cardinality(S)
<1>1. \A o \in S : [o EXCEPT !.old = TRUE] \in Dispatched /\ [o EXCEPT !.old = TRUE].item = o.item
  BY DEF Dispatched
<1>2. Aged(S) \subseteq Dispatched
  BY <1>1 DEF Aged
<1>3. DistinctItems(Aged(S))
  <2> SUFFICES ASSUME NEW o \in Aged(S), NEW p \in Aged(S), o.item = p.item PROVE o = p
    BY DEF DistinctItems
  <2>1. PICK o1 \in S : o = [o1 EXCEPT !.old = TRUE]
    BY DEF Aged
  <2>2. PICK p1 \in S : p = [p1 EXCEPT !.old = TRUE]
    BY DEF Aged
  <2>3. o1 = p1
    BY <1>1, <2>1, <2>2 DEF DistinctItems
  <2>4. QED
    BY <2>1, <2>2, <2>3
<1>4. /\ \A o \in S : \E p \in Aged(S) : p.item = o.item
      /\ \A p \in Aged(S) : \E o \in S : o.item = p.item
  BY <1>1 DEF Aged
<1>5. QED
  BY <1>2, <1>3, <1>4, SameItems

\* A window keeps its size and holds only what was in it or is recorded.
LEMMA RecordProperties ==
  ASSUME NEW E, NEW s \in Seq(E), Len(s) <= SampleWindow, NEW o \in E
  PROVE  /\ RecordOutcome(s, o) \in Seq(E)
         /\ Len(RecordOutcome(s, o)) <= SampleWindow
         /\ \A i \in DOMAIN RecordOutcome(s, o) :
              RecordOutcome(s, o)[i] = o \/ \E j \in DOMAIN s : RecordOutcome(s, o)[i] = s[j]
<1> USE BreakerAssumption
<1>1. CASE SampleWindow = 0
  BY <1>1 DEF RecordOutcome
<1>2. CASE SampleWindow # 0 /\ Len(s) >= SampleWindow
  <2>1. s # <<>> /\ Len(s) = SampleWindow
    BY <1>2
  <2>2. /\ Tail(s) \in Seq(E) /\ Len(Tail(s)) = Len(s) - 1
        /\ \A i \in 1 .. Len(s) - 1 : Tail(s)[i] = s[i + 1]
    BY <2>1
  <2>3. RecordOutcome(s, o) = Append(Tail(s), o)
    BY <1>2 DEF RecordOutcome
  <2>4. QED
    BY <2>1, <2>2, <2>3
<1>3. CASE SampleWindow # 0 /\ ~(Len(s) >= SampleWindow)
  BY <1>3 DEF RecordOutcome
<1>4. QED
  BY <1>1, <1>2, <1>3

LEMMA BreakerInitInv == BreakerInit => BreakerInv
<1> SUFFICES ASSUME BreakerInit PROVE BreakerInv
  OBVIOUS
<1>1. NoStaleVerdict
  BY BreakerAssumption DEF BreakerInit, NoStaleVerdict, BreakerTypeOK, Closed
<1>2. CountsExact
  BY FS_EmptySet DEF BreakerInit, CountsExact, DistinctItems
<1>3. StateExact
  BY DEF BreakerInit, StateExact, Closed
<1>4. QED
  BY <1>1, <1>2, <1>3 DEF BreakerInv

LEMMA BreakerUpdateReadyInv == BreakerInv /\ BreakerUpdateReady => BreakerInv'
<1> SUFFICES ASSUME BreakerInv, BreakerUpdateReady PROVE BreakerInv'
  OBVIOUS
<1>1. state' = HalfOpen /\ UNCHANGED <<samples, breaker_in_flight, slots_used, outstanding, since>>
  BY DEF BreakerUpdateReady
<1>2. since = CoolDown
  BY BreakerAssumption DEF BreakerInv, StateExact, BreakerUpdateReady, NoStaleVerdict, BreakerTypeOK
<1>3. NoStaleVerdict' /\ StateExact'
  BY <1>1, <1>2 DEF BreakerInv, NoStaleVerdict, BreakerTypeOK, StateExact, HalfOpen
<1>4. QED
  BY <1>1, <1>3 DEF BreakerInv, CountsExact

LEMMA BreakerTakeNextInv ==
  ASSUME BreakerInv, NEW item \in Items, BreakerTakeNext(item)
  PROVE  /\ BreakerInv'
         /\ state.kind = "Closed" \/ (since = CoolDown /\ outstanding = {})
<1> DEFINE o == [item |-> item, old |-> FALSE, lag |-> Running]
<1> USE BreakerAssumption
<1>1. /\ outstanding' = outstanding \cup {o}
      /\ UNCHANGED <<samples, since>>
      /\ breaker_in_flight' = breaker_in_flight + 1 /\ slots_used' = slots_used + 1
      /\ slots_used < Cap
      /\ \A p \in outstanding : p.item # item
  BY DEF BreakerTakeNext
<1>2. o \in Dispatched /\ o.item = item /\ ~o.old
  BY DEF Dispatched, Running
<1> HIDE DEF o
<1>3. o \notin outstanding
  BY <1>1, <1>2
<1>4. CountsExact'
  <2>1. /\ IsFiniteSet(outstanding)
        /\ breaker_in_flight = Cardinality(outstanding) /\ slots_used = Cardinality(outstanding)
        /\ DistinctItems(outstanding)
    BY DEF BreakerInv, CountsExact
  <2>2. IsFiniteSet(outstanding') /\ Cardinality(outstanding') = Cardinality(outstanding) + 1
    BY <1>1, <1>3, <2>1, FS_AddElement
  <2>3. DistinctItems(outstanding')
    BY <1>1, <1>2, <2>1 DEF DistinctItems
  <2>4. QED
    BY <1>1, <2>1, <2>2, <2>3 DEF CountsExact
<1>5. /\ breaker_in_flight' \in 0 .. Cap /\ slots_used' \in 0 .. Cap
      /\ outstanding' \subseteq Dispatched
      /\ samples' \in Seq([ok : BOOLEAN, old : BOOLEAN]) /\ Len(samples') <= SampleWindow
      /\ since' \in 0 .. CoolDown
      /\ \A i \in DOMAIN samples' : ~samples'[i].old
  BY <1>1, <1>2 DEF BreakerInv, NoStaleVerdict, BreakerTypeOK, CountsExact
<1>6. CASE state.kind = "Closed" /\ UNCHANGED state
  <2>1. NoStaleVerdict'
    BY <1>5, <1>6 DEF BreakerInv, NoStaleVerdict, BreakerTypeOK
  <2>2. StateExact'
    BY <1>1, <1>2, <1>6 DEF BreakerInv, StateExact
  <2>3. QED
    BY <1>4, <1>6, <2>1, <2>2 DEF BreakerInv
<1>7. CASE state.kind = "HalfOpen" /\ MayProbe /\ state' = Probing
  <2>1. outstanding = {} /\ since = CoolDown
    BY <1>7, FS_EmptySet DEF BreakerInv, CountsExact, StateExact, MayProbe
  <2>2. outstanding' = {o}
    BY <1>1, <2>1
  <2>3. NoStaleVerdict'
    BY <1>2, <1>5, <1>7, <2>2 DEF NoStaleVerdict, BreakerTypeOK, Probing
  <2>4. StateExact'
    BY <1>7 DEF StateExact, Probing
  <2>5. QED
    BY <1>4, <2>1, <2>3, <2>4 DEF BreakerInv
<1>8. QED
  BY <1>6, <1>7 DEF BreakerTakeNext

\* A step that only rewrites the lags of what is outstanding.
LEMMA LagsInv ==
  ASSUME BreakerInv, outstanding' \subseteq Dispatched,
         UNCHANGED <<samples, breaker_in_flight, slots_used>>,
         \A o \in outstanding : \E p \in outstanding' : p.item = o.item /\ p.old = o.old,
         \A p \in outstanding' : \E o \in outstanding : o.item = p.item /\ p.old = o.old,
         DistinctItems(outstanding'),
         state' \in {Closed, HalfOpen, Probing} \cup {Open(n) : n \in 0 .. CoolDown},
         state'.kind = state.kind, since' \in 0 .. CoolDown,
         state'.kind = "Open" => state'.left + since' = CoolDown,
         state'.kind = "HalfOpen" => since' = CoolDown
  PROVE  /\ BreakerInv'
         /\ Cardinality(outstanding') = Cardinality(outstanding)
<1>1. /\ IsFiniteSet(outstanding) /\ DistinctItems(outstanding)
      /\ breaker_in_flight = Cardinality(outstanding) /\ slots_used = Cardinality(outstanding)
  BY DEF BreakerInv, CountsExact
<1>2. IsFiniteSet(outstanding') /\ Cardinality(outstanding') = Cardinality(outstanding)
  BY <1>1, SameItems
<1>3. CountsExact'
  BY <1>1, <1>2 DEF CountsExact
<1>4. StateExact'
  BY DEF BreakerInv, StateExact
<1>5. BreakerTypeOK' /\ \A i \in DOMAIN samples' : ~samples'[i].old
  BY DEF BreakerInv, NoStaleVerdict, BreakerTypeOK
<1>6. ASSUME state'.kind = "Probing"
      PROVE  \E p \in outstanding' : outstanding' = {p} /\ ~p.old
  <2>1. PICK o \in outstanding : outstanding = {o} /\ ~o.old
    BY <1>6 DEF BreakerInv, NoStaleVerdict
  <2>2. PICK p \in outstanding' : p.item = o.item /\ p.old = o.old
    OBVIOUS
  <2>3. \A q \in outstanding' : q = p
    BY <2>1, <2>2 DEF DistinctItems
  <2>4. QED
    BY <2>1, <2>2, <2>3
<1>7. QED
  BY <1>2, <1>3, <1>4, <1>5, <1>6 DEF BreakerInv, NoStaleVerdict

LEMMA FinishInv ==
  ASSUME BreakerInv, NEW o \in outstanding, Finish(o)
  PROVE  /\ BreakerInv'
         /\ Cardinality(outstanding') = Cardinality(outstanding)
<1> DEFINE p == [o EXCEPT !.lag = 0]
<1>1. /\ outstanding' = (outstanding \ {o}) \cup {p}
      /\ UNCHANGED <<state, samples, breaker_in_flight, slots_used, since>>
  BY DEF Finish
<1>2. o \in Dispatched /\ outstanding \subseteq Dispatched
  BY DEF BreakerInv, NoStaleVerdict, BreakerTypeOK
<1>3. p \in Dispatched /\ p.item = o.item /\ p.old = o.old
  BY <1>2, BreakerAssumption DEF Dispatched, Running
<1> HIDE DEF p
<1>4. outstanding' \subseteq Dispatched /\ DistinctItems(outstanding')
  BY <1>1, <1>2, <1>3 DEF BreakerInv, CountsExact, DistinctItems
<1>5. /\ \A q \in outstanding : \E r \in outstanding' : r.item = q.item /\ r.old = q.old
      /\ \A r \in outstanding' : \E q \in outstanding : q.item = r.item /\ r.old = q.old
  BY <1>1, <1>3
<1>6. /\ state' \in {Closed, HalfOpen, Probing} \cup {Open(n) : n \in 0 .. CoolDown}
      /\ state'.kind = state.kind /\ since' \in 0 .. CoolDown
      /\ state'.kind = "Open" => state'.left + since' = CoolDown
      /\ state'.kind = "HalfOpen" => since' = CoolDown
  BY <1>1 DEF BreakerInv, NoStaleVerdict, BreakerTypeOK, StateExact
<1>7. QED
  BY <1>1, <1>4, <1>5, <1>6, LagsInv

LEMMA BreakerTickInv ==
  ASSUME BreakerInv, BreakerTick
  PROVE  /\ BreakerInv'
         /\ Cardinality(outstanding') = Cardinality(outstanding)
<1> DEFINE Later(o) == [o EXCEPT !.lag = IF @ = Running THEN @ ELSE Older(@)]
<1> USE BreakerAssumption
<1>1. /\ outstanding' = {Later(o) : o \in outstanding}
      /\ UNCHANGED <<samples, breaker_in_flight, slots_used>>
      /\ since' = Older(since)
      /\ state' = IF state.kind = "Open" THEN Open(SaturatingDec(state.left)) ELSE state
  BY DEF BreakerTick
<1>2. outstanding \subseteq Dispatched
  BY DEF BreakerInv, NoStaleVerdict, BreakerTypeOK
<1>3. \A o \in Dispatched : Later(o) \in Dispatched /\ Later(o).item = o.item /\ Later(o).old = o.old
  BY DEF Dispatched, Older, Running
<1> HIDE DEF Later
<1>4. outstanding' \subseteq Dispatched
  BY <1>1, <1>2, <1>3
<1>5. DistinctItems(outstanding')
  <2> SUFFICES ASSUME NEW a \in outstanding', NEW b \in outstanding', a.item = b.item PROVE a = b
    BY DEF DistinctItems
  <2>1. PICK o \in outstanding : a = Later(o)
    BY <1>1
  <2>2. PICK p \in outstanding : b = Later(p)
    BY <1>1
  <2>3. o = p
    BY <1>2, <1>3, <2>1, <2>2 DEF BreakerInv, CountsExact, DistinctItems
  <2>4. QED
    BY <2>1, <2>2, <2>3
<1>6. /\ \A q \in outstanding : \E r \in outstanding' : r.item = q.item /\ r.old = q.old
      /\ \A r \in outstanding' : \E q \in outstanding : q.item = r.item /\ r.old = q.old
  BY <1>1, <1>2, <1>3
<1>7. since \in 0 .. CoolDown /\ since' \in 0 .. CoolDown /\ (since = CoolDown => since' = CoolDown)
  BY <1>1 DEF BreakerInv, NoStaleVerdict, BreakerTypeOK, Older
<1>8. /\ state' \in {Closed, HalfOpen, Probing} \cup {Open(n) : n \in 0 .. CoolDown}
      /\ state'.kind = state.kind
      /\ state'.kind = "Open" => state'.left + since' = CoolDown
      /\ state'.kind = "HalfOpen" => since' = CoolDown
  <2>1. CASE state.kind = "Open"
    <3>1. PICK n \in 0 .. CoolDown : state = Open(n)
      BY <2>1 DEF BreakerInv, NoStaleVerdict, BreakerTypeOK, Closed, HalfOpen, Probing, Open
    <3>2. n + since = CoolDown
      BY <2>1, <3>1 DEF BreakerInv, StateExact, Open
    <3>3. state' = Open(SaturatingDec(n))
      BY <1>1, <2>1, <3>1 DEF Open
    <3>4. SaturatingDec(n) \in 0 .. CoolDown /\ SaturatingDec(n) + since' = CoolDown
      BY <1>1, <1>7, <3>2 DEF SaturatingDec, Older
    <3>5. QED
      BY <2>1, <3>3, <3>4 DEF Open
  <2>2. CASE state.kind # "Open"
    BY <1>1, <1>7, <2>2 DEF BreakerInv, NoStaleVerdict, BreakerTypeOK, StateExact
  <2>3. QED
    BY <2>1, <2>2
<1>9. QED
  BY <1>1, <1>4, <1>5, <1>6, <1>7, <1>8, LagsInv

\* A completion: both counters follow what is outstanding, whatever becomes
\* of the state.
LEMMA CompletionCounts ==
  ASSUME BreakerInv, NEW o \in outstanding,
         slots_used' = SaturatingDec(slots_used), breaker_in_flight' = SaturatingDec(breaker_in_flight),
         \/ outstanding' = outstanding \ {o}
         \/ outstanding' = Aged(outstanding \ {o})
  PROVE  /\ CountsExact'
         /\ Cardinality(outstanding') = Cardinality(outstanding) - 1
         /\ Cardinality(outstanding) \in Nat
         /\ outstanding' \subseteq Dispatched
         /\ breaker_in_flight' \in 0 .. Cap /\ slots_used' \in 0 .. Cap
<1> DEFINE S == outstanding \ {o}
<1>1. /\ IsFiniteSet(outstanding) /\ DistinctItems(outstanding)
      /\ breaker_in_flight = Cardinality(outstanding) /\ slots_used = Cardinality(outstanding)
  BY DEF BreakerInv, CountsExact
<1>2. Cardinality(outstanding) \in Nat /\ Cardinality(outstanding) <= Cap
  BY <1>1, FS_CardinalityType, BreakerAssumption DEF BreakerInv, NoStaleVerdict, BreakerTypeOK
<1>3. IsFiniteSet(S) /\ Cardinality(S) = Cardinality(outstanding) - 1
  BY <1>1, FS_RemoveElement
<1>4. Cardinality(S) \in Nat
  BY <1>3, FS_CardinalityType
<1>5. S \in SUBSET Dispatched /\ DistinctItems(S)
  BY <1>1 DEF DistinctItems, BreakerInv, NoStaleVerdict, BreakerTypeOK
<1>6. /\ IsFiniteSet(outstanding') /\ DistinctItems(outstanding')
      /\ Cardinality(outstanding') = Cardinality(S) /\ outstanding' \subseteq Dispatched
  BY <1>3, <1>5, AgedProperties
<1> HIDE DEF S
<1>7. breaker_in_flight' = Cardinality(S) /\ slots_used' = Cardinality(S)
  BY <1>1, <1>2, <1>3, <1>4 DEF SaturatingDec
<1>8. CountsExact'
  BY <1>6, <1>7 DEF CountsExact
<1>9. QED
  BY <1>2, <1>3, <1>4, <1>6, <1>7, <1>8, BreakerAssumption

LEMMA OpensInv ==
  ASSUME NEW lag \in 0 .. CoolDown, OpenBreaker(lag), CountsExact',
         outstanding' \subseteq Dispatched, breaker_in_flight' \in 0 .. Cap, slots_used' \in 0 .. Cap
  PROVE  BreakerInv'
<1> USE BreakerAssumption
<1>1. state' = Open(CoolDown - lag) /\ samples' = <<>> /\ since' = lag
  BY DEF OpenBreaker
<1>2. CoolDown - lag \in 0 .. CoolDown
  OBVIOUS
<1>3. NoStaleVerdict'
  BY <1>1, <1>2 DEF NoStaleVerdict, BreakerTypeOK, Open
<1>4. StateExact'
  BY <1>1 DEF StateExact, Open
<1>5. QED
  BY <1>3, <1>4 DEF BreakerInv

LEMMA OnCompleteInv ==
  ASSUME BreakerInv, NEW o \in outstanding, NEW ok \in BOOLEAN, BreakerOnComplete(o, ok)
  PROVE  /\ BreakerInv'
         /\ Cardinality(outstanding) \in Nat
         /\ Cardinality(outstanding') = Cardinality(outstanding) - 1
<1> USE BreakerAssumption
<1>1. /\ outstanding' = outstanding \ {o} \/ outstanding' = Aged(outstanding \ {o})
      /\ slots_used' = SaturatingDec(slots_used) /\ breaker_in_flight' = SaturatingDec(breaker_in_flight)
  BY DEF BreakerOnComplete, CompleteClosed, CompleteProbe, CompleteIgnored
<1>2. /\ CountsExact'
      /\ outstanding' \subseteq Dispatched
      /\ breaker_in_flight' \in 0 .. Cap /\ slots_used' \in 0 .. Cap
      /\ Cardinality(outstanding) \in Nat
      /\ Cardinality(outstanding') = Cardinality(outstanding) - 1
  BY <1>1, CompletionCounts
<1>3. o.lag \in 0 .. CoolDown /\ o.old \in BOOLEAN
  BY DEF BreakerOnComplete, BreakerInv, NoStaleVerdict, BreakerTypeOK, Dispatched, Running
<1>4. BreakerTypeOK
  BY DEF BreakerInv, NoStaleVerdict
<1>5. CASE CompleteClosed(o, ok)
  <2> DEFINE e == [ok |-> ok, old |-> o.old]
             s == RecordOutcome(samples, e)
  <2>1. CASE Trips(s)
    BY <1>2, <1>3, <1>5, <2>1, OpensInv DEF CompleteClosed
  <2>2. CASE ~Trips(s)
    <3>1. /\ samples' = s /\ outstanding' = outstanding \ {o} /\ UNCHANGED <<state, since>>
          /\ state.kind = "Closed"
      BY <1>5, <2>2 DEF CompleteClosed
    <3>2. ~o.old /\ \A p \in outstanding' : ~p.old
      BY <3>1 DEF BreakerInv, StateExact
    <3>3. e \in [ok : BOOLEAN, old : BOOLEAN] /\ ~e.old
      BY <1>3, <3>2
    <3> HIDE DEF e
    <3>4. /\ samples' \in Seq([ok : BOOLEAN, old : BOOLEAN]) /\ Len(samples') <= SampleWindow
          /\ \A i \in DOMAIN samples' :
                samples'[i] = e \/ \E j \in DOMAIN samples : samples'[i] = samples[j]
      <4> DEFINE E == [ok : BOOLEAN, old : BOOLEAN]
      <4>1. samples \in Seq(E) /\ Len(samples) <= SampleWindow /\ e \in E
        BY <1>4, <3>3 DEF BreakerTypeOK
      <4>2. /\ s \in Seq(E) /\ Len(s) <= SampleWindow
            /\ \A i \in DOMAIN s : s[i] = e \/ \E j \in DOMAIN samples : s[i] = samples[j]
        <5> HIDE DEF E
        <5>1. QED
          BY <4>1, RecordProperties
      <4> HIDE DEF s
      <4>3. QED
        BY <3>1, <4>2
    <3>5. \A i \in DOMAIN samples' : ~samples'[i].old
      BY <3>3, <3>4 DEF BreakerInv, NoStaleVerdict
    <3>6. NoStaleVerdict'
      BY <1>2, <1>4, <3>1, <3>4, <3>5 DEF NoStaleVerdict, BreakerTypeOK
    <3>7. StateExact'
      BY <3>1, <3>2 DEF StateExact
    <3>8. QED
      BY <1>2, <3>6, <3>7 DEF BreakerInv
  <2>3. QED
    BY <2>1, <2>2
<1>6. CASE CompleteProbe(o, ok)
  <2>1. CASE ~ok
    BY <1>2, <1>3, <1>6, <2>1, OpensInv DEF CompleteProbe
  <2>2. CASE ok
    <3>1. state' = Closed /\ samples' = <<>> /\ UNCHANGED since
      BY <1>6, <2>2 DEF CompleteProbe
    <3>2. outstanding' = {}
      <4>1. outstanding \ {o} = {}
        BY <1>6 DEF CompleteProbe, BreakerInv, NoStaleVerdict
      <4>2. QED
        BY <1>6, <4>1 DEF CompleteProbe, Aged
    <3>3. NoStaleVerdict' /\ StateExact'
      BY <1>2, <1>4, <3>1, <3>2 DEF NoStaleVerdict, BreakerTypeOK, StateExact, Closed
    <3>4. QED
      BY <1>2, <3>3 DEF BreakerInv
  <2>3. QED
    BY <2>1, <2>2
<1>7. CASE CompleteIgnored(o)
  <2>1. outstanding' = outstanding \ {o} /\ UNCHANGED <<state, samples, since>>
        /\ state.kind \in {"Open", "HalfOpen"}
    BY <1>7 DEF CompleteIgnored
  <2>2. NoStaleVerdict' /\ StateExact'
    BY <1>2, <2>1 DEF BreakerInv, NoStaleVerdict, BreakerTypeOK, StateExact
  <2>3. QED
    BY <1>2, <2>2 DEF BreakerInv
<1>8. QED
  BY <1>2, <1>5, <1>6, <1>7 DEF BreakerOnComplete

\* One step of the breaker: the invariant is kept, and only take_next, in a
\* closed breaker or as the probe after the cool-down, adds to what is
\* outstanding.
LEMMA BreakerStep ==
  ASSUME BreakerInv, [BreakerNext]_breakerVars
  PROVE  /\ BreakerInv'
         /\ Cardinality(outstanding') > Cardinality(outstanding) =>
              state.kind = "Closed" \/ (since = CoolDown /\ outstanding = {})
<1>1. Cardinality(outstanding) \in Nat
  BY FS_CardinalityType DEF BreakerInv, CountsExact
<1>2. CASE UNCHANGED breakerVars
  <2>1. outstanding' = outstanding
    BY <1>2 DEF breakerVars
  <2>2. BreakerInv'
    BY <1>2 DEF breakerVars, BreakerInv, NoStaleVerdict, BreakerTypeOK, CountsExact, StateExact
  <2>3. QED
    BY <1>1, <2>1, <2>2
<1>3. CASE BreakerUpdateReady
  <2>1. outstanding' = outstanding
    BY <1>3 DEF BreakerUpdateReady
  <2>2. QED
    BY <1>1, <1>3, <2>1, BreakerUpdateReadyInv
<1>4. ASSUME NEW item \in Items, BreakerTakeNext(item)
      PROVE  BreakerInv' /\ (state.kind = "Closed" \/ (since = CoolDown /\ outstanding = {}))
  BY <1>4, BreakerTakeNextInv
<1>5. ASSUME NEW o \in outstanding, Finish(o)
      PROVE  BreakerInv' /\ ~(Cardinality(outstanding') > Cardinality(outstanding))
  BY <1>1, <1>5, FinishInv
<1>6. ASSUME NEW o \in outstanding, NEW ok \in BOOLEAN, BreakerOnComplete(o, ok)
      PROVE  BreakerInv' /\ ~(Cardinality(outstanding') > Cardinality(outstanding))
  BY <1>1, <1>6, OnCompleteInv
<1>7. CASE BreakerTick
  BY <1>1, <1>7, BreakerTickInv
<1>8. QED
  BY <1>2, <1>3, <1>4, <1>5, <1>6, <1>7 DEF BreakerNext

\* In every state the counters of the breaker and of its concurrency cap are
\* the number of items outstanding, at most the cap, and the breaker's state
\* is true of the items and of the clock (circuit_breaker.rs,
\* bounded_concurrency.rs).
THEOREM BreakerInvariance == BreakerSpec => []BreakerInv
<1>1. BreakerInv /\ [BreakerNext]_breakerVars => BreakerInv'
  BY BreakerStep
<1>2. QED
  BY <1>1, BreakerInitInv, PTL DEF BreakerSpec

\* No verdict of the breaker rests on work dispatched before it last opened,
\* nothing is dispatched during the cool-down, and after it one probe on its
\* own, for every cap, window, threshold and cool-down (on_complete,
\* update_ready, take_next).
THEOREM BreakerCorrect == BreakerSpec => OpenMeansOpen
<1> DEFINE Step == /\ NoStaleVerdict'
                   /\ Cardinality(outstanding') > Cardinality(outstanding) =>
                        \/ state.kind = "Closed"
                        \/ since = CoolDown /\ outstanding = {}
<1>1. BreakerInv /\ [BreakerNext]_breakerVars => [Step]_breakerVars
  BY BreakerStep DEF BreakerInv
<1>2. QED
  BY <1>1, BreakerInvariance, PTL DEF BreakerSpec, OpenMeansOpen

-----------------------------------------------------------------------------
(* The token bucket.  Balances are products, so the arithmetic the argument *)
(* needs is stated once.                                                    *)

LEMMA Product ==
  /\ \A a, b \in Int : a * b \in Int /\ a * b = b * a
  /\ \A a, b \in Nat : a * b \in Nat
  /\ \A b \in Int : 0 * b = 0 /\ b * 0 = 0
OBVIOUS

LEMMA Distributes ==
  ASSUME NEW a \in Int, NEW b \in Int, NEW c \in Int
  PROVE  (a + b) * c = a * c + b * c /\ (a - b) * c = a * c - b * c
OBVIOUS

LEMMA Monotone ==
  ASSUME NEW a \in Int, NEW b \in Int, NEW c \in Nat, a <= b
  PROVE  a * c <= b * c
OBVIOUS

LEMMA MinOfTwo ==
  ASSUME NEW m \in Int, NEW n \in Int
  PROVE  MinOf(m, n) = IF m <= n THEN m ELSE n
<1> DEFINE r == IF m <= n THEN m ELSE n
<1>1. r \in {m, n} /\ \A y \in {m, n} : r <= y
  OBVIOUS
<1>2. \A x \in {m, n} : (\A y \in {m, n} : x <= y) => x = r
  OBVIOUS
<1>3. Min({m, n}) = r
  BY <1>1, <1>2 DEF Min
<1>4. QED
  BY <1>3 DEF MinOf

\* The tokens one item may take beyond those its gate asked for.
Overshoot == Positive(cost - MinOf(1, cfg.capacity))

\* The instants the bucket remembers are in order; the gate it remembers is
\* its first one or that of the child, and no more than that while in debt.
Remembered ==
  /\ last_refill <= last_now /\ last_now <= clock
  /\ fixed => admission_cost \in {1, Gate}
  /\ fixed /\ balance < 0 => admission_cost <= Gate

\* What was spent since the watch began and what is left came from a full
\* bucket and the accrual up to the last refill.
SpendingAccounted ==
  /\ ~fixed \/ last_refill < watch => spent = 0
  /\ fixed /\ cfg.interval # 0 /\ last_refill >= watch =>
       spent * cfg.interval + balance <=
         Scale(cfg.capacity, cfg) + cfg.amount * (last_refill - watch)

BucketInv == BucketTypeOK /\ DebtBounded /\ Remembered /\ SpendingAccounted

LEMMA ConfigNumbers ==
  ASSUME BucketTypeOK
  PROVE  /\ cfg.capacity \in Nat /\ cfg.amount \in Nat /\ cfg.interval \in Nat
         /\ cost \in Nat /\ Overshoot \in Nat /\ Gate \in Nat
         /\ Scale(cfg.capacity, cfg) \in Nat
<1>1. /\ cfg.capacity \in Nat /\ cfg.amount \in Nat /\ cfg.interval \in Nat
      /\ cost \in Nat /\ hinted \in BOOLEAN
  BY BucketAssumption DEF BucketTypeOK
<1>2. MinOf(1, cfg.capacity) \in Nat
  BY <1>1, MinOfTwo
<1>3. Overshoot \in Nat
  BY <1>1, <1>2 DEF Overshoot, Positive
<1>4. Gate \in Nat
  BY <1>1, MinOfTwo DEF Gate
<1>5. QED
  BY <1>1, <1>3, <1>4, Product DEF Scale

\* A refill adds the accrual since the last one, up to the capacity.
LEMMA RefillProperties ==
  ASSUME BucketTypeOK, NEW now \in Int, last_refill <= now
  PROVE  /\ Refilled(now) \in Int
         /\ Refilled(now) <= Scale(cfg.capacity, cfg)
         /\ balance <= Refilled(now)
         /\ cfg.interval # 0 =>
              Refilled(now) <= balance + (now - last_refill) * cfg.amount
         /\ RefilledAt(now) = now
<1> DEFINE full == Scale(cfg.capacity, cfg)
           gain == (now - last_refill) * cfg.amount
<1>1. /\ cfg.amount \in Nat /\ full \in Nat
      /\ balance \in Int /\ balance <= full /\ last_refill \in Int
  BY ConfigNumbers DEF BucketTypeOK
<1>2. gain \in Nat /\ (now = last_refill => gain = 0)
  <2>1. now - last_refill \in Nat
    BY <1>1
  <2>2. QED
    BY <1>1, <2>1, Product
<1>3. RefilledAt(now) = now
  BY <1>1 DEF RefilledAt
<1>4. CASE cfg.interval = 0
  BY <1>1, <1>3, <1>4 DEF Refilled
<1>5. CASE cfg.interval # 0
  <2>1. Refilled(now) = IF now <= last_refill THEN balance ELSE MinOf(balance + gain, full)
    BY <1>5 DEF Refilled
  <2> HIDE DEF full, gain
  <2>2. MinOf(balance + gain, full) = IF balance + gain <= full THEN balance + gain ELSE full
    BY <1>1, <1>2, MinOfTwo
  <2>3. /\ Refilled(now) \in Int /\ Refilled(now) <= full /\ balance <= Refilled(now)
        /\ Refilled(now) <= balance + gain
    BY <1>1, <1>2, <2>1, <2>2
  <2>4. QED
    BY <1>3, <2>3 DEF full, gain
<1>6. QED
  BY <1>4, <1>5

\* The refill a scan makes, without its charge, keeps the account.
LEMMA RefillAccounted ==
  ASSUME BucketInv, NEW now \in 0 .. MaxTime, last_refill <= now,
         fixed, cfg.interval # 0, now >= watch
  PROVE  spent * cfg.interval + Refilled(now) <=
           Scale(cfg.capacity, cfg) + cfg.amount * (now - watch)
<1> DEFINE full == Scale(cfg.capacity, cfg)
           paid == spent * cfg.interval
<1>1. /\ cfg.amount \in Nat /\ cfg.interval \in Nat /\ full \in Nat
      /\ balance \in Int /\ last_refill \in Int /\ watch \in Int /\ spent \in Nat /\ now \in Int
  BY ConfigNumbers, BucketAssumption DEF BucketInv, BucketTypeOK
<1>2. /\ Refilled(now) \in Int /\ Refilled(now) <= full
      /\ Refilled(now) <= balance + (now - last_refill) * cfg.amount
  BY <1>1, RefillProperties DEF BucketInv
<1>3. paid \in Int /\ (spent = 0 => paid = 0)
  BY <1>1, Product
<1>4. CASE last_refill < watch
  <2>1. paid = 0
    BY <1>3, <1>4 DEF BucketInv, SpendingAccounted
  <2>2. cfg.amount * (now - watch) \in Nat
    <3>1. now - watch \in Nat
      BY <1>1
    <3>2. QED
      BY <1>1, <3>1, Product
  <2> HIDE DEF paid, full
  <2>3. paid + Refilled(now) <= full + cfg.amount * (now - watch)
    BY <1>1, <1>2, <2>1, <2>2
  <2>4. QED
    BY <2>3 DEF paid, full
<1>5. CASE last_refill >= watch
  <2> DEFINE u == cfg.amount * (last_refill - watch)
             v == (now - last_refill) * cfg.amount
             w == cfg.amount * (now - watch)
  <2>1. u \in Int /\ v \in Int /\ w \in Int
    BY <1>1, Product
  <2>2. u + v = w
    <3>1. /\ u = (last_refill - watch) * cfg.amount
          /\ w = (now - watch) * cfg.amount
      BY <1>1, Product
    <3>2. (last_refill - watch) + (now - last_refill) = now - watch
      BY <1>1
    <3>3. ((last_refill - watch) + (now - last_refill)) * cfg.amount =
             (last_refill - watch) * cfg.amount + v
      BY <1>1, Distributes
    <3>4. QED
      BY <3>1, <3>2, <3>3
  <2>3. paid + balance <= full + u
    BY <1>5 DEF BucketInv, SpendingAccounted
  <2> HIDE DEF paid, full, u, v, w
  <2>4. paid + Refilled(now) <= full + w
    BY <1>1, <1>2, <1>3, <2>1, <2>2, <2>3 DEF v
  <2>5. QED
    BY <2>4 DEF paid, full, w
<1>6. QED
  BY <1>1, <1>4, <1>5

\* What a gate leaves uncovered of an item's cost is at most the overshoot.
LEMMA GateSuffices ==
  ASSUME BucketTypeOK
  PROVE  /\ Gate + Overshoot >= cost /\ 1 + Overshoot >= cost
         /\ Gate <= cfg.capacity
         /\ cfg.capacity > 0 /\ cost > 0 => Gate >= 1
<1>1. cfg.capacity \in Nat /\ cost \in Nat /\ hinted \in BOOLEAN
  BY ConfigNumbers DEF BucketTypeOK
<1>2. MinOf(1, cfg.capacity) = IF 1 <= cfg.capacity THEN 1 ELSE cfg.capacity
  BY <1>1, MinOfTwo
<1>3. Overshoot >= cost - MinOf(1, cfg.capacity) /\ Overshoot \in Nat
  BY <1>1, <1>2, ConfigNumbers DEF Overshoot, Positive
<1>4. \A n \in Nat : MinOf(n, cfg.capacity) = IF n <= cfg.capacity THEN n ELSE cfg.capacity
  BY <1>1, MinOfTwo
<1>5. Gate = IF hinted THEN MinOf(cost, cfg.capacity) ELSE MinOf(1, cfg.capacity)
  BY DEF Gate
<1>6. QED
  BY <1>1, <1>2, <1>3, <1>4, <1>5

\* The division rounds up: the number of instants is the least one whose
\* accrual covers the deficit.
LEMMA RoundsUp ==
  ASSUME NEW d \in Nat, NEW a \in Nat \ {0}
  PROVE  LET q == (d + (a - 1)) \div a
         IN  /\ q \in Nat /\ q * a >= d
             /\ d > 0 => q > 0
             /\ \A n \in Nat : n * a >= d => n >= q
<1> DEFINE q == (d + (a - 1)) \div a
<1>1. q \in Nat /\ q * a >= d /\ (q - 1) * a < d
  OBVIOUS
<1> HIDE DEF q
<1>2. d > 0 => q > 0
  BY <1>1
<1>3. ASSUME NEW n \in Nat, n * a >= d, ~(n >= q) PROVE FALSE
  <2>1. n <= q - 1
    BY <1>1, <1>3
  <2>2. n * a <= (q - 1) * a
    BY <1>1, <2>1, Monotone
  <2>3. QED
    BY <1>1, <1>3, <2>2
<1>4. QED
  BY <1>1, <1>2, <1>3 DEF q

LEMMA CoveredType ==
  ASSUME BucketTypeOK, NEW c \in Nat, NEW bal \in Int, NEW at \in Nat
  PROVE  CoveredAt(c, bal, at) \in Nat \cup {None}
<1> DEFINE deficit == Scale(c, cfg) - bal
<1>1. cfg.interval \in Nat /\ cfg.amount \in Nat
  BY ConfigNumbers
<1>2. deficit \in Int
  BY <1>1, Product DEF Scale
<1>3. CoveredAt(c, bal, at) = IF deficit <= 0 THEN at
        ELSE IF cfg.amount = 0 \/ cfg.interval = 0 THEN None
        ELSE at + ((deficit + (cfg.amount - 1)) \div cfg.amount)
  BY DEF CoveredAt
<1> HIDE DEF deficit
<1>4. CASE deficit > 0 /\ cfg.amount # 0
  BY <1>1, <1>2, <1>3, <1>4, RoundsUp
<1>5. QED
  BY <1>1, <1>2, <1>3, <1>4

LEMMA BucketInitInv == BucketInit => BucketInv
<1> SUFFICES ASSUME BucketInit PROVE BucketInv
  OBVIOUS
<1>1. cfg.capacity \in Nat /\ cfg.interval \in Nat /\ cfg.amount \in Nat
  BY BucketAssumption DEF BucketInit
<1>2. balance = Scale(cfg.capacity, cfg) /\ balance \in Nat
  BY <1>1, Product DEF BucketInit, Scale
<1>3. BucketTypeOK
  <2>1. report.ready \in BOOLEAN /\ report.at \in Nat \cup {None}
    BY DEF BucketInit
  <2>2. scanning \in BOOLEAN /\ fixed \in BOOLEAN /\ hinted \in BOOLEAN
    BY DEF BucketInit
  <2>3. /\ cfg \in Configs /\ cost \in Costs /\ depth \in 0 .. MaxDepth /\ clock \in 0 .. MaxTime
        /\ last_refill \in 0 .. MaxTime /\ last_now \in 0 .. MaxTime /\ watch \in 0 .. MaxTime
        /\ admission_cost \in Nat /\ spent \in Nat
    BY BucketAssumption DEF BucketInit
  <2>4. balance \in Int /\ balance <= Scale(cfg.capacity, cfg)
    BY <1>2
  <2>5. QED
    BY <2>1, <2>2, <2>3, <2>4 DEF BucketTypeOK
<1>4. DebtBounded
  <2>1. Overshoot \in Nat
    BY <1>3, ConfigNumbers
  <2>2. Scale(Overshoot, cfg) \in Nat
    BY <1>1, <2>1, Product DEF Scale
  <2>3. QED
    BY <1>2, <2>2 DEF DebtBounded, Overshoot
<1>5. Remembered
  BY <1>2 DEF BucketInit, Remembered
<1>6. SpendingAccounted
  <2>1. spent = 0 /\ last_refill = 0 /\ watch \in Nat
    BY BucketAssumption DEF BucketInit
  <2>2. spent * cfg.interval = 0 /\ cfg.amount * 0 = 0
    BY <1>1, <2>1, Product
  <2>3. last_refill >= watch => last_refill - watch = 0
    BY <2>1
  <2>4. QED
    BY <1>2, <2>1, <2>2, <2>3 DEF SpendingAccounted
<1>7. QED
  BY <1>3, <1>4, <1>5, <1>6 DEF BucketInv

\* A pass: the bucket is refilled at the instant of the scan.
LEMMA UpdateReadyInv ==
  ASSUME BucketInv, UpdateReady
  PROVE  BucketInv'
<1> DEFINE bal == Refilled(clock)
           at  == RefilledAt(clock)
<1>1. /\ balance' = bal /\ last_refill' = at /\ last_now' = clock /\ scanning' = TRUE
      /\ UNCHANGED <<cfg, cost, hinted, depth, clock, fixed, watch, spent>>
      /\ admission_cost' = admission_cost \/ admission_cost' = Gate
      /\ \/ report' = Ready
         \/ report' = NotReady(None)
         \/ report' = NotReady(CoveredAt(admission_cost, bal, at))
         \/ report' = NotReady(CoveredAt(Gate, bal, at))
  BY DEF UpdateReady
<1>2. BucketTypeOK /\ last_refill <= clock /\ clock \in 0 .. MaxTime /\ clock \in Nat
  BY BucketAssumption DEF BucketInv, BucketTypeOK, Remembered
<1>3. at = clock /\ bal \in Int /\ bal <= Scale(cfg.capacity, cfg) /\ balance <= bal
  BY <1>2, RefillProperties
<1> HIDE DEF bal, at
<1>4. Gate \in Nat /\ admission_cost \in Nat
  BY <1>2, ConfigNumbers DEF BucketTypeOK
<1>5. BucketTypeOK'
  <2>1. /\ CoveredAt(admission_cost, bal, at) \in Nat \cup {None}
        /\ CoveredAt(Gate, bal, at) \in Nat \cup {None}
    BY <1>2, <1>3, <1>4, CoveredType
  <2>2. report'.ready \in BOOLEAN /\ report'.at \in Nat \cup {None}
    <3>1. report'.at \in Nat \cup {None}
      BY <1>1, <2>1 DEF Ready, NotReady
    <3>2. report'.ready = TRUE \/ report'.ready = FALSE
      BY <1>1 DEF Ready, NotReady
    <3>3. QED
      BY <3>1, <3>2
  <2>3. QED
    BY <1>1, <1>2, <1>3, <1>4, <2>2 DEF BucketTypeOK
<1>6. Gate' = Gate /\ DebtBounded' /\ Remembered'
  <2>1. Gate' = Gate
    BY <1>1 DEF Gate
  <2>2. Remembered'
    BY <1>1, <1>2, <1>3, <1>4, <2>1 DEF BucketInv, Remembered, BucketTypeOK
  <2>3. DebtBounded'
    <3> DEFINE floor == -Scale(Positive(cost - MinOf(1, cfg.capacity)), cfg)
    <3>1. floor \in Int
      <4>1. Overshoot \in Nat /\ cfg.interval \in Nat
        BY <1>2, ConfigNumbers
      <4>2. QED
        BY <4>1, Product DEF Overshoot, Scale
    <3>2. floor' = floor
      BY <1>1
    <3>3. (fixed => balance >= floor) /\ balance \in Int
      BY <1>2 DEF BucketInv, DebtBounded, BucketTypeOK
    <3> HIDE DEF floor
    <3>4. fixed' => balance' >= floor'
      BY <1>1, <1>3, <3>1, <3>2, <3>3
    <3>5. QED
      BY <3>4 DEF DebtBounded, floor
  <2>4. QED
    BY <2>1, <2>2, <2>3
<1>7. SpendingAccounted'
  <2>1. ~fixed' \/ last_refill' < watch' => spent' = 0
    BY <1>1, <1>2, <1>3 DEF BucketInv, SpendingAccounted, BucketTypeOK
  <2>2. ASSUME fixed', cfg'.interval # 0, last_refill' >= watch'
        PROVE  spent' * cfg'.interval + balance' <=
                 Scale(cfg'.capacity, cfg') + cfg'.amount * (last_refill' - watch')
    <3>1. spent * cfg.interval + Refilled(clock) <=
             Scale(cfg.capacity, cfg) + cfg.amount * (clock - watch)
      BY <1>1, <1>2, <1>3, <2>2, RefillAccounted
    <3>2. QED
      BY <1>1, <1>3, <3>1 DEF bal
  <2>3. QED
    BY <2>1, <2>2 DEF SpendingAccounted
<1>8. QED
  BY <1>5, <1>6, <1>7 DEF BucketInv

\* An item taken is charged in full, against the balance its gate covered.
LEMMA TakeNextInv ==
  ASSUME BucketInv, BucketTakeNext
  PROVE  BucketInv'
<1> DEFINE bal == Refilled(last_now)
           at  == RefilledAt(last_now)
           admit == Covers(bal, admission_cost) /\ depth > 0
           charge == cost * cfg.interval
           over == Overshoot * cfg.interval
<1>1. /\ last_refill' = at /\ scanning' = FALSE
      /\ balance' = IF admit THEN bal - charge ELSE bal
      /\ depth' = IF admit THEN depth - 1 ELSE depth
      /\ spent' = IF admit /\ Counted THEN spent + cost ELSE spent
      /\ UNCHANGED <<cfg, cost, hinted, last_now, admission_cost, report, clock, fixed, watch>>
  BY DEF BucketTakeNext, Scale
<1>2. /\ BucketTypeOK /\ last_refill <= last_now /\ last_now \in 0 .. MaxTime
      /\ last_now \in Nat /\ watch \in Nat /\ spent \in Nat /\ admission_cost \in Nat
      /\ last_refill \in Nat
  BY BucketAssumption DEF BucketInv, BucketTypeOK, Remembered
<1>3. at = last_now /\ bal \in Int /\ bal <= Scale(cfg.capacity, cfg) /\ balance <= bal
  BY <1>2, RefillProperties
<1>4. /\ cost \in Nat /\ cfg.interval \in Nat /\ charge \in Nat /\ Overshoot \in Nat
      /\ Gate \in Nat /\ cfg.capacity \in Nat /\ over \in Nat /\ balance \in Int
      /\ cfg.amount \in Nat
  BY <1>2, ConfigNumbers, Product DEF BucketTypeOK
<1>5. admit => bal >= admission_cost * cfg.interval /\ depth > 0
  BY DEF Covers, Scale
<1>6. admission_cost * cfg.interval \in Nat /\ Scale(cfg.capacity, cfg) \in Nat
  BY <1>2, <1>4, ConfigNumbers, Product
<1> HIDE DEF bal, at, admit, charge, over
<1>7. BucketTypeOK'
  <2>1. balance' \in Int /\ balance' <= Scale(cfg.capacity, cfg) /\ spent' \in Nat
    BY <1>1, <1>2, <1>3, <1>4, <1>6
  <2>2. depth' \in 0 .. MaxDepth
    BY <1>1, <1>2, <1>5, BucketAssumption DEF BucketTypeOK
  <2>3. QED
    BY <1>1, <1>2, <1>3, <2>1, <2>2 DEF BucketTypeOK
<1>8. Gate' = Gate /\ Overshoot' = Overshoot
  BY <1>1 DEF Gate, Overshoot
<1>9. ASSUME fixed, admit PROVE bal - charge >= -over
  <2>1. admission_cost + Overshoot >= cost
    BY <1>2, <1>9, GateSuffices DEF BucketInv, Remembered
  <2>2. charge <= (admission_cost + Overshoot) * cfg.interval
    BY <1>2, <1>4, <2>1, Monotone DEF charge
  <2>3. (admission_cost + Overshoot) * cfg.interval = admission_cost * cfg.interval + over
    BY <1>2, <1>4, Distributes DEF over
  <2>4. QED
    BY <1>3, <1>4, <1>5, <1>6, <1>9, <2>2, <2>3
<1>10. DebtBounded'
  <2>1. fixed => balance >= -over
    BY DEF BucketInv, DebtBounded, Overshoot, over, Scale
  <2>2. fixed => balance' >= -over
    BY <1>1, <1>3, <1>4, <1>9, <2>1
  <2>3. DebtBounded' <=> (fixed' => balance' >= -(Overshoot' * cfg'.interval))
    BY DEF DebtBounded, Overshoot, Scale
  <2>4. QED
    BY <1>1, <1>8, <2>2, <2>3 DEF over
<1>11. Remembered'
  <2>1. ASSUME fixed, balance' < 0 PROVE admission_cost <= Gate
    <3>1. CASE balance < 0
      BY <2>1, <3>1 DEF BucketInv, Remembered
    <3>2. CASE ~(balance < 0) /\ admission_cost = Gate
      BY <1>4, <3>2
    <3>3. CASE ~(balance < 0) /\ admission_cost = 1
      <4>1. admit /\ charge > 0 /\ bal >= cfg.interval
        BY <1>1, <1>3, <1>4, <1>5, <2>1, <3>3
      <4>2. cost # 0 /\ cfg.interval # 0
        BY <1>4, <4>1 DEF charge
      <4>3. cfg.capacity # 0
        <5>1. cfg.capacity = 0 => Scale(cfg.capacity, cfg) = 0
          BY <1>4, Product DEF Scale
        <5>2. QED
          BY <1>3, <1>4, <4>1, <4>2, <5>1
      <4>4. QED
        BY <1>2, <1>4, <3>3, <4>2, <4>3, GateSuffices
    <3>4. QED
      BY <2>1, <3>1, <3>2, <3>3 DEF BucketInv, Remembered
  <2>2. QED
    BY <1>1, <1>2, <1>3, <1>8, <2>1 DEF BucketInv, Remembered, BucketTypeOK
<1>12. SpendingAccounted'
  <2>1. ~fixed' \/ last_refill' < watch' => spent' = 0
    BY <1>1, <1>2, <1>3 DEF BucketInv, SpendingAccounted, Counted
  <2>2. ASSUME fixed', cfg'.interval # 0, last_refill' >= watch'
        PROVE  spent' * cfg'.interval + balance' <=
                 Scale(cfg'.capacity, cfg') + cfg'.amount * (last_refill' - watch')
    <3> DEFINE limit == Scale(cfg.capacity, cfg) + cfg.amount * (last_now - watch)
    <3>1. spent * cfg.interval + bal <= limit
      BY <1>1, <1>2, <1>3, <2>2, RefillAccounted DEF bal
    <3>2. Counted
      BY <1>1, <1>3, <2>2 DEF Counted
    <3>3. spent * cfg.interval \in Nat /\ limit \in Int
      BY <1>2, <1>4, <1>6, Product
    <3>4. (spent + cost) * cfg.interval = spent * cfg.interval + charge
      BY <1>2, <1>4, Distributes DEF charge
    <3> HIDE DEF limit
    <3>5. spent' * cfg.interval + balance' <= limit
      <4>1. CASE admit
        <5>1. spent' = spent + cost /\ balance' = bal - charge
          BY <1>1, <3>2, <4>1
        <5>2. (spent + cost) * cfg.interval + (bal - charge) <= limit
          BY <1>3, <1>4, <3>1, <3>3, <3>4
        <5>3. QED
          BY <5>1, <5>2
      <4>2. CASE ~admit
        BY <1>1, <3>1, <4>2
      <4>3. QED
        BY <4>1, <4>2
    <3>6. QED
      BY <1>1, <1>3, <3>5 DEF limit
  <2>3. QED
    BY <2>1, <2>2 DEF SpendingAccounted
<1>13. QED
  BY <1>7, <1>10, <1>11, <1>12 DEF BucketInv

LEMMA Stopped ==
  ASSUME fixed' = FALSE, watch' = 0, spent' = 0
  PROVE  fixed' \in BOOLEAN /\ spent' \in Nat /\ watch' \in 0 .. MaxTime
<1>1. fixed' \in BOOLEAN
  OBVIOUS
<1>2. spent' \in Nat /\ watch' \in 0 .. MaxTime
  BY BucketAssumption
<1>3. QED
  BY <1>1, <1>2

LEMMA SetConfigInv ==
  ASSUME BucketInv, NEW c \in Configs, SetConfig(c)
  PROVE  BucketInv'
<1>1. /\ cfg' = c /\ balance' = Carried(c) /\ fixed' = FALSE /\ watch' = 0 /\ spent' = 0
      /\ UNCHANGED <<cost, hinted, last_refill, last_now, admission_cost, depth,
                     scanning, report, clock>>
  BY DEF SetConfig, StopCounting
<1>2. /\ cfg.capacity \in Nat /\ cfg.interval \in Nat /\ balance \in Int
      /\ c.capacity \in Nat /\ c.interval \in Nat
  BY BucketAssumption, ConfigNumbers DEF BucketInv, BucketTypeOK
<1>3. Available \in Int
  BY <1>2 DEF Available
<1>4. Scale(Available, c) \in Int /\ Scale(c.capacity, c) \in Int
  BY <1>2, <1>3, Product DEF Scale
<1>5. Carried(c) \in Int /\ Carried(c) <= Scale(c.capacity, c)
  BY <1>4, MinOfTwo DEF Carried
<1>6. BucketTypeOK'
  <2>1. fixed' \in BOOLEAN /\ spent' \in Nat /\ watch' \in 0 .. MaxTime
    BY <1>1, Stopped
  <2>2. balance' \in Int /\ balance' <= Scale(cfg'.capacity, cfg')
    BY <1>1, <1>5
  <2>3. QED
    BY <1>1, <2>1, <2>2 DEF BucketInv, BucketTypeOK
<1>7. DebtBounded' /\ Remembered' /\ SpendingAccounted'
  BY <1>1 DEF BucketInv, DebtBounded, Remembered, SpendingAccounted
<1>8. QED
  BY <1>6, <1>7 DEF BucketInv

LEMMA SetCostInv ==
  ASSUME BucketInv, NEW c \in Costs, SetCost(c)
  PROVE  BucketInv'
<1>1. /\ cost' = c /\ fixed' = FALSE /\ watch' = 0 /\ spent' = 0
      /\ UNCHANGED <<cfg, hinted, balance, last_refill, last_now, admission_cost, depth,
                     scanning, report, clock>>
  BY DEF SetCost, StopCounting
<1>2. fixed' \in BOOLEAN /\ spent' \in Nat /\ watch' \in 0 .. MaxTime
  BY <1>1, Stopped
<1>3. BucketTypeOK'
  BY <1>1, <1>2 DEF BucketInv, BucketTypeOK
<1>4. DebtBounded' /\ Remembered' /\ SpendingAccounted'
  BY <1>1 DEF BucketInv, DebtBounded, Remembered, SpendingAccounted
<1>5. QED
  BY <1>3, <1>4 DEF BucketInv

LEMMA PushTickInv ==
  ASSUME BucketInv, Push \/ Tick \/ UNCHANGED bucketVars
  PROVE  BucketInv'
<1>1. /\ UNCHANGED <<cfg, cost, hinted, balance, last_refill, last_now, admission_cost, report,
                     scanning, fixed, watch, spent>>
      /\ depth' \in 0 .. MaxDepth
      /\ clock' \in 0 .. MaxTime /\ clock <= clock' /\ clock \in Int /\ clock' \in Int
      /\ last_now \in Int
  BY BucketAssumption DEF Push, Tick, bucketVars, BucketInv, BucketTypeOK
<1>2. BucketTypeOK'
  BY <1>1 DEF BucketInv, BucketTypeOK
<1>3. Gate' = Gate
  BY <1>1 DEF Gate
<1>4. Remembered'
  BY <1>1, <1>3 DEF BucketInv, Remembered
<1>5. DebtBounded' /\ SpendingAccounted'
  BY <1>1 DEF BucketInv, DebtBounded, SpendingAccounted
<1>6. QED
  BY <1>2, <1>4, <1>5 DEF BucketInv

LEMMA BucketNextInv == BucketInv /\ [BucketNext]_bucketVars => BucketInv'
  BY UpdateReadyInv, TakeNextInv, SetConfigInv, SetCostInv, PushTickInv DEF BucketNext

\* The account of the bucket holds in every state: what was spent and what
\* is left came from a full bucket and the accrual, and the remembered gate
\* is one that bounds the debt (token_bucket.rs: refill, take_next, charge).
THEOREM BucketInvariance == BucketSpec => []BucketInv
<1>1. QED
  BY BucketInitInv, BucketNextInv, PTL DEF BucketSpec

\* In any period no more is spent than a full bucket, the accrual of the
\* period and the overshoot of one item, for every configuration, every cost
\* and every length of the run (token_bucket.rs).
THEOREM RateCorrect == BucketSpec => []RateConformance
<1>1. BucketInv => RateConformance
  <2> SUFFICES ASSUME BucketInv PROVE RateConformance
    OBVIOUS
  <2> DEFINE paid == spent * cfg.interval
             full == cfg.capacity * cfg.interval
             over == Overshoot * cfg.interval
             gain == cfg.amount * Positive(last_now - watch)
  <2>1. /\ cfg.capacity \in Nat /\ cfg.interval \in Nat /\ cfg.amount \in Nat
        /\ Overshoot \in Nat /\ spent \in Nat /\ balance \in Int
        /\ last_now \in Int /\ watch \in Int /\ last_refill \in Int
        /\ last_refill <= last_now
    BY ConfigNumbers, BucketAssumption DEF BucketInv, BucketTypeOK, Remembered
  <2>2. Positive(last_now - watch) \in Nat /\ last_now - watch <= Positive(last_now - watch)
    BY <2>1 DEF Positive
  <2>3. paid \in Nat /\ full \in Nat /\ over \in Nat /\ gain \in Nat
    BY <2>1, <2>2, Product
  <2>4. Scale(cfg.capacity + Overshoot, cfg) = full + over
    BY <2>1, Distributes DEF Scale
  <2>5. (spent = 0 => paid = 0) /\ (cfg.interval = 0 => paid = 0)
    BY <2>1, Product
  <2>6. ASSUME fixed, cfg.interval # 0, last_refill >= watch PROVE paid <= full + over + gain
    <3> DEFINE part == cfg.amount * (last_refill - watch)
    <3>1. paid + balance <= full + part
      BY <2>6 DEF BucketInv, SpendingAccounted, Scale
    <3>2. part \in Int /\ part <= gain
      <4>1. last_refill - watch <= Positive(last_now - watch)
        BY <2>1, <2>2
      <4>2. (last_refill - watch) * cfg.amount <= Positive(last_now - watch) * cfg.amount
        BY <2>1, <2>2, <4>1, Monotone
      <4>3. QED
        BY <2>1, <2>2, <4>2, Product
    <3>3. balance >= -over
      BY <2>6 DEF BucketInv, DebtBounded, Overshoot, Scale
    <3> HIDE DEF paid, full, over, gain, part
    <3>4. QED
      BY <2>1, <2>3, <3>1, <3>2, <3>3
  <2>7. ~(fixed /\ cfg.interval # 0 /\ last_refill >= watch) => paid = 0
    BY <2>1, <2>5 DEF BucketInv, SpendingAccounted
  <2>8. paid <= (full + over) + gain
    <3> HIDE DEF paid, full, over, gain
    <3>1. QED
      BY <2>3, <2>6, <2>7
  <2>9. QED
    BY <2>4, <2>8 DEF RateConformance, BucketInv, Overshoot
<1>2. QED
  BY <1>1, BucketInvariance, PTL

\* Between two instants the balance gains their accrual, or what is missing
\* to the capacity.
LEMMA Accrual ==
  ASSUME BucketTypeOK, NEW now \in Nat, last_refill <= now, NEW t \in Nat, now <= t,
         cfg.interval # 0
  PROVE  /\ Refilled(t) <= Refilled(now) + (t - now) * cfg.amount
         /\ \/ Refilled(t) = Scale(cfg.capacity, cfg)
            \/ Refilled(t) >= Refilled(now) + (t - now) * cfg.amount
<1> DEFINE full == Scale(cfg.capacity, cfg)
           early == (now - last_refill) * cfg.amount
           late == (t - now) * cfg.amount
           all == (t - last_refill) * cfg.amount
<1>1. /\ cfg.amount \in Nat /\ full \in Nat
      /\ balance \in Int /\ balance <= full /\ last_refill \in Int
  BY ConfigNumbers DEF BucketTypeOK
<1>2. early \in Nat /\ late \in Nat /\ all \in Nat /\ early + late = all
  <2>1. now - last_refill \in Nat /\ t - now \in Nat /\ t - last_refill \in Nat
    BY <1>1
  <2>2. ((now - last_refill) + (t - now)) * cfg.amount = early + late
    BY <1>1, Distributes
  <2>3. (now - last_refill) + (t - now) = t - last_refill
    BY <1>1
  <2>4. QED
    BY <1>1, <2>1, <2>2, <2>3, Product
<1>3. /\ now = last_refill => early = 0
      /\ t = last_refill => all = 0
  BY <1>1, Product
<1>4. /\ Refilled(now) = IF now <= last_refill THEN balance ELSE MinOf(balance + early, full)
      /\ Refilled(t) = IF t <= last_refill THEN balance ELSE MinOf(balance + all, full)
  BY DEF Refilled
<1> HIDE DEF full, early, late, all
<1>5. /\ MinOf(balance + early, full) = IF balance + early <= full THEN balance + early ELSE full
      /\ MinOf(balance + all, full) = IF balance + all <= full THEN balance + all ELSE full
  BY <1>1, <1>2, MinOfTwo
<1>6. /\ Refilled(t) <= Refilled(now) + late
      /\ Refilled(t) = full \/ Refilled(t) >= Refilled(now) + late
  BY <1>1, <1>2, <1>3, <1>4, <1>5
<1>7. QED
  BY <1>6 DEF late, full

\* covered_at names the first instant at which the tokens for c suffice, and
\* none only if no accrual will ever do.
LEMMA CoveredExact ==
  ASSUME BucketTypeOK, NEW now \in Nat, last_refill <= now, NEW c \in Nat,
         Refilled(now) < Scale(c, cfg)
  PROVE  LET at == CoveredAt(c, Refilled(now), now)
         IN  /\ at # None => at \in Nat /\ at > now
             /\ \A t \in Nat : t >= now /\ Refilled(t) >= Scale(c, cfg) =>
                   at # None /\ at <= t
             /\ at # None /\ c <= cfg.capacity => Refilled(at) >= Scale(c, cfg)
<1> DEFINE bal == Refilled(now)
           need == Scale(c, cfg)
           deficit == need - bal
           q == (deficit + (cfg.amount - 1)) \div cfg.amount
           at == CoveredAt(c, bal, now)
           full == Scale(cfg.capacity, cfg)
<1>1. /\ cfg.amount \in Nat /\ cfg.interval \in Nat /\ cfg.capacity \in Nat
      /\ need \in Nat /\ bal \in Int /\ full \in Nat
  BY ConfigNumbers, RefillProperties, Product DEF Scale
<1>2. deficit \in Nat /\ deficit > 0
  BY <1>1
<1>3. cfg.interval # 0
  <2>1. ASSUME cfg.interval = 0 PROVE FALSE
    <3>1. need = 0 /\ full = 0 /\ bal = full
      BY <1>1, <2>1, Product DEF Scale, Refilled
    <3>2. QED
      BY <1>1, <3>1
  <2>2. QED
    BY <2>1
<1>4. at = IF cfg.amount = 0 THEN None ELSE now + q
  BY <1>1, <1>2, <1>3 DEF CoveredAt
<1>5. \A t \in Nat : t >= now => bal + (t - now) * cfg.amount >= Refilled(t)
  BY <1>3, Accrual
<1>6. CASE cfg.amount = 0
  <2>1. ASSUME NEW t \in Nat, t >= now, Refilled(t) >= need PROVE FALSE
    <3>1. (t - now) * cfg.amount = 0
      BY <1>6, Product
    <3>2. Refilled(t) \in Int
      BY <2>1, RefillProperties DEF BucketTypeOK
    <3> HIDE DEF need, bal
    <3>3. QED
      BY <1>1, <1>2, <1>5, <2>1, <3>1, <3>2 DEF deficit
  <2>2. QED
    BY <1>4, <1>6, <2>1
<1>7. CASE cfg.amount # 0
  <2>1. /\ q \in Nat /\ q * cfg.amount >= deficit /\ q > 0
        /\ \A n \in Nat : n * cfg.amount >= deficit => n >= q
    BY <1>1, <1>2, <1>7, RoundsUp
  <2>2. at = now + q /\ at \in Nat /\ at > now /\ at # None
    BY <1>4, <1>7, <2>1 DEF None
  <2>3. ASSUME NEW t \in Nat, t >= now, Refilled(t) >= need PROVE at <= t
    <3>1. (t - now) \in Nat /\ (t - now) * cfg.amount \in Nat /\ Refilled(t) \in Int
      BY <1>1, <2>3, Product, RefillProperties DEF BucketTypeOK
    <3>2. (t - now) * cfg.amount >= deficit
      <4> HIDE DEF need, bal
      <4>1. QED
        BY <1>1, <1>5, <2>3, <3>1 DEF deficit
    <3>3. t - now >= q
      BY <2>1, <3>1, <3>2
    <3>4. QED
      BY <2>1, <2>2, <2>3, <3>3
  <2>4. ASSUME c <= cfg.capacity PROVE Refilled(at) >= need
    <3>1. need <= full
      BY <1>1, <2>4, Monotone DEF Scale
    <3>2. at - now = q /\ now <= at
      BY <2>1, <2>2
    <3>3. Refilled(at) = full \/ Refilled(at) >= bal + q * cfg.amount
      BY <1>3, <2>2, <3>2, Accrual
    <3>4. Refilled(at) \in Int /\ q * cfg.amount \in Nat
      BY <1>1, <2>1, <2>2, <3>2, Product, RefillProperties DEF BucketTypeOK
    <3> HIDE DEF need, bal, full, at, q
    <3>5. QED
      BY <1>1, <2>1, <3>1, <3>3, <3>4 DEF deficit
  <2>5. QED
    BY <2>2, <2>3, <2>4
<1>8. QED
  BY <1>6, <1>7

\* A pass that finds work but not the tokens for it names the instant to wake
\* up at: not past, not later than the first one that suffices, and one that
\* does suffice if the gate was recomputed (update_ready, covered_at).
THEOREM WakesCorrect == BucketSpec => WakesExactly
<1> DEFINE Step == scanning' # scanning /\ scanning' /\ depth > 0 /\ ~report'.ready =>
        /\ fixed =>
             /\ report'.at # None => report'.at > clock
             /\ \A t \in clock .. MaxTime :
                  Refilled(t) >= Scale(Gate, cfg) => report'.at # None /\ report'.at <= t
        /\ balance' >= 0 /\ report'.at # None =>
             Refilled(report'.at) >= Scale(Gate, cfg)
<1>1. ASSUME BucketInv, UpdateReady, depth > 0, ~report'.ready PROVE Step
  <2> DEFINE bal == Refilled(clock)
  <2>1. /\ BucketTypeOK /\ last_refill <= clock /\ clock \in Nat /\ MaxTime \in Nat
        /\ admission_cost \in Nat /\ Gate \in Nat /\ Gate <= cfg.capacity
        /\ cfg.interval \in Nat /\ balance \in Int
    BY <1>1, BucketAssumption, ConfigNumbers, GateSuffices DEF BucketInv, BucketTypeOK, Remembered
  <2>2. bal \in Int /\ RefilledAt(clock) = clock /\ balance' = bal /\ balance <= bal
    BY <1>1, <2>1, RefillProperties DEF UpdateReady
  <2>3. Scale(Gate, cfg) \in Nat /\ Scale(admission_cost, cfg) \in Nat
    BY <2>1, Product DEF Scale
  <2>4. CASE bal < 0 /\ report' = NotReady(CoveredAt(admission_cost, bal, clock))
    <3> DEFINE at == CoveredAt(admission_cost, bal, clock)
    <3>1. /\ at # None => at \in Nat /\ at > clock
          /\ \A t \in Nat : t >= clock /\ Refilled(t) >= Scale(admission_cost, cfg) =>
                at # None /\ at <= t
      <4>1. bal < Scale(admission_cost, cfg)
        BY <2>2, <2>3, <2>4
      <4>2. QED
        BY <2>1, <4>1, CoveredExact
    <3>2. fixed => Scale(admission_cost, cfg) <= Scale(Gate, cfg)
      <4>1. fixed => admission_cost <= Gate
        BY <1>1, <2>1, <2>2, <2>4 DEF BucketInv, Remembered
      <4>2. QED
        BY <2>1, <4>1, Monotone DEF Scale
    <3>3. \A t \in clock .. MaxTime : t \in Nat /\ t >= clock /\ Refilled(t) \in Int
      BY <2>1, RefillProperties DEF BucketTypeOK
    <3>4. report'.at = at
      BY <2>4 DEF NotReady
    <3>5. ~(balance' >= 0)
      BY <2>2, <2>4
    <3> HIDE DEF at, bal
    <3>6. QED
      BY <2>3, <3>1, <3>2, <3>3, <3>4, <3>5
  <2>5. CASE ~Covers(bal, Gate) /\ report' = NotReady(CoveredAt(Gate, bal, clock))
    <3> DEFINE at == CoveredAt(Gate, bal, clock)
    <3>1. bal < Scale(Gate, cfg)
      BY <2>2, <2>3, <2>5 DEF Covers
    <3>2. /\ at # None => at \in Nat /\ at > clock
          /\ \A t \in Nat : t >= clock /\ Refilled(t) >= Scale(Gate, cfg) =>
                at # None /\ at <= t
          /\ at # None => Refilled(at) >= Scale(Gate, cfg)
      BY <2>1, <3>1, CoveredExact
    <3>3. \A t \in clock .. MaxTime : t \in Nat /\ t >= clock
      BY <2>1
    <3>4. report'.at = at
      BY <2>5 DEF NotReady
    <3> HIDE DEF at, bal
    <3>5. QED
      BY <3>2, <3>3, <3>4
  <2>6. \/ bal < 0 /\ report' = NotReady(CoveredAt(admission_cost, bal, clock))
        \/ ~Covers(bal, Gate) /\ report' = NotReady(CoveredAt(Gate, bal, clock))
    BY <1>1, <2>1, <2>2 DEF UpdateReady, Ready, BucketTypeOK
  <2>7. QED
    BY <2>4, <2>5, <2>6
<1>2. ASSUME BucketInv, [BucketNext]_bucketVars, ~UpdateReady PROVE ~(scanning' # scanning /\ scanning')
  BY <1>2 DEF BucketNext, bucketVars, BucketTakeNext, SetConfig, SetCost, Push, Tick
<1>3. BucketInv /\ [BucketNext]_bucketVars => [Step]_bucketVars
  BY <1>1, <1>2
<1>4. QED
  BY <1>3, BucketInvariance, PTL DEF BucketSpec, WakesExactly
=============================================================================
