------------------------- MODULE BoundedQueueProofs -------------------------
(***************************************************************************)
(* Proofs about BoundedQueue, for every capacity, id range, order range,   *)
(* set of producers, works and runtimes, and also for a discipline that    *)
(* breaks its contract.                                                    *)
(***************************************************************************)
EXTENDS BoundedQueue, FiniteSetTheorems, SequenceFacts, TLAPS

\* The entries admitted before entry i.
Below(ents, i) == {j \in DOMAIN ents : ents[j].order < ents[i].order}

\* rebase_admitted_order numbers entries by rank: of two live entries the one
\* admitted later has strictly more entries before it.
LEMMA BelowGrows ==
  ASSUME NEW ents, IsFiniteSet(DOMAIN ents),
         \A i \in DOMAIN ents : ents[i].order \in Nat,
         NEW i \in DOMAIN ents, NEW j \in DOMAIN ents,
         ents[i].order < ents[j].order
  PROVE  /\ Cardinality(Below(ents, i)) < Cardinality(Below(ents, j))
         /\ Cardinality(Below(ents, i)) \in Nat
<1> DEFINE Bi == Below(ents, i)
           Bj == Below(ents, j)
<1>1. Bj \in SUBSET DOMAIN ents
  BY DEF Below
<1>2. IsFiniteSet(Bj)
  BY <1>1, FS_Subset
<1>3. Bi \in SUBSET Bj
  BY DEF Below
<1>4. i \in Bj /\ i \notin Bi
  BY DEF Below
<1>5. /\ IsFiniteSet(Bi)
      /\ Cardinality(Bi) <= Cardinality(Bj)
      /\ Cardinality(Bi) # Cardinality(Bj)
  BY <1>2, <1>3, <1>4, FS_Subset
<1>6. Cardinality(Bi) \in Nat /\ Cardinality(Bj) \in Nat
  BY <1>2, <1>5, FS_CardinalityType
<1>7. QED
  BY <1>5, <1>6

\* A rank is below the number of live entries, so the renumbered entries
\* leave room for the order of the next admission.
LEMMA RankBounded ==
  ASSUME NEW ents, IsFiniteSet(DOMAIN ents),
         \A i \in DOMAIN ents : ents[i].order \in Nat,
         NEW i \in DOMAIN ents
  PROVE  /\ Cardinality(Below(ents, i)) \in Nat
         /\ Cardinality(Below(ents, i)) < Cardinality(DOMAIN ents)
<1> DEFINE B == Below(ents, i)
<1>1. B \in SUBSET DOMAIN ents /\ i \notin B
  BY DEF Below
<1>2. /\ IsFiniteSet(B)
      /\ Cardinality(B) <= Cardinality(DOMAIN ents)
      /\ Cardinality(B) # Cardinality(DOMAIN ents)
  BY <1>1, FS_Subset
<1>3. Cardinality(B) \in Nat /\ Cardinality(DOMAIN ents) \in Nat
  BY <1>2, FS_CardinalityType
<1>4. QED
  BY <1>2, <1>3

\* A live entry: its admission order and its work.
Entry == [order : 0 .. OrderMax - 1, work : Works]

\* What rebase_admitted_order stores: each entry keeps its work and gets its
\* rank as its order.
LEMMA RebasedIsRank ==
  ASSUME NEW ents, IsFiniteSet(DOMAIN ents), ents \in [DOMAIN ents -> Entry]
  PROVE  /\ DOMAIN Rebased(ents) = DOMAIN ents
         /\ \A i \in DOMAIN ents :
              Rebased(ents)[i] = [order |-> Cardinality(Below(ents, i)), work |-> ents[i].work]
  BY DEF Rebased, Below, Entry

\* What InsertWork needs of the entries and the discipline it starts from.
Insertable(ents, disc) ==
  /\ DOMAIN ents \subseteq EntryIds
  /\ ents \in [DOMAIN ents -> Entry]
  /\ Cardinality(DOMAIN ents) < Capacity
  /\ disc \in Seq(EntryIds)
  /\ \A i \in DOMAIN ents : ents[i].order < next_order
  /\ \A i, j \in DOMAIN ents : ents[i].order = ents[j].order => i = j

\* The live ids are finitely many: they come from the range of entry ids.
LEMMA LiveFinite ==
  ASSUME NEW S \in SUBSET EntryIds
  PROVE  IsFiniteSet(S) /\ Cardinality(S) \in Nat
<1>1. IsFiniteSet(EntryIds)
  BY QueueAssumption, FS_Interval DEF EntryIds
<1>2. QED
  BY <1>1, FS_Subset, FS_CardinalityType

\* insert_work, whether or not it rebases, adds one entry under a fresh id,
\* keeps the other works, keeps orders distinct and below next_order, and
\* stays within the capacity.
LEMMA InsertWorkEffect ==
  ASSUME NEW ents, NEW disc, NEW w \in Works,
         next_order \in 0 .. OrderMax,
         Insertable(ents, disc), InsertWork(ents, disc, w)
  PROVE  /\ DOMAIN entries' \subseteq EntryIds
         /\ entries' \in [DOMAIN entries' -> Entry]
         /\ discipline' \in Seq(EntryIds)
         /\ next_id' \in EntryIds
         /\ next_order' \in 0 .. OrderMax
         /\ Cardinality(DOMAIN entries') <= Capacity
         /\ \A i \in DOMAIN entries' : entries'[i].order < next_order'
         /\ \A i, j \in DOMAIN entries' : entries'[i].order = entries'[j].order => i = j
         /\ \E id \in EntryIds \ DOMAIN ents :
              /\ DOMAIN entries' = DOMAIN ents \cup {id}
              /\ entries'[id].work = w
              /\ \A i \in DOMAIN ents : entries'[i].work = ents[i].work
              /\ discipline' = Append(disc, id)
              /\ \A i \in DOMAIN ents : entries'[i].order < entries'[id].order
              /\ \A i, j \in DOMAIN ents :
                   ents[i].order < ents[j].order => entries'[i].order < entries'[j].order
<1> DEFINE D     == DOMAIN ents
           full  == next_order = OrderMax
           base  == IF full THEN Rebased(ents) ELSE ents
           order == IF full THEN Cardinality(D) ELSE next_order
<1>1. PICK id \in EntryIds :
        /\ IsNextEntryId(ents, id)
        /\ next_id' = (id + 1) % IdSpan
        /\ next_order' = order + 1
        /\ discipline' = FifoPush(disc, id)
        /\ entries' = [i \in D \cup {id} |->
                         IF i = id THEN [order |-> order, work |-> w] ELSE base[i]]
  BY DEF InsertWork
<1>2. IsFiniteSet(D) /\ Cardinality(D) \in Nat /\ Cardinality(D) < OrderMax
  BY LiveFinite, QueueAssumption DEF Insertable
<1>3. id \notin D
  BY <1>1 DEF IsNextEntryId
<1>4. \A i \in D : ents[i].order \in Nat /\ ents[i].work \in Works
  BY QueueAssumption DEF Insertable, Entry
<1>5. order \in 0 .. OrderMax - 1
  BY <1>2, QueueAssumption
<1>6. \A i \in D : /\ base[i] \in Entry
                   /\ base[i].order < order
                   /\ base[i].work = ents[i].work
  <2>1. CASE full
    <3> SUFFICES ASSUME NEW i \in D
                 PROVE  /\ base[i] \in Entry
                        /\ base[i].order < order
                        /\ base[i].work = ents[i].work
      OBVIOUS
    <3>1. base[i] = [order |-> Cardinality(Below(ents, i)), work |-> ents[i].work]
      BY <2>1, <1>2, RebasedIsRank DEF Insertable
    <3>2. /\ Cardinality(Below(ents, i)) \in Nat
          /\ Cardinality(Below(ents, i)) < Cardinality(D)
      BY <1>2, <1>4, RankBounded
    <3>3. QED
      BY <2>1, <3>1, <3>2, <1>2, <1>4, QueueAssumption DEF Entry
  <2>2. CASE ~full
    BY <2>2 DEF Insertable
  <2>3. QED
    BY <2>1, <2>2
<1>7. \A i, j \in D : base[i].order = base[j].order => i = j
  <2>1. CASE full
    <3> SUFFICES ASSUME NEW i \in D, NEW j \in D, base[i].order = base[j].order, i # j
                 PROVE  FALSE
      OBVIOUS
    <3>1. Cardinality(Below(ents, i)) = Cardinality(Below(ents, j))
      <4>1. /\ base[i] = [order |-> Cardinality(Below(ents, i)), work |-> ents[i].work]
            /\ base[j] = [order |-> Cardinality(Below(ents, j)), work |-> ents[j].work]
        BY <2>1, <1>2, RebasedIsRank DEF Insertable
      <4>2. QED
        BY <4>1
    <3>2. ents[i].order < ents[j].order \/ ents[j].order < ents[i].order
      BY <1>4 DEF Insertable
    <3>3. QED
      BY <3>1, <3>2, <1>2, <1>4, BelowGrows
  <2>2. CASE ~full
    BY <2>2 DEF Insertable
  <2>3. QED
    BY <2>1, <2>2
<1>8. \A i, j \in D : ents[i].order < ents[j].order => base[i].order < base[j].order
  <2>1. CASE full
    <3> SUFFICES ASSUME NEW i \in D, NEW j \in D, ents[i].order < ents[j].order
                 PROVE  base[i].order < base[j].order
      OBVIOUS
    <3>1. /\ base[i] = [order |-> Cardinality(Below(ents, i)), work |-> ents[i].work]
          /\ base[j] = [order |-> Cardinality(Below(ents, j)), work |-> ents[j].work]
      BY <2>1, <1>2, RebasedIsRank DEF Insertable
    <3>2. QED
      BY <3>1, <1>2, <1>4, BelowGrows
  <2>2. CASE ~full
    BY <2>2
  <2>3. QED
    BY <2>1, <2>2
<1> HIDE DEF base, order
<1>9. /\ DOMAIN entries' = D \cup {id}
      /\ entries'[id] = [order |-> order, work |-> w]
      /\ \A i \in D : entries'[i] = base[i]
  BY <1>1, <1>3
<1>10. entries' \in [DOMAIN entries' -> Entry]
  BY <1>1, <1>5, <1>6 DEF Entry
<1>11. Cardinality(D \cup {id}) <= Capacity
  <2>1. Cardinality(D \cup {id}) = Cardinality(D) + 1
    BY <1>2, <1>3, FS_AddElement
  <2>2. QED
    BY <2>1, <1>2, QueueAssumption DEF Insertable
<1>12. next_id' \in EntryIds
  BY <1>1, QueueAssumption DEF EntryIds
<1>13. discipline' \in Seq(EntryIds)
  BY <1>1, AppendProperties DEF Insertable, FifoPush
<1>14. next_order' \in 0 .. OrderMax
  BY <1>1, <1>5, QueueAssumption
<1>15. \A i \in DOMAIN entries' : entries'[i].order < next_order'
  BY <1>1, <1>5, <1>6, <1>9, QueueAssumption DEF Entry
<1>16. \A i, j \in DOMAIN entries' : entries'[i].order = entries'[j].order => i = j
  BY <1>5, <1>6, <1>7, <1>9, QueueAssumption DEF Entry
<1>17. DOMAIN entries' \subseteq EntryIds
  BY <1>9 DEF Insertable
<1>18. \E k \in EntryIds \ D : /\ DOMAIN entries' = D \cup {k}
                               /\ entries'[k].work = w
                               /\ \A i \in D : entries'[i].work = ents[i].work
                               /\ discipline' = Append(disc, k)
                               /\ \A i \in D : entries'[i].order < entries'[k].order
                               /\ \A i, j \in D : ents[i].order < ents[j].order =>
                                                  entries'[i].order < entries'[j].order
  BY <1>1, <1>3, <1>6, <1>8, <1>9 DEF FifoPush
<1>19. QED
  BY <1>9, <1>10, <1>11, <1>12, <1>13, <1>14, <1>15, <1>16, <1>17, <1>18

-----------------------------------------------------------------------------
(***************************************************************************)
(* The inductive invariant: the properties of the runs, and what they rest *)
(* on.                                                                     *)
(***************************************************************************)

\* What a thread may owe after its unlock.
PendingType ==
  [kind : {"None", "WakeUp", "Drained", "Close"},
   sink : Runtimes \cup {NoRuntime}, id : 0 .. MaxQueueIds]

\* The hard capacity, a NonZeroUsize, is never exceeded.
CapacityHeld == Cardinality(Live) <= Capacity

\* No two live entries share an admission order, and none is at or above
\* the next order to be given out: oldest() and the fallback are well defined.
OrdersDistinct ==
  /\ \A i \in Live : entries[i].order < next_order
  /\ \A i, j \in Live : entries[i].order = entries[j].order => i = j

\* When the last producer handle is gone the queue is closed, or the thread
\* that dropped it is just about to close it: Drop can not forget to.
LastDropCloses ==
  handles = {} => lifecycle # "Open" \/ \E p \in Producers : pending[p] = CloseAfterDrop

\* A work is queued once, and not while it is running: each is owned once.
WorkUnique ==
  /\ \A i, j \in Live : entries[i].work = entries[j].work => i = j
  /\ \A i \in Live : entries[i].work \notin running

\* in_flight counts the running works, a finite set.
RunningCounted == IsFiniteSet(running) /\ InFlightExact

\* The atomic producer_count counts the handles that exist.
HandlesCounted == IsFiniteSet(handles) /\ producer_count = Cardinality(handles)

\* Thread t has taken the Drained event of attachment q to r, not yet emitted.
Announced(t, r, q) ==
  pending[t].kind = "Drained" /\ pending[t].sink = r /\ pending[t].id = q

\* That event was taken, whether or not it was emitted yet.
Reported(r, q) ==
  <<r, q>> \in delivered \/ \E t \in Threads : Announced(t, r, q)

\* Queue ids on the way or delivered were handed out before next_queue_id;
\* drained_event_sent says exactly whether the present attachment has taken
\* its event, and an attached drained queue always has.
EventsExact ==
  /\ event_sink # NoRuntime =>
       1 <= queue_id /\ queue_id < next_queue_id[event_sink]
  /\ \A t \in Threads : pending[t].kind = "Drained" =>
       /\ pending[t].sink \in Runtimes
       /\ 1 <= pending[t].id /\ pending[t].id < next_queue_id[pending[t].sink]
  /\ \A d \in delivered : d[2] < next_queue_id[d[1]]
  /\ drained_event_sent =>
       /\ event_sink # NoRuntime /\ lifecycle = "Drained"
       /\ \/ <<event_sink, queue_id>> \in delivered
          \/ \E t \in Threads : Announced(t, event_sink, queue_id)
  /\ ~drained_event_sent /\ event_sink # NoRuntime =>
       /\ lifecycle # "Drained"
       /\ <<event_sink, queue_id>> \notin delivered
       /\ \A t \in Threads : ~Announced(t, event_sink, queue_id)

\* No event is on its way twice, or again after its delivery.
OneAnnouncement ==
  \A r \in Runtimes, q \in 1 .. MaxQueueIds, t \in Threads :
    Announced(t, r, q) =>
      /\ <<r, q>> \notin delivered
      /\ \A u \in Threads : Announced(u, r, q) => u = t

\* The conjunction that every step of the queue preserves.
Inv ==
  /\ TypeOK
  /\ CapacityHeld
  /\ OrdersDistinct
  /\ WorkUnique
  /\ RunningCounted
  /\ HandlesCounted
  /\ LifecycleExact
  /\ LastDropCloses
  /\ EventsExact
  /\ OneAnnouncement
-----------------------------------------------------------------------------
\* The queue that build() returns satisfies the invariant.
LEMMA InitInv == Init => Inv
<1> SUFFICES ASSUME Init PROVE Inv
  OBVIOUS
<1>1. Live = {}
  BY DEF Init, Live
<1>2. TypeOK
  <2>1. entries \in [Live -> [order : 0 .. OrderMax - 1, work : Works]]
    BY <1>1 DEF Init, Live
  <2>2. discipline \in Seq(EntryIds)
    BY DEF Init
  <2>3. next_id \in EntryIds
    BY QueueAssumption DEF Init, EntryIds
  <2>4. pending \in [Threads -> PendingType]
    BY QueueAssumption DEF Init, Nothing, PendingType
  <2>5. next_queue_id \in [Runtimes -> 1 .. MaxQueueIds + 1]
    BY QueueAssumption DEF Init
  <2>6. drained_event_sent \in BOOLEAN /\ handles \subseteq Producers
    BY DEF Init
  <2>7. /\ in_flight \in Nat /\ producer_count \in Nat
        /\ rejections \in 0 .. CounterMax /\ evictions \in 0 .. CounterMax
        /\ next_order \in 0 .. OrderMax /\ queue_id \in 0 .. MaxQueueIds
    BY QueueAssumption DEF Init
  <2>8. /\ lifecycle \in {"Open", "Draining", "Drained"}
        /\ event_sink \in Runtimes \cup {NoRuntime}
        /\ running \subseteq Works
        /\ delivered \subseteq (Runtimes \X (1 .. MaxQueueIds))
    BY DEF Init
  <2>9. QED
    BY <1>1, <2>1, <2>2, <2>3, <2>4, <2>5, <2>6, <2>7, <2>8 DEF TypeOK, PendingType
<1>3. CapacityHeld
  BY <1>1, FS_EmptySet, QueueAssumption DEF CapacityHeld
<1>4. OrdersDistinct /\ WorkUnique
  BY <1>1 DEF OrdersDistinct, WorkUnique
<1>5. RunningCounted
  BY FS_EmptySet DEF Init, RunningCounted, InFlightExact
<1>6. HandlesCounted
  BY FS_Singleton DEF Init, HandlesCounted
<1>7. LifecycleExact /\ LastDropCloses
  BY DEF Init, LifecycleExact, LastDropCloses
<1>8. \A t \in Threads : pending[t].kind # "Drained"
  BY DEF Init, Nothing
<1>9. EventsExact /\ OneAnnouncement
  BY <1>8 DEF Init, EventsExact, OneAnnouncement, Announced
<1>10. QED
  BY <1>2, <1>3, <1>4, <1>5, <1>6, <1>7, <1>9 DEF Inv

\* A step that leaves the store alone keeps what is said of the store.
LEMMA StoreFrame ==
  ASSUME Inv, UNCHANGED <<entries, next_order, running, in_flight>>
  PROVE  CapacityHeld' /\ OrdersDistinct' /\ WorkUnique' /\ RunningCounted'
  BY DEF Inv, CapacityHeld, OrdersDistinct, WorkUnique, RunningCounted,
         InFlightExact, Live

\* A step that leaves the handles alone keeps their count.
LEMMA HandlesFrame ==
  ASSUME Inv, UNCHANGED <<handles, producer_count>>
  PROVE  HandlesCounted'
  BY DEF Inv, HandlesCounted

\* A step in which no thread takes or emits a Drained event keeps what is
\* said of the events.
LEMMA EventsFrame ==
  ASSUME Inv,
         UNCHANGED <<lifecycle, event_sink, queue_id, drained_event_sent,
                     delivered, next_queue_id>>,
         \A t \in Threads : \/ pending'[t] = pending[t]
                            \/ /\ pending'[t].kind # "Drained"
                               /\ pending[t].kind # "Drained"
  PROVE  EventsExact' /\ OneAnnouncement'
<1>1. EventsExact'
  BY DEF Inv, EventsExact, Announced
<1>2. OneAnnouncement'
  BY DEF Inv, OneAnnouncement, Announced
<1>3. QED
  BY <1>1, <1>2

\* What a push does beside inserting: the caller may owe a wake-up.
LEMMA PushFrame ==
  ASSUME Inv, NEW p \in Producers, NEW w, MayPush(p, w),
         pending' = pending \/ WakeIfFirst(p),
         UNCHANGED <<lifecycle, event_sink, queue_id, drained_event_sent,
                     producer_count, handles, running, in_flight, delivered,
                     next_queue_id>>
  PROVE  /\ HandlesCounted' /\ LifecycleExact' /\ LastDropCloses'
         /\ EventsExact' /\ OneAnnouncement' /\ RunningCounted'
         /\ pending' \in [Threads -> PendingType]
<1>1. p \in Threads /\ pending[p] = Nothing
  BY DEF MayPush, Idle, Threads
<1>2. pending' = pending \/ pending' = [pending EXCEPT ![p] = WakeUp(event_sink)]
  BY DEF WakeIfFirst
<1>3. pending' \in [Threads -> PendingType]
  <2>1. pending \in [Threads -> PendingType]
    BY DEF Inv, TypeOK, PendingType
  <2>2. WakeUp(event_sink) \in PendingType
    BY QueueAssumption DEF Inv, TypeOK, WakeUp, PendingType
  <2>3. QED
    BY <1>1, <1>2, <2>1, <2>2
<1>4. \A t \in Threads : \/ pending'[t] = pending[t]
                         \/ /\ pending'[t].kind # "Drained"
                            /\ pending[t].kind # "Drained"
  BY <1>1, <1>2 DEF Inv, TypeOK, WakeUp, Nothing
<1>5. EventsExact' /\ OneAnnouncement'
  BY <1>4, EventsFrame
<1>6. HandlesCounted'
  BY HandlesFrame
<1>7. LifecycleExact' /\ LastDropCloses'
  BY DEF MayPush, LifecycleExact, LastDropCloses
<1>8. RunningCounted'
  BY DEF Inv, RunningCounted, InFlightExact
<1>9. QED
  BY <1>3, <1>5, <1>6, <1>7, <1>8

\* try_push, admitted: keeps the invariant.
LEMMA PushAdmitInv ==
  ASSUME Inv, NEW p \in Producers, NEW w \in Works, PushAdmit(p, w)
  PROVE  Inv'
<1>1. Insertable(entries, discipline)
  BY DEF Inv, TypeOK, OrdersDistinct, Insertable, PushAdmit, HasRoom, Live, Entry
<1>2. next_order \in 0 .. OrderMax /\ InsertWork(entries, discipline, w)
  BY DEF Inv, TypeOK, PushAdmit
<1>3. /\ DOMAIN entries' \subseteq EntryIds
      /\ entries' \in [DOMAIN entries' -> Entry]
      /\ discipline' \in Seq(EntryIds)
      /\ next_id' \in EntryIds
      /\ next_order' \in 0 .. OrderMax
      /\ Cardinality(DOMAIN entries') <= Capacity
      /\ \A i \in DOMAIN entries' : entries'[i].order < next_order'
      /\ \A i, j \in DOMAIN entries' : entries'[i].order = entries'[j].order => i = j
  BY <1>1, <1>2, InsertWorkEffect
<1>4. PICK id \in EntryIds \ DOMAIN entries :
              /\ DOMAIN entries' = DOMAIN entries \cup {id}
              /\ entries'[id].work = w
              /\ \A i \in DOMAIN entries : entries'[i].work = entries[i].work
  BY <1>1, <1>2, InsertWorkEffect
<1>5. /\ HandlesCounted' /\ LifecycleExact' /\ LastDropCloses'
      /\ EventsExact' /\ OneAnnouncement' /\ RunningCounted'
      /\ pending' \in [Threads -> PendingType]
  BY PushFrame DEF PushAdmit
<1>6. TypeOK'
  BY <1>3, <1>5 DEF Inv, TypeOK, PushAdmit, Live, Entry, PendingType
<1>7. CapacityHeld' /\ OrdersDistinct'
  BY <1>3 DEF CapacityHeld, OrdersDistinct, Live
<1>8. WorkUnique'
  BY <1>4 DEF Inv, WorkUnique, PushAdmit, MayPush, Live, Queued
<1>9. QED
  BY <1>5, <1>6, <1>7, <1>8 DEF Inv

\* Removing a live entry (an eviction, take_entry) leaves the others as they
\* were and makes room for one.
LEMMA RemainingType ==
  ASSUME Inv, NEW id \in Live
  PROVE  /\ DOMAIN Remaining(id) = Live \ {id}
         /\ Remaining(id) \in [Live \ {id} -> Entry]
         /\ \A i \in Live \ {id} : Remaining(id)[i] = entries[i]
         /\ Cardinality(Live \ {id}) < Cardinality(Live)
         /\ Cardinality(Live \ {id}) < Capacity
<1>1. IsFiniteSet(Live) /\ Cardinality(Live) \in Nat
  BY LiveFinite DEF Inv, TypeOK
<1>2. Cardinality(Live \ {id}) = Cardinality(Live) - 1
  BY <1>1, FS_RemoveElement
<1>3. Remaining(id) \in [Live \ {id} -> Entry]
  BY DEF Inv, TypeOK, Remaining, Entry
<1>4. QED
  BY <1>1, <1>2, <1>3, QueueAssumption DEF Inv, CapacityHeld, Remaining

\* try_push, admitted in the place of a victim: keeps the invariant.
LEMMA PushEvictInv ==
  ASSUME Inv, NEW p \in Producers, NEW w \in Works, NEW id \in EntryIds,
         PushEvict(p, w, id)
  PROVE  Inv'
<1> DEFINE ents == Remaining(id)
           disc == RemoveFirst(discipline, id)
<1>1. id \in Live
  BY DEF PushEvict
<1>2. disc \in Seq(EntryIds)
  BY RemoveFirstType DEF Inv, TypeOK
<1>3. Insertable(ents, disc)
  BY ZenonT(90), <1>1, <1>2, RemainingType DEF Inv, TypeOK, OrdersDistinct, Insertable
<1>4. next_order \in 0 .. OrderMax /\ InsertWork(ents, disc, w)
  BY DEF Inv, TypeOK, PushEvict
<1> HIDE DEF ents, disc
<1>5. /\ DOMAIN entries' \subseteq EntryIds
      /\ entries' \in [DOMAIN entries' -> Entry]
      /\ discipline' \in Seq(EntryIds)
      /\ next_id' \in EntryIds
      /\ next_order' \in 0 .. OrderMax
      /\ Cardinality(DOMAIN entries') <= Capacity
      /\ \A i \in DOMAIN entries' : entries'[i].order < next_order'
      /\ \A i, j \in DOMAIN entries' : entries'[i].order = entries'[j].order => i = j
  BY <1>3, <1>4, InsertWorkEffect
<1>6. PICK new \in EntryIds \ DOMAIN ents :
              /\ DOMAIN entries' = DOMAIN ents \cup {new}
              /\ entries'[new].work = w
              /\ \A i \in DOMAIN ents : entries'[i].work = ents[i].work
  BY <1>3, <1>4, InsertWorkEffect
<1>7. \A i \in DOMAIN ents : i \in Live /\ ents[i] = entries[i]
  BY <1>1, RemainingType DEF ents
<1>8. /\ HandlesCounted' /\ LifecycleExact' /\ LastDropCloses'
      /\ EventsExact' /\ OneAnnouncement' /\ RunningCounted'
      /\ pending' \in [Threads -> PendingType]
  BY PushFrame DEF PushEvict
<1>9. evictions' \in 0 .. CounterMax
  BY QueueAssumption DEF Inv, TypeOK, PushEvict, SaturatingInc
<1>10. TypeOK'
  BY <1>5, <1>8, <1>9 DEF Inv, TypeOK, PushEvict, Live, Entry
<1>11. CapacityHeld' /\ OrdersDistinct'
  BY <1>5 DEF CapacityHeld, OrdersDistinct, Live
<1>12. WorkUnique'
  BY <1>6, <1>7 DEF Inv, WorkUnique, PushEvict, MayPush, Live, Queued
<1>13. QED
  BY <1>8, <1>10, <1>11, <1>12 DEF Inv

\* try_push, rejected: keeps the invariant.
LEMMA PushRejectInv ==
  ASSUME Inv, NEW p \in Producers, NEW w \in Works, PushReject(p, w)
  PROVE  Inv'
<1>1. rejections' \in 0 .. CounterMax
  BY QueueAssumption DEF Inv, TypeOK, PushReject, SaturatingInc
<1>2. TypeOK'
  BY <1>1 DEF Inv, TypeOK, PushReject, Live
<1>3. CapacityHeld' /\ OrdersDistinct' /\ WorkUnique' /\ RunningCounted'
  BY StoreFrame DEF PushReject
<1>4. /\ HandlesCounted' /\ LifecycleExact' /\ LastDropCloses'
      /\ EventsExact' /\ OneAnnouncement'
  BY PushFrame DEF PushReject
<1>5. QED
  BY <1>2, <1>3, <1>4 DEF Inv

\* QueueProducer::clone: keeps the invariant.
LEMMA CloneProducerInv ==
  ASSUME Inv, NEW p \in Producers, NEW q \in Producers, CloneProducer(p, q)
  PROVE  Inv'
<1> USE DEF CloneProducer, queueState
<1>1. HandlesCounted'
  BY FS_AddElement, FS_CardinalityType DEF Inv, HandlesCounted
<1>2. TypeOK'
  BY DEF Inv, TypeOK, Live
<1>3. CapacityHeld' /\ OrdersDistinct' /\ WorkUnique' /\ RunningCounted'
  BY StoreFrame
<1>4. EventsExact' /\ OneAnnouncement'
  BY EventsFrame
<1>5. LifecycleExact' /\ LastDropCloses'
  BY DEF Inv, LifecycleExact, LastDropCloses, Live
<1>6. QED
  BY <1>1, <1>2, <1>3, <1>4, <1>5 DEF Inv

\* QueueProducer::drop: the count reaches zero exactly for the last handle,
\* whose thread then owes the close.
LEMMA DropProducerInv ==
  ASSUME Inv, NEW p \in Producers, DropProducer(p)
  PROVE  Inv'
<1> USE DEF DropProducer, queueState
<1>1. p \in Threads /\ pending[p] = Nothing
  BY DEF Idle, Threads
<1>2. Cardinality(handles) \in Nat /\ Cardinality(handles \ {p}) \in Nat
        /\ Cardinality(handles \ {p}) = Cardinality(handles) - 1
        /\ IsFiniteSet(handles \ {p})
  BY FS_RemoveElement, FS_CardinalityType DEF Inv, HandlesCounted
<1>3. HandlesCounted' /\ producer_count' \in Nat
  BY <1>2 DEF Inv, HandlesCounted
<1>4. pending' \in [Threads -> PendingType]
  BY <1>1, QueueAssumption DEF Inv, TypeOK, CloseAfterDrop, PendingType
<1>5. TypeOK'
  BY <1>3, <1>4 DEF Inv, TypeOK, Live, PendingType
<1>6. CapacityHeld' /\ OrdersDistinct' /\ WorkUnique' /\ RunningCounted'
  BY StoreFrame
<1>7. EventsExact' /\ OneAnnouncement'
  <2>1. \A t \in Threads : \/ pending'[t] = pending[t]
                           \/ /\ pending'[t].kind # "Drained"
                              /\ pending[t].kind # "Drained"
    BY <1>1 DEF Inv, TypeOK, CloseAfterDrop, Nothing
  <2>2. QED
    BY <2>1, EventsFrame
<1>8. LifecycleExact'
  BY DEF Inv, LifecycleExact, Live
<1>9. LastDropCloses'
  <2>1. CASE handles' = {}
    <3>1. Cardinality(handles \ {p}) = 0
      BY <2>1, FS_EmptySet
    <3>2. producer_count = 1
      BY <3>1, <1>2 DEF Inv, HandlesCounted
    <3>3. pending'[p] = CloseAfterDrop
      BY <3>2, <1>1 DEF Inv, TypeOK, IsLast
    <3>4. QED
      BY <3>3 DEF LastDropCloses
  <2>2. CASE handles' # {}
    BY <2>2 DEF LastDropCloses
  <2>3. QED
    BY <2>1, <2>2
<1>10. QED
  BY <1>3, <1>5, <1>6, <1>7, <1>8, <1>9 DEF Inv

\* take_drained_event, for any caller that hands it a flag which is true to
\* what was reported: afterwards the flag is again, and no event was taken
\* twice.  The callers are close, on_complete and the registration of a sink.
LEMMA TakeDrainedEventEffect ==
  ASSUME Inv, NEW t \in Threads, pending[t].kind # "Drained",
         delivered' = delivered,
         NEW snk \in Runtimes \cup {NoRuntime}, event_sink' = snk,
         NEW qid \in 0 .. MaxQueueIds, queue_id' = qid,
         next_queue_id' \in [Runtimes -> 1 .. MaxQueueIds + 1],
         \A r \in Runtimes : next_queue_id[r] <= next_queue_id'[r],
         snk # NoRuntime =>
           1 <= qid /\ qid < next_queue_id'[snk],
         NEW sent \in BOOLEAN,
         sent => /\ snk # NoRuntime /\ lifecycle' = "Drained"
                 /\ Reported(snk, qid),
         ~sent /\ snk # NoRuntime => ~Reported(snk, qid),
         TakeDrainedEvent(t, lifecycle', snk, qid, sent)
  PROVE  /\ pending' \in [Threads -> PendingType]
         /\ drained_event_sent' \in BOOLEAN
         /\ EventsExact'
         /\ OneAnnouncement'
         /\ \A u \in Threads \ {t} : pending'[u] = pending[u]
<1> DEFINE take == lifecycle' = "Drained" /\ ~sent /\ snk # NoRuntime
           next == IF take THEN Drained(snk, qid) ELSE Nothing
<1>1. /\ drained_event_sent' = (sent \/ take)
      /\ pending' = [pending EXCEPT ![t] = next]
  BY DEF TakeDrainedEvent
<1>2. pending \in [Threads -> PendingType]
  BY DEF Inv, TypeOK, PendingType
<1>3. next \in PendingType
  BY QueueAssumption DEF PendingType, Drained, Nothing
<1>4. /\ pending' \in [Threads -> PendingType]
      /\ pending'[t] = next
      /\ \A u \in Threads \ {t} : pending'[u] = pending[u]
  BY <1>1, <1>2, <1>3
<1>5. drained_event_sent' \in BOOLEAN
  <2>1. drained_event_sent' = TRUE \/ drained_event_sent' = FALSE
    BY <1>1
  <2>2. QED
    BY <2>1
<1>6. \A u \in Threads : pending'[u].kind = "Drained" =>
        \/ u # t /\ pending'[u] = pending[u]
        \/ /\ u = t /\ take
           /\ pending'[u].sink = snk /\ pending'[u].id = qid
  BY <1>4 DEF Drained, Nothing
<1>7. \A r, q : \A u \in Threads : Announced(u, r, q)' =>
        \/ u # t /\ Announced(u, r, q)
        \/ u = t /\ take /\ r = snk /\ q = qid
  BY <1>6 DEF Announced
<1>8. \A r, q : \A u \in Threads : Announced(u, r, q) => u # t /\ Announced(u, r, q)'
  BY <1>4 DEF Announced
<1>9. take => Announced(t, snk, qid)'
  BY <1>4 DEF Announced, Drained
<1> HIDE DEF next
<1>10. EventsExact'
  <2>1. \A u \in Threads : pending'[u].kind = "Drained" =>
       /\ pending'[u].sink \in Runtimes
       /\ 1 <= pending'[u].id /\ pending'[u].id < next_queue_id'[pending'[u].sink]
    <3> SUFFICES ASSUME NEW u \in Threads, pending'[u].kind = "Drained"
                 PROVE  /\ pending'[u].sink \in Runtimes
                        /\ 1 <= pending'[u].id
                        /\ pending'[u].id < next_queue_id'[pending'[u].sink]
      OBVIOUS
    <3>1. CASE pending'[u] = pending[u]
      BY <3>1, <1>2, QueueAssumption DEF Inv, EventsExact, TypeOK, PendingType
    <3>2. CASE take /\ pending'[u].sink = snk /\ pending'[u].id = qid
      BY <3>2
    <3>3. QED
      BY <1>6, <3>1, <3>2
  <2>2. \A d \in delivered' : d[2] < next_queue_id'[d[1]]
    <3> SUFFICES ASSUME NEW d \in delivered PROVE d[2] < next_queue_id'[d[1]]
      OBVIOUS
    <3>1. d[1] \in Runtimes /\ d[2] \in 1 .. MaxQueueIds
      BY DEF Inv, TypeOK
    <3>2. d[2] < next_queue_id[d[1]]
      BY DEF Inv, EventsExact
    <3>3. next_queue_id[d[1]] \in Nat /\ next_queue_id'[d[1]] \in Nat
      BY <3>1, QueueAssumption DEF Inv, TypeOK
    <3>4. QED
      BY <3>1, <3>2, <3>3
  <2>3. drained_event_sent' =>
          /\ snk # NoRuntime /\ lifecycle' = "Drained"
          /\ \/ <<snk, qid>> \in delivered'
             \/ \E u \in Threads : Announced(u, snk, qid)'
    BY <1>1, <1>8, <1>9 DEF Reported
  <2>4. ~drained_event_sent' /\ snk # NoRuntime =>
          /\ lifecycle' # "Drained"
          /\ <<snk, qid>> \notin delivered'
          /\ \A u \in Threads : ~Announced(u, snk, qid)'
    BY <1>1, <1>7 DEF Reported
  <2>5. QED
    BY <2>1, <2>2, <2>3, <2>4 DEF EventsExact, Announced
<1>11. OneAnnouncement'
  <2> SUFFICES ASSUME NEW r \in Runtimes, NEW q \in 1 .. MaxQueueIds,
                      NEW u \in Threads, Announced(u, r, q)'
               PROVE  /\ <<r, q>> \notin delivered
                      /\ \A v \in Threads : Announced(v, r, q)' => v = u
    BY DEF OneAnnouncement
  <2>1. CASE u # t /\ Announced(u, r, q)
    <3>1. /\ <<r, q>> \notin delivered
          /\ \A v \in Threads : Announced(v, r, q) => v = u
      BY <2>1 DEF Inv, OneAnnouncement
    <3>2. ~(take /\ r = snk /\ q = qid)
      BY <2>1 DEF Reported
    <3>3. QED
      BY <3>1, <3>2, <1>7
  <2>2. CASE u = t /\ take /\ r = snk /\ q = qid
    <3>1. <<r, q>> \notin delivered /\ \A v \in Threads : ~Announced(v, r, q)
      BY <2>2 DEF Reported
    <3>2. QED
      BY <2>2, <3>1, <1>7
  <2>3. QED
    BY <1>7, <2>1, <2>2
<1>12. QED
  BY <1>4, <1>5, <1>10, <1>11

\* drained_event_sent, read by take_drained_event, is true to what was reported.
LEMMA SentMeansReported ==
  ASSUME Inv
  PROVE  /\ drained_event_sent =>
              /\ event_sink # NoRuntime /\ lifecycle = "Drained"
              /\ Reported(event_sink, queue_id)
         /\ ~drained_event_sent /\ event_sink # NoRuntime =>
              ~Reported(event_sink, queue_id)
         /\ event_sink # NoRuntime =>
              1 <= queue_id /\ queue_id < next_queue_id[event_sink]
  BY DEF Inv, EventsExact, Reported

\* In flight: the counter is zero exactly when nothing is running.
LEMMA NothingRunning ==
  ASSUME Inv
  PROVE  in_flight = 0 <=> running = {}
  BY FS_EmptySet DEF Inv, RunningCounted, InFlightExact

\* close_shared keeps the invariant, from whichever lifecycle it starts.
LEMMA CloseSharedInv ==
  ASSUME Inv, NEW t \in Threads, pending[t].kind # "Drained", CloseShared(t)
  PROVE  Inv'
<1> USE DEF CloseShared
<1>1. lifecycle' \in {"Draining", "Drained"}
  BY DEF Inv, TypeOK, ClosedLifecycle
<1>2. lifecycle = "Drained" => lifecycle' = "Drained"
  OBVIOUS
<1>3. /\ pending' \in [Threads -> PendingType]
      /\ drained_event_sent' \in BOOLEAN
      /\ EventsExact'
      /\ OneAnnouncement'
  <2>1. /\ event_sink \in Runtimes \cup {NoRuntime}
        /\ queue_id \in 0 .. MaxQueueIds
        /\ drained_event_sent \in BOOLEAN
        /\ next_queue_id' \in [Runtimes -> 1 .. MaxQueueIds + 1]
        /\ \A r \in Runtimes : next_queue_id[r] <= next_queue_id'[r]
    BY QueueAssumption DEF Inv, TypeOK
  <2>2. /\ event_sink # NoRuntime =>
             1 <= queue_id /\ queue_id < next_queue_id'[event_sink]
        /\ drained_event_sent => /\ event_sink # NoRuntime /\ lifecycle' = "Drained"
                                 /\ Reported(event_sink, queue_id)
        /\ ~drained_event_sent /\ event_sink # NoRuntime =>
             ~Reported(event_sink, queue_id)
    BY <1>2, SentMeansReported
  <2>3. QED
    BY <2>1, <2>2, TakeDrainedEventEffect
<1>4. TypeOK'
  BY <1>1, <1>3 DEF Inv, TypeOK, Live, PendingType
<1>5. CapacityHeld' /\ OrdersDistinct' /\ WorkUnique' /\ RunningCounted'
  BY StoreFrame
<1>6. HandlesCounted'
  BY HandlesFrame
<1>7. LifecycleExact' /\ LastDropCloses'
  <2>1. LastDropCloses'
    BY <1>1 DEF LastDropCloses
  <2>2. LifecycleExact'
    BY NothingRunning DEF Inv, LifecycleExact, ClosedLifecycle, Live
  <2>3. QED
    BY <2>1, <2>2
<1>8. QED
  BY <1>3, <1>4, <1>5, <1>6, <1>7 DEF Inv

\* An explicit close and the close after the last drop keep the invariant.
LEMMA CloseInv ==
  ASSUME Inv, NEW p \in Producers, Close(p) \/ CloseLastDropped(p)
  PROVE  Inv'
<1>1. p \in Threads
  BY DEF Threads
<1>2. pending[p].kind # "Drained"
  BY DEF Close, CloseLastDropped, Idle, Nothing, CloseAfterDrop
<1>3. CloseShared(p)
  BY DEF Close, CloseLastDropped
<1>4. QED
  BY <1>1, <1>2, <1>3, CloseSharedInv

\* The entry that take_next takes moves from the queue to the running works.
LEMMA TakeEntryEffect ==
  ASSUME Inv, NEW id \in Live, TakeEntry(id), UNCHANGED next_order
  PROVE  /\ Live' \subseteq EntryIds
         /\ entries' \in [Live' -> Entry]
         /\ in_flight' \in Nat
         /\ running' \subseteq Works /\ running' # {}
         /\ CapacityHeld' /\ OrdersDistinct' /\ WorkUnique' /\ RunningCounted'
<1>1. /\ Live' = Live \ {id}
      /\ entries' \in [Live \ {id} -> Entry]
      /\ \A i \in Live \ {id} : entries'[i] = entries[i]
      /\ Cardinality(Live \ {id}) < Capacity
      /\ Cardinality(Live \ {id}) \in Nat
  <2>1. entries' = Remaining(id) /\ Live' = DOMAIN entries'
    BY DEF TakeEntry, Live
  <2>2. Cardinality(Live \ {id}) \in Nat
    BY LiveFinite DEF Inv, TypeOK
  <2>3. QED
    BY <2>1, <2>2, RemainingType
<1>2. entries[id].work \in Works \ running
  BY DEF Inv, TypeOK, WorkUnique
<1>3. running' = running \cup {entries[id].work} /\ in_flight' = in_flight + 1
  BY DEF TakeEntry
<1>4. RunningCounted' /\ in_flight' \in Nat
  <2>1. IsFiniteSet(running) /\ in_flight = Cardinality(running) /\ in_flight \in Nat
    BY DEF Inv, TypeOK, RunningCounted, InFlightExact
  <2>2. IsFiniteSet(running') /\ Cardinality(running') = Cardinality(running) + 1
    BY <1>2, <1>3, <2>1, FS_AddElement
  <2>3. QED
    BY <1>3, <2>1, <2>2 DEF RunningCounted, InFlightExact
<1>5. CapacityHeld'
  BY <1>1, QueueAssumption DEF CapacityHeld
<1>6. OrdersDistinct'
  BY <1>1 DEF Inv, OrdersDistinct
<1>7. WorkUnique'
  BY <1>1, <1>3 DEF Inv, WorkUnique
<1>8. QED
  BY <1>1, <1>2, <1>3, <1>4, <1>5, <1>6, <1>7 DEF Inv, TypeOK

\* take_next keeps the invariant, by the discipline or by the fallback: an
\* entry that was queued keeps a closed queue from being drained already.
LEMMA TakeNextInv ==
  ASSUME Inv, TakeNext
  PROVE  Inv'
<1> USE DEF TakeNext
<1>1. discipline' \in Seq(EntryIds)
  <2>1. discipline \in Seq(EntryIds) /\ Attempts \in Nat
    <3>1. Cardinality(Live) \in Nat
      BY LiveFinite DEF Inv, TypeOK
    <3>2. QED
      BY <3>1 DEF Inv, TypeOK, Attempts
  <2>2. \A k \in Nat : SubSeq(discipline, k + 1, Len(discipline)) \in Seq(EntryIds)
    BY <2>1
  <2>3. CASE \E k \in Answers :
               discipline' = SubSeq(discipline, k + 1, Len(discipline))
    BY <2>1, <2>2, <2>3 DEF Answers
  <2>4. CASE \E id \in Live : discipline' =
               RemoveFirst(SubSeq(discipline, Attempts + 1, Len(discipline)), id)
    BY <2>1, <2>2, <2>4, RemoveFirstType
  <2>5. CASE discipline # <<>> /\ discipline' = Tail(discipline)
    BY <2>1, <2>5
  <2>6. QED
    BY <2>3, <2>4, <2>5
<1>2. HandlesCounted'
  BY HandlesFrame
<1>3. EventsExact' /\ OneAnnouncement'
  BY EventsFrame
<1>4. LastDropCloses'
  BY DEF Inv, LastDropCloses
<1>5. \/ \E id \in Live : TakeEntry(id)
      \/ Live = {} /\ UNCHANGED <<entries, in_flight, running>>
  BY DEF Answers
<1>6. CASE \E id \in Live : TakeEntry(id)
  <2>1. PICK id \in Live : TakeEntry(id)
    BY <1>6
  <2>2. /\ Live' \subseteq EntryIds
        /\ entries' \in [Live' -> Entry]
        /\ in_flight' \in Nat
        /\ running' \subseteq Works /\ running' # {}
        /\ CapacityHeld' /\ OrdersDistinct' /\ WorkUnique' /\ RunningCounted'
    BY <2>1, TakeEntryEffect
  <2>3. TypeOK'
    BY <1>1, <2>2 DEF Inv, TypeOK, Entry
  <2>4. LifecycleExact'
    BY <2>2 DEF Inv, LifecycleExact
  <2>5. QED
    BY <1>2, <1>3, <1>4, <2>2, <2>3, <2>4 DEF Inv
<1>7. CASE Live = {} /\ UNCHANGED <<entries, in_flight, running>>
  <2>1. TypeOK'
    BY <1>1, <1>7 DEF Inv, TypeOK, Live
  <2>2. CapacityHeld' /\ OrdersDistinct' /\ WorkUnique' /\ RunningCounted'
    BY <1>7, StoreFrame
  <2>3. LifecycleExact'
    BY <1>7 DEF Inv, LifecycleExact, Live
  <2>4. QED
    BY <1>2, <1>3, <1>4, <2>1, <2>2, <2>3 DEF Inv
<1>8. QED
  BY <1>5, <1>6, <1>7

\* on_complete keeps the invariant: the saturating decrement never saturates,
\* and a draining queue becomes drained at the last completion only.
LEMMA OnCompleteInv ==
  ASSUME Inv, NEW w \in Works, OnComplete(w)
  PROVE  Inv'
<1> USE DEF OnComplete
<1>1. "scheduler" \in Threads /\ pending["scheduler"].kind # "Drained"
  BY DEF Threads, Idle, Nothing
<1>2. /\ in_flight' \in Nat /\ RunningCounted'
      /\ in_flight' = 0 <=> running' = {}
  <2>1. IsFiniteSet(running) /\ in_flight = Cardinality(running) /\ in_flight \in Nat
    BY DEF Inv, TypeOK, RunningCounted, InFlightExact
  <2>2. IsFiniteSet(running') /\ Cardinality(running') = Cardinality(running) - 1
    BY <2>1, FS_RemoveElement
  <2>3. in_flight > 0
    BY <2>1, FS_EmptySet
  <2>4. in_flight' = Cardinality(running') /\ in_flight' \in Nat
    BY <2>1, <2>2, <2>3
  <2>5. QED
    BY <2>2, <2>4, FS_EmptySet DEF RunningCounted, InFlightExact
<1>3. /\ lifecycle' \in {"Open", "Draining", "Drained"}
      /\ lifecycle = "Drained" => lifecycle' = "Drained"
      /\ lifecycle # "Open" => lifecycle' # "Open"
  BY DEF Inv, TypeOK
<1>4. /\ pending' \in [Threads -> PendingType]
      /\ drained_event_sent' \in BOOLEAN
      /\ EventsExact'
      /\ OneAnnouncement'
      /\ \A u \in Threads \ {"scheduler"} : pending'[u] = pending[u]
  <2>1. /\ event_sink \in Runtimes \cup {NoRuntime}
        /\ queue_id \in 0 .. MaxQueueIds
        /\ drained_event_sent \in BOOLEAN
        /\ next_queue_id' \in [Runtimes -> 1 .. MaxQueueIds + 1]
        /\ \A r \in Runtimes : next_queue_id[r] <= next_queue_id'[r]
    BY QueueAssumption DEF Inv, TypeOK
  <2>2. /\ event_sink # NoRuntime =>
             1 <= queue_id /\ queue_id < next_queue_id'[event_sink]
        /\ drained_event_sent => /\ event_sink # NoRuntime /\ lifecycle' = "Drained"
                                 /\ Reported(event_sink, queue_id)
        /\ ~drained_event_sent /\ event_sink # NoRuntime =>
             ~Reported(event_sink, queue_id)
    BY <1>3, SentMeansReported
  <2>3. QED
    BY <1>1, <2>1, <2>2, TakeDrainedEventEffect
<1>5. TypeOK'
  BY <1>2, <1>3, <1>4 DEF Inv, TypeOK, Live, PendingType
<1>6. CapacityHeld' /\ OrdersDistinct' /\ WorkUnique'
  BY DEF Inv, CapacityHeld, OrdersDistinct, WorkUnique, Live
<1>7. HandlesCounted'
  BY HandlesFrame
<1>8. LifecycleExact'
  BY <1>2 DEF Inv, TypeOK, LifecycleExact, Live
<1>9. LastDropCloses'
  BY <1>3, <1>4, QueueAssumption DEF Inv, LastDropCloses, Threads
<1>10. QED
  BY <1>2, <1>4, <1>5, <1>6, <1>7, <1>8, <1>9 DEF Inv

\* register_queue_event_sink keeps the invariant: the id from another runtime
\* is one that no earlier event carries.
LEMMA RegisterInv ==
  ASSUME Inv, NEW r \in Runtimes, RegisterQueueEventSink(r)
  PROVE  Inv'
<1> USE DEF RegisterQueueEventSink
<1>1. "scheduler" \in Threads /\ pending["scheduler"].kind # "Drained"
  BY DEF Threads, Idle, Nothing
<1>2. r # NoRuntime /\ next_queue_id[r] \in 1 .. MaxQueueIds + 1
  BY QueueAssumption DEF Inv, TypeOK
<1>3. /\ queue_id' \in 0 .. MaxQueueIds
      /\ next_queue_id' \in [Runtimes -> 1 .. MaxQueueIds + 1]
      /\ \A s \in Runtimes : next_queue_id[s] <= next_queue_id'[s]
      /\ 1 <= queue_id' /\ queue_id' < next_queue_id'[r]
  <2>1. CASE r # event_sink
    <3>1. /\ next_queue_id \in [Runtimes -> 1 .. MaxQueueIds + 1]
          /\ next_queue_id[r] <= MaxQueueIds
          /\ queue_id' = next_queue_id[r]
          /\ next_queue_id' = [next_queue_id EXCEPT ![r] = next_queue_id[r] + 1]
      BY <2>1 DEF Inv, TypeOK
    <3>2. next_queue_id[r] + 1 \in 1 .. MaxQueueIds + 1
      BY <1>2, <3>1, QueueAssumption
    <3>3. next_queue_id' \in [Runtimes -> 1 .. MaxQueueIds + 1]
      BY <3>1, <3>2
    <3>4. \A s \in Runtimes : next_queue_id[s] <= next_queue_id'[s]
      BY <3>1, QueueAssumption
    <3>5. QED
      BY <1>2, <3>1, <3>3, <3>4, QueueAssumption
  <2>2. CASE r = event_sink
    BY <1>2, <2>2, SentMeansReported, QueueAssumption DEF Inv, TypeOK
  <2>3. QED
    BY <2>1, <2>2
<1>4. SentTo(r) \in BOOLEAN
  BY DEF Inv, TypeOK, SentTo
<1>5. /\ SentTo(r) => lifecycle' = "Drained" /\ Reported(r, queue_id')
      /\ ~SentTo(r) => ~Reported(r, queue_id')
  <2>1. CASE r = event_sink
    BY <1>2, <2>1, SentMeansReported DEF SentTo
  <2>2. CASE r # event_sink
    <3>1. ~SentTo(r) /\ queue_id' = next_queue_id[r]
      BY <2>2 DEF SentTo
    <3>2. <<r, queue_id'>> \notin delivered
      <4> SUFFICES ASSUME <<r, queue_id'>> \in delivered PROVE FALSE
        OBVIOUS
      <4>1. queue_id' < next_queue_id[r]
        BY DEF Inv, EventsExact
      <4>2. QED
        BY <1>2, <3>1, <4>1
    <3>3. \A t \in Threads : ~Announced(t, r, queue_id')
      BY <1>2, <3>1 DEF Inv, EventsExact, Announced
    <3>4. QED
      BY <3>1, <3>2, <3>3 DEF Reported
  <2>3. QED
    BY <2>1, <2>2
<1>6. /\ pending' \in [Threads -> PendingType]
      /\ drained_event_sent' \in BOOLEAN
      /\ EventsExact'
      /\ OneAnnouncement'
      /\ \A u \in Threads \ {"scheduler"} : pending'[u] = pending[u]
  <2> DEFINE qid == queue_id'
             sent == SentTo(r)
  <2>1. qid \in 0 .. MaxQueueIds /\ queue_id' = qid /\ sent \in BOOLEAN
    BY <1>3, <1>4
  <2>2. TakeDrainedEvent("scheduler", lifecycle', r, qid, sent)
    OBVIOUS
  <2>3. /\ sent => /\ r # NoRuntime /\ lifecycle' = "Drained"
                   /\ Reported(r, qid)
        /\ ~sent /\ r # NoRuntime => ~Reported(r, qid)
        /\ r # NoRuntime => 1 <= qid /\ qid < next_queue_id'[r]
    BY <1>2, <1>3, <1>5
  <2>4. r \in Runtimes \cup {NoRuntime} /\ event_sink' = r /\ delivered' = delivered
    OBVIOUS
  <2> HIDE DEF qid, sent
  <2>5. QED
    BY <1>1, <1>3, <2>1, <2>2, <2>3, <2>4, TakeDrainedEventEffect
<1>7. TypeOK'
  BY <1>3, <1>6 DEF Inv, TypeOK, Live, PendingType
<1>8. CapacityHeld' /\ OrdersDistinct' /\ WorkUnique' /\ RunningCounted'
  BY StoreFrame
<1>9. HandlesCounted'
  BY HandlesFrame
<1>10. LifecycleExact'
  BY DEF Inv, LifecycleExact, Live
<1>11. LastDropCloses'
  BY <1>6, QueueAssumption DEF Inv, LastDropCloses, Threads
<1>12. QED
  BY <1>6, <1>7, <1>8, <1>9, <1>10, <1>11 DEF Inv

\* emit, after the unlock, keeps the invariant: the event moves from the
\* thread that took it to the sink.
LEMMA EmitInv ==
  ASSUME Inv, NEW t \in Threads, Emit(t)
  PROVE  Inv'
<1> USE DEF Emit, queueState
<1>1. pending \in [Threads -> PendingType]
  BY DEF Inv, TypeOK, PendingType
<1>2. /\ pending' \in [Threads -> PendingType]
      /\ pending'[t] = Nothing
      /\ \A u \in Threads \ {t} : pending'[u] = pending[u]
  BY <1>1, QueueAssumption DEF PendingType, Nothing
<1>3. CapacityHeld' /\ OrdersDistinct' /\ WorkUnique' /\ RunningCounted'
  BY StoreFrame
<1>4. HandlesCounted'
  BY HandlesFrame
<1>5. LifecycleExact'
  BY DEF Inv, LifecycleExact, Live
<1>6. LastDropCloses'
  BY <1>2 DEF Inv, LastDropCloses, CloseAfterDrop, Threads
<1>7. CASE pending[t].kind = "WakeUp"
  <2>1. \A u \in Threads : \/ pending'[u] = pending[u]
                           \/ /\ pending'[u].kind # "Drained"
                              /\ pending[u].kind # "Drained"
    BY <1>2, <1>7 DEF Nothing
  <2>2. EventsExact' /\ OneAnnouncement'
    BY <1>7, <2>1, EventsFrame
  <2>3. TypeOK'
    BY <1>2, <1>7 DEF Inv, TypeOK, Live, PendingType
  <2>4. QED
    BY <1>3, <1>4, <1>5, <1>6, <2>2, <2>3 DEF Inv
<1>8. CASE pending[t].kind = "Drained"
  <2> DEFINE r == pending[t].sink
             q == pending[t].id
  <2>1. /\ r \in Runtimes /\ q \in 1 .. MaxQueueIds
        /\ q < next_queue_id[r]
    BY <1>1, <1>8, QueueAssumption DEF Inv, EventsExact, PendingType
  <2>2. delivered' = delivered \cup {<<r, q>>}
    BY <1>8
  <2>3. Announced(t, r, q)
    BY <1>8 DEF Announced
  <2>4. \A s, k : \A u \in Threads : Announced(u, s, k)' <=> u # t /\ Announced(u, s, k)
    BY <1>2 DEF Announced, Nothing
  <2>5. \A u \in Threads : Announced(u, r, q) => u = t
    BY <2>1, <2>3 DEF Inv, OneAnnouncement
  <2>6. TypeOK'
    BY SMTT(60), <1>2, <2>1, <2>2 DEF Inv, TypeOK, Live, PendingType
  <2>7. OneAnnouncement'
    <3> SUFFICES ASSUME NEW s \in Runtimes, NEW k \in 1 .. MaxQueueIds,
                        NEW u \in Threads, Announced(u, s, k)'
                 PROVE  /\ <<s, k>> \notin delivered'
                        /\ \A v \in Threads : Announced(v, s, k)' => v = u
      BY DEF OneAnnouncement
    <3>1. u # t /\ Announced(u, s, k)
      BY <2>4
    <3>2. /\ <<s, k>> \notin delivered
          /\ \A v \in Threads : Announced(v, s, k) => v = u
      BY <3>1 DEF Inv, OneAnnouncement
    <3>3. <<s, k>> # <<r, q>>
      BY <2>5, <3>1
    <3>4. QED
      BY <2>2, <2>4, <3>2, <3>3
  <2>8. EventsExact'
    <3>1. \A u \in Threads : pending'[u].kind = "Drained" =>
            /\ pending'[u].sink \in Runtimes
            /\ 1 <= pending'[u].id
            /\ pending'[u].id < next_queue_id'[pending'[u].sink]
      BY <1>2 DEF Inv, EventsExact, Nothing
    <3>2. \A d \in delivered' : d[2] < next_queue_id'[d[1]]
      BY <2>1, <2>2 DEF Inv, EventsExact
    <3>3. drained_event_sent' =>
            /\ event_sink' # NoRuntime /\ lifecycle' = "Drained"
            /\ \/ <<event_sink', queue_id'>> \in delivered'
               \/ \E u \in Threads : Announced(u, event_sink, queue_id)'
      <4>1. \A u \in Threads : Announced(u, event_sink, queue_id) =>
              \/ Announced(u, event_sink, queue_id)'
              \/ <<event_sink, queue_id>> = <<r, q>>
        BY <2>4 DEF Announced
      <4>2. QED
        BY <2>2, <4>1 DEF Inv, EventsExact
    <3>4. ~drained_event_sent' /\ event_sink' # NoRuntime =>
            /\ lifecycle' # "Drained"
            /\ <<event_sink', queue_id'>> \notin delivered'
            /\ \A u \in Threads : ~Announced(u, event_sink, queue_id)'
      BY <2>2, <2>3, <2>4 DEF Inv, EventsExact
    <3>5. event_sink' # NoRuntime =>
            1 <= queue_id' /\ queue_id' < next_queue_id'[event_sink']
      BY DEF Inv, EventsExact
    <3>6. QED
      BY <3>1, <3>2, <3>3, <3>4, <3>5 DEF EventsExact, Announced
  <2>9. QED
    BY <1>3, <1>4, <1>5, <1>6, <2>6, <2>7, <2>8 DEF Inv
<1>9. QED
  BY <1>7, <1>8

\* A discipline that breaks its contract keeps the invariant: nothing in it
\* rests on the discipline.
LEMMA DisciplineFaultInv ==
  ASSUME Inv, DisciplineFault
  PROVE  Inv'
<1> USE DEF DisciplineFault
<1>1. discipline' \in Seq(EntryIds)
  <2>1. discipline \in Seq(EntryIds)
    BY DEF Inv, TypeOK
  <2>2. CASE \E i \in DOMAIN discipline : discipline' = RemoveAt(discipline, i)
    <3>1. PICK i \in DOMAIN discipline : discipline' = RemoveAt(discipline, i)
      BY <2>2
    <3>2. i \in 1 .. Len(discipline)
      BY <2>1
    <3>3. QED
      BY <2>1, <3>1, <3>2, RemoveAtProperties
  <2>3. CASE \E id \in EntryIds : discipline' = Append(discipline, id)
    BY <2>1, <2>3
  <2>4. QED
    BY <2>2, <2>3
<1>2. TypeOK'
  BY <1>1 DEF Inv, TypeOK, Live
<1>3. CapacityHeld' /\ OrdersDistinct' /\ WorkUnique' /\ RunningCounted'
  BY StoreFrame
<1>4. HandlesCounted'
  BY HandlesFrame
<1>5. EventsExact' /\ OneAnnouncement'
  BY EventsFrame
<1>6. LifecycleExact' /\ LastDropCloses'
  BY DEF Inv, LifecycleExact, LastDropCloses, Live
<1>7. QED
  BY <1>2, <1>3, <1>4, <1>5, <1>6 DEF Inv

\* Stuttering keeps the invariant.
LEMMA StutterInv ==
  ASSUME Inv, UNCHANGED vars
  PROVE  Inv'
<1> USE DEF vars, queueState
<1>1. TypeOK'
  BY DEF Inv, TypeOK, Live
<1>2. CapacityHeld' /\ OrdersDistinct' /\ WorkUnique' /\ RunningCounted'
  BY StoreFrame
<1>3. HandlesCounted'
  BY HandlesFrame
<1>4. EventsExact' /\ OneAnnouncement'
  BY EventsFrame
<1>5. LifecycleExact' /\ LastDropCloses'
  BY DEF Inv, LifecycleExact, LastDropCloses, Live
<1>6. QED
  BY <1>1, <1>2, <1>3, <1>4, <1>5 DEF Inv

\* Every step of producers, scheduler, sinks and discipline keeps it.
LEMMA NextInv == Inv /\ [Next]_vars => Inv'
<1> SUFFICES ASSUME Inv, [Next]_vars PROVE Inv'
  OBVIOUS
<1>1. CASE UNCHANGED vars
  BY <1>1, StutterInv
<1>2. CASE \E p \in Producers : ProducerStep(p)
  <2>1. PICK p \in Producers : ProducerStep(p)
    BY <1>2
  <2>2. CASE \E w \in Works : PushAdmit(p, w)
    BY <2>2, PushAdmitInv
  <2>3. CASE \E w \in Works : PushReject(p, w)
    BY <2>3, PushRejectInv
  <2>4. CASE \E w \in Works : \E id \in EntryIds : PushEvict(p, w, id)
    BY <2>4, PushEvictInv
  <2>5. CASE \E q \in Producers : CloneProducer(p, q)
    BY <2>5, CloneProducerInv
  <2>6. CASE DropProducer(p)
    BY <2>6, DropProducerInv
  <2>7. CASE Close(p) \/ CloseLastDropped(p)
    BY <2>7, CloseInv
  <2>8. QED
    BY <2>1, <2>2, <2>3, <2>4, <2>5, <2>6, <2>7 DEF ProducerStep
<1>3. CASE TakeNext
  BY <1>3, TakeNextInv
<1>4. CASE \E w \in Works : OnComplete(w)
  BY <1>4, OnCompleteInv
<1>5. CASE \E r \in Runtimes : RegisterQueueEventSink(r)
  BY <1>5, RegisterInv
<1>6. CASE \E t \in Threads : Emit(t)
  BY <1>6, EmitInv
<1>7. CASE DisciplineFault
  BY <1>7, DisciplineFaultInv
<1>8. QED
  BY <1>1, <1>2, <1>3, <1>4, <1>5, <1>6, <1>7 DEF Next, SchedulerStep

\* The invariant holds in every reachable state of the bounded queue.
THEOREM Invariance == Spec => []Inv
<1>1. Init => Inv
  BY InitInv
<1>2. Inv /\ [Next]_vars => Inv'
  BY NextInv
<1>3. QED
  BY <1>1, <1>2, PTL DEF Spec

\* Ids, admission orders and statistics of the bounded queue stay in the range
\* of their u64, at every capacity and for every number of producers.
THEOREM TypeCorrect == Spec => []TypeOK
  BY Invariance, PTL DEF Inv

\* in_flight of the bounded queue is the number of works dispatched and not
\* completed: its saturating arithmetic never hides a mistake.
THEOREM InFlightCorrect == Spec => []InFlightExact
<1>1. Inv => InFlightExact
  BY DEF Inv, RunningCounted
<1>2. QED
  BY <1>1, Invariance, PTL

\* close, drop and on_complete between them leave the lifecycle exact: Drained
\* if and only if closed, empty and idle, and closed once the last handle went.
THEOREM LifecycleCorrect == Spec => [](LifecycleExact /\ LastDropCloses)
<1>1. Inv => LifecycleExact /\ LastDropCloses
  BY DEF Inv
<1>2. QED
  BY <1>1, Invariance, PTL

\* The accounts of the bounded queue are exact for every number of producers,
\* works and runtimes: ranges, in_flight and lifecycle at every moment.
THEOREM CountsCorrect == Spec => []CountsExact
  BY TypeCorrect, InFlightCorrect, LifecycleCorrect, PTL DEF CountsExact

\* However often ids wrap and orders are rebased, the admission orders of the
\* live entries are distinct and below next_order, within the capacity.
THEOREM OrdersCorrect == Spec => [](OrdersDistinct /\ CapacityHeld)
<1>1. Inv => OrdersDistinct /\ CapacityHeld
  BY DEF Inv
<1>2. QED
  BY <1>1, Invariance, PTL

\* take_drained_event, raced by close, the last drop, on_complete and a new
\* attachment, emits the Drained event of an attachment at most once.
THEOREM DrainedOnce == Spec => []DrainedAtMostOnce
<1>1. Inv => DrainedAtMostOnce
  <2> SUFFICES ASSUME Inv, NEW t \in Threads, pending[t].kind = "Drained"
               PROVE  /\ <<pending[t].sink, pending[t].id>> \notin delivered
                      /\ \A u \in Threads : pending[u] = pending[t] => u = t
    BY DEF DrainedAtMostOnce
  <2> DEFINE r == pending[t].sink
             q == pending[t].id
  <2>1. r \in Runtimes /\ q \in 1 .. MaxQueueIds
    BY QueueAssumption DEF Inv, TypeOK, EventsExact
  <2>2. Announced(t, r, q)
    BY DEF Announced
  <2>3. /\ <<r, q>> \notin delivered
        /\ \A u \in Threads : Announced(u, r, q) => u = t
    BY <2>1, <2>2 DEF Inv, OneAnnouncement
  <2>4. QED
    BY <2>3 DEF Announced
<1>2. QED
  BY <1>1, Invariance, PTL

\* A drained queue that is attached has reported it to its present runtime, or
\* a thread that left the mutex is about to.
THEOREM DrainedTold == Spec => []DrainedReported
<1>1. Inv => DrainedReported
  <2> SUFFICES ASSUME Inv, lifecycle = "Drained", event_sink # NoRuntime
               PROVE  \/ <<event_sink, queue_id>> \in delivered
                      \/ \E t \in Threads : pending[t] = Drained(event_sink, queue_id)
    BY DEF DrainedReported
  <2>1. drained_event_sent
    BY DEF Inv, EventsExact
  <2>2. \A t \in Threads : Announced(t, event_sink, queue_id) =>
          pending[t] = Drained(event_sink, queue_id)
    BY DEF Inv, TypeOK, Announced, Drained
  <2>3. QED
    BY <2>1, <2>2 DEF Inv, EventsExact
<1>2. QED
  BY <1>1, Invariance, PTL

\* Every attachment of a drained queue hears of it exactly once, for any number
\* of threads that race for the event.
THEOREM DrainedExact == Spec => []DrainedExactlyOnce
  BY DrainedOnce, DrainedTold, PTL DEF DrainedExactlyOnce

\* Closing is for good and a drained queue never dispatches again.
ClosedForGood ==
  [][ /\ lifecycle # "Open" => lifecycle' # "Open" /\ Queued' \subseteq Queued
      /\ lifecycle = "Drained" => lifecycle' = "Drained" /\ running' = running
    ]_vars

\* A drained queue holds nothing and waits for nothing.
LEMMA DrainedIsEmpty ==
  ASSUME Inv, lifecycle = "Drained"
  PROVE  Live = {} /\ running = {}
  BY DEF Inv, LifecycleExact

\* No step reopens a closed queue or lets it grow, and a drained queue neither
\* dispatches nor completes: the guards of try_push and take_next suffice.
THEOREM ClosingIsForGood == Spec => ClosedForGood
<1> DEFINE Step == /\ lifecycle # "Open" => lifecycle' # "Open" /\ Queued' \subseteq Queued
                   /\ lifecycle = "Drained" => lifecycle' = "Drained" /\ running' = running
<1>1. ASSUME Inv, [Next]_vars PROVE [Step]_vars
  <2>1. CASE UNCHANGED vars
    BY <2>1
  <2>2. CASE \E p \in Producers : ProducerStep(p)
    <3>1. PICK p \in Producers : ProducerStep(p)
      BY <2>2
    <3>2. CASE lifecycle = "Open"
      BY <3>2
    <3>3. CASE lifecycle # "Open"
      <4>1. \/ \E q \in Producers : CloneProducer(p, q)
            \/ DropProducer(p) \/ CloseShared(p)
        BY <3>1, <3>3 DEF ProducerStep, PushAdmit, PushReject, PushEvict,
                          MayPush, Close, CloseLastDropped
      <4>2. UNCHANGED <<lifecycle, entries, running>>
        BY <3>3, <4>1 DEF CloneProducer, DropProducer, CloseShared, queueState
      <4>3. QED
        BY <3>3, <4>2 DEF Queued, Live
    <3>4. QED
      BY <3>2, <3>3
  <2>3. CASE TakeNext
    <3>1. UNCHANGED lifecycle
      BY <2>3 DEF TakeNext
    <3>2. \/ \E id \in Live : TakeEntry(id)
          \/ Live = {} /\ UNCHANGED <<entries, in_flight, running>>
      BY <2>3 DEF TakeNext, Answers
    <3>3. Queued' \subseteq Queued
      BY <3>2 DEF TakeEntry, Remaining, Queued, Live
    <3>4. lifecycle = "Drained" => Live = {}
      BY <1>1, DrainedIsEmpty
    <3>5. QED
      BY <3>1, <3>2, <3>3, <3>4
  <2>4. CASE \E w \in Works : OnComplete(w)
    <3>1. PICK w \in Works : OnComplete(w)
      BY <2>4
    <3>2. lifecycle # "Drained" /\ UNCHANGED entries
      BY <1>1, <3>1, DrainedIsEmpty DEF OnComplete
    <3>3. lifecycle # "Open" => lifecycle' # "Open"
      BY <3>1 DEF OnComplete
    <3>4. QED
      BY <3>2, <3>3 DEF Queued, Live
  <2>5. CASE \/ \E r \in Runtimes : RegisterQueueEventSink(r)
             \/ \E t \in Threads : Emit(t)
             \/ DisciplineFault
    <3>1. UNCHANGED <<lifecycle, entries, running>>
      BY <2>5 DEF RegisterQueueEventSink, Emit, DisciplineFault, queueState
    <3>2. QED
      BY <3>1 DEF Queued, Live
  <2> HIDE DEF Step
  <2>6. QED
    BY <1>1, <2>1, <2>2, <2>3, <2>4, <2>5 DEF Next, SchedulerStep
<1>2. QED
  BY <1>1, Invariance, PTL DEF Spec, ClosedForGood
-----------------------------------------------------------------------------
(***************************************************************************)
(* The queue implements its contract.  Below, ents stands for the entries  *)
(* at some moment of an operation and disc for the FIFO discipline.        *)
(***************************************************************************)
\* The works of the entries, and which of them was admitted before which.
WorksOf(ents) == {ents[i].work : i \in DOMAIN ents}

Before(ents) ==
  LET ordered == {p \in (DOMAIN ents) \X (DOMAIN ents) : ents[p[1]].order < ents[p[2]].order}
  IN  {<<ents[p[1]].work, ents[p[2]].work>> : p \in ordered}

\* The FIFO discipline holds every live id, oldest first.
FifoOrder(ents, disc) ==
  /\ \A k \in DOMAIN disc : disc[k] \in DOMAIN ents
  /\ \A i \in DOMAIN ents : \E k \in DOMAIN disc : disc[k] = i
  /\ \A j, k \in DOMAIN disc : j < k => ents[disc[j]].order < ents[disc[k]].order

\* Unless the discipline is a custom one that misbehaves.
FifoExact == ~Malformed => FifoOrder(entries, discipline)

\* The pairs of Before, one by one.
LEMMA BeforePairs ==
  ASSUME NEW ents
  PROVE  /\ \A p \in Before(ents) : \E i, j \in DOMAIN ents :
              ents[i].order < ents[j].order /\ p = <<ents[i].work, ents[j].work>>
         /\ \A i, j \in DOMAIN ents :
              ents[i].order < ents[j].order => <<ents[i].work, ents[j].work>> \in Before(ents)
<1> DEFINE ordered == {p \in (DOMAIN ents) \X (DOMAIN ents) : ents[p[1]].order < ents[p[2]].order}
<1>1. Before(ents) = {<<ents[p[1]].work, ents[p[2]].work>> : p \in ordered}
  BY DEF Before
<1>2. ASSUME NEW i \in DOMAIN ents, NEW j \in DOMAIN ents, ents[i].order < ents[j].order
      PROVE  <<ents[i].work, ents[j].work>> \in Before(ents)
  <2>1. <<i, j>> \in ordered
    BY <1>2
  <2>2. QED
    BY <1>1, <2>1
<1>3. ASSUME NEW p \in Before(ents)
      PROVE  \E i, j \in DOMAIN ents :
                ents[i].order < ents[j].order /\ p = <<ents[i].work, ents[j].work>>
  <2>1. PICK q \in ordered : p = <<ents[q[1]].work, ents[q[2]].work>>
    BY <1>1
  <2>2. q[1] \in DOMAIN ents /\ q[2] \in DOMAIN ents /\ ents[q[1]].order < ents[q[2]].order
    OBVIOUS
  <2>3. QED
    BY <2>1, <2>2
<1>4. QED
  BY <1>2, <1>3

\* An entry with the highest order: its work is behind all others.
LEMMA InsertBefore ==
  ASSUME NEW ents, NEW new, NEW id, NEW w, id \notin DOMAIN ents,
         \A i \in DOMAIN ents : ents[i].order \in Nat,
         \A i \in DOMAIN new : new[i].order \in Nat,
         \A i, j \in DOMAIN ents : ents[i].order = ents[j].order => i = j,
         DOMAIN new = DOMAIN ents \cup {id},
         new[id].work = w,
         \A i \in DOMAIN ents : new[i].work = ents[i].work,
         \A i \in DOMAIN ents : new[i].order < new[id].order,
         \A i, j \in DOMAIN ents :
           ents[i].order < ents[j].order => new[i].order < new[j].order
  PROVE  /\ WorksOf(new) = WorksOf(ents) \cup {w}
         /\ Before(new) = Before(ents) \cup (WorksOf(ents) \X {w})
<1>1. WorksOf(new) = WorksOf(ents) \cup {w}
  BY DEF WorksOf
<1>2. ASSUME NEW p \in Before(new)
      PROVE  p \in Before(ents) \cup (WorksOf(ents) \X {w})
  <2>1. PICK i, j \in DOMAIN new : new[i].order < new[j].order /\ p = <<new[i].work, new[j].work>>
    BY BeforePairs
  <2>2. i \in DOMAIN ents
    BY <2>1
  <2>3. CASE j = id
    BY <2>1, <2>2, <2>3 DEF WorksOf
  <2>4. CASE j # id
    <3>1. j \in DOMAIN ents
      BY <2>4
    <3>2. ents[i].order < ents[j].order
      BY <2>1, <2>2, <3>1
    <3>3. p = <<ents[i].work, ents[j].work>>
      BY <2>1, <2>2, <3>1
    <3>4. QED
      BY <2>2, <3>1, <3>2, <3>3, BeforePairs
  <2>5. QED
    BY <2>3, <2>4
<1>3. ASSUME NEW p \in Before(ents) PROVE p \in Before(new)
  <2>1. PICK i, j \in DOMAIN ents :
           ents[i].order < ents[j].order /\ p = <<ents[i].work, ents[j].work>>
    BY BeforePairs
  <2>2. i \in DOMAIN new /\ j \in DOMAIN new /\ new[i].order < new[j].order
    BY <2>1
  <2>3. p = <<new[i].work, new[j].work>>
    BY <2>1
  <2>4. QED
    BY <2>2, <2>3, BeforePairs
<1>4. ASSUME NEW p \in WorksOf(ents) \X {w} PROVE p \in Before(new)
  <2>1. PICK i \in DOMAIN ents : p = <<ents[i].work, w>>
    BY DEF WorksOf
  <2>2. i \in DOMAIN new /\ id \in DOMAIN new /\ new[i].order < new[id].order
    OBVIOUS
  <2>3. p = <<new[i].work, new[id].work>>
    BY <2>1
  <2>4. QED
    BY <2>2, <2>3, BeforePairs
<1>5. QED
  BY <1>1, <1>2, <1>3, <1>4

\* An entry leaves: its work leaves the order, the others keep theirs.
LEMMA RemoveBefore ==
  ASSUME NEW ents, NEW rest, NEW id \in DOMAIN ents,
         \A i, j \in DOMAIN ents : ents[i].work = ents[j].work => i = j,
         DOMAIN rest = DOMAIN ents \ {id},
         \A i \in DOMAIN rest : rest[i] = ents[i]
  PROVE  /\ WorksOf(rest) = WorksOf(ents) \ {ents[id].work}
         /\ Before(rest) = {p \in Before(ents) : p[1] # ents[id].work /\ p[2] # ents[id].work}
<1>1. WorksOf(rest) = WorksOf(ents) \ {ents[id].work}
  BY DEF WorksOf
<1>2. ASSUME NEW p \in Before(rest)
      PROVE  p \in Before(ents) /\ p[1] # ents[id].work /\ p[2] # ents[id].work
  <2>1. PICK i, j \in DOMAIN rest :
           rest[i].order < rest[j].order /\ p = <<rest[i].work, rest[j].work>>
    BY BeforePairs
  <2>2. /\ i \in DOMAIN ents /\ j \in DOMAIN ents /\ ents[i].order < ents[j].order
        /\ p = <<ents[i].work, ents[j].work>>
    BY <2>1
  <2>3. ents[i].work # ents[id].work /\ ents[j].work # ents[id].work
    BY <2>1, <2>2
  <2>4. QED
    BY <2>2, <2>3, BeforePairs
<1>3. ASSUME NEW p \in Before(ents), p[1] # ents[id].work, p[2] # ents[id].work
      PROVE  p \in Before(rest)
  <2>1. PICK i, j \in DOMAIN ents :
           ents[i].order < ents[j].order /\ p = <<ents[i].work, ents[j].work>>
    BY BeforePairs
  <2>2. i # id /\ j # id
    BY <1>3, <2>1
  <2>3. /\ i \in DOMAIN rest /\ j \in DOMAIN rest /\ rest[i].order < rest[j].order
        /\ p = <<rest[i].work, rest[j].work>>
    BY <2>1, <2>2
  <2>4. QED
    BY <2>3, BeforePairs
<1>4. QED
  BY <1>1, <1>2, <1>3

\* Fifo::push of an id whose entry has the highest order keeps the order.
LEMMA FifoAppend ==
  ASSUME NEW ents, NEW disc \in Seq(EntryIds), NEW new, NEW id \in EntryIds,
         FifoOrder(ents, disc), id \notin DOMAIN ents,
         DOMAIN new = DOMAIN ents \cup {id},
         \A i \in DOMAIN ents : new[i].order < new[id].order,
         \A i, j \in DOMAIN ents :
           ents[i].order < ents[j].order => new[i].order < new[j].order
  PROVE  FifoOrder(new, Append(disc, id))
<1> DEFINE s == Append(disc, id)
           n == Len(disc)
<1>1. /\ DOMAIN s = 1 .. n + 1 /\ DOMAIN disc = 1 .. n /\ n \in Nat
      /\ \A k \in 1 .. n : s[k] = disc[k]
      /\ s[n + 1] = id
  OBVIOUS
<1> HIDE DEF s
<1>2. \A k \in DOMAIN s : s[k] \in DOMAIN new
  BY <1>1 DEF FifoOrder
<1>3. ASSUME NEW i \in DOMAIN new PROVE \E k \in DOMAIN s : s[k] = i
  <2>1. CASE i = id
    BY <1>1, <2>1
  <2>2. CASE i # id
    <3>1. PICK k \in DOMAIN disc : disc[k] = i
      BY <2>2 DEF FifoOrder
    <3>2. QED
      BY <1>1, <3>1
  <2>3. QED
    BY <2>1, <2>2
<1>4. ASSUME NEW j \in DOMAIN s, NEW k \in DOMAIN s, j < k
      PROVE  new[s[j]].order < new[s[k]].order
  <2>1. j \in DOMAIN disc /\ s[j] = disc[j] /\ disc[j] \in DOMAIN ents
    BY <1>1, <1>4 DEF FifoOrder
  <2>2. CASE k = n + 1
    BY <1>1, <2>1, <2>2
  <2>3. CASE k # n + 1
    <3>1. k \in DOMAIN disc /\ s[k] = disc[k] /\ disc[k] \in DOMAIN ents
      BY <1>1, <2>3 DEF FifoOrder
    <3>2. ents[disc[j]].order < ents[disc[k]].order
      BY <1>4, <2>1, <3>1 DEF FifoOrder
    <3>3. QED
      BY <2>1, <3>1, <3>2
  <2>4. QED
    BY <2>2, <2>3
<1>5. QED
  BY <1>2, <1>3, <1>4 DEF FifoOrder, s

\* The k-th id leaves the discipline together with its entry.
LEMMA FifoRemove ==
  ASSUME NEW ents, NEW disc \in Seq(EntryIds), NEW k \in 1 .. Len(disc), NEW rest,
         FifoOrder(ents, disc), \A i \in DOMAIN ents : ents[i].order \in Nat,
         DOMAIN rest = DOMAIN ents \ {disc[k]},
         \A i \in DOMAIN rest : rest[i] = ents[i],
         NEW s \in Seq(EntryIds), Len(s) = Len(disc) - 1,
         \A m \in 1 .. Len(disc) - 1 : s[m] = IF m < k THEN disc[m] ELSE disc[m + 1]
  PROVE  FifoOrder(rest, s)
<1> DEFINE n == Len(disc)
           old(m) == IF m < k THEN m ELSE m + 1
<1>1. /\ DOMAIN s = 1 .. n - 1 /\ DOMAIN disc = 1 .. n /\ n \in Nat
      /\ \A m \in 1 .. n - 1 : s[m] = IF m < k THEN disc[m] ELSE disc[m + 1]
  OBVIOUS
<1>2. \A m \in DOMAIN s : old(m) \in DOMAIN disc /\ old(m) # k /\ s[m] = disc[old(m)]
  BY <1>1
<1>3. \A j, m \in DOMAIN disc : j # m => disc[j] # disc[m]
  <2> SUFFICES ASSUME NEW j \in DOMAIN disc, NEW m \in DOMAIN disc, j # m, disc[j] = disc[m]
               PROVE  FALSE
    OBVIOUS
  <2>1. j < m \/ m < j
    BY <1>1
  <2>2. ents[disc[j]].order < ents[disc[m]].order \/ ents[disc[m]].order < ents[disc[j]].order
    BY <2>1 DEF FifoOrder
  <2>3. ents[disc[j]].order \in Nat
    BY DEF FifoOrder
  <2>4. QED
    BY <2>2, <2>3
<1>4. \A m \in DOMAIN s : s[m] \in DOMAIN rest
  <2> SUFFICES ASSUME NEW m \in DOMAIN s PROVE s[m] \in DOMAIN rest
    OBVIOUS
  <2>1. old(m) \in DOMAIN disc /\ old(m) # k /\ s[m] = disc[old(m)]
    BY <1>2
  <2>2. disc[old(m)] \in DOMAIN ents /\ disc[old(m)] # disc[k]
    BY <1>1, <1>3, <2>1 DEF FifoOrder
  <2>3. QED
    BY <2>1, <2>2
<1>5. ASSUME NEW i \in DOMAIN rest PROVE \E m \in DOMAIN s : s[m] = i
  <2>1. PICK m \in DOMAIN disc : disc[m] = i
    BY DEF FifoOrder
  <2>2. m # k
    BY <2>1
  <2>3. CASE m < k
    BY <1>1, <2>1, <2>3
  <2>4. CASE m > k
    <3>1. m - 1 \in DOMAIN s /\ ~(m - 1 < k) /\ (m - 1) + 1 = m
      BY <1>1, <2>4
    <3>2. s[m - 1] = disc[m]
      BY <1>1, <3>1
    <3>3. QED
      BY <2>1, <3>1, <3>2
  <2>5. QED
    BY <1>1, <2>2, <2>3, <2>4
<1>6. ASSUME NEW j \in DOMAIN s, NEW m \in DOMAIN s, j < m
      PROVE  rest[s[j]].order < rest[s[m]].order
  <2>1. old(j) < old(m)
    BY <1>1, <1>6
  <2>2. ents[disc[old(j)]].order < ents[disc[old(m)]].order
    BY <1>2, <2>1 DEF FifoOrder
  <2>3. s[j] = disc[old(j)] /\ s[m] = disc[old(m)] /\ s[j] \in DOMAIN rest /\ s[m] \in DOMAIN rest
    BY <1>2, <1>4
  <2>4. QED
    BY <2>2, <2>3
<1>7. QED
  BY <1>4, <1>5, <1>6 DEF FifoOrder

\* What a push contributes: the new work goes behind all others, in the
\* admission orders (over a rebase too) and in the discipline.
LEMMA PushOrder ==
  ASSUME Inv, NEW ents, NEW disc, NEW w \in Works,
         Insertable(ents, disc), InsertWork(ents, disc, w)
  PROVE  /\ WorksOf(entries') = WorksOf(ents) \cup {w}
         /\ Before(entries') = Before(ents) \cup (WorksOf(ents) \X {w})
         /\ FifoOrder(ents, disc) => FifoOrder(entries', discipline')
<1>1. next_order \in 0 .. OrderMax
  BY DEF Inv, TypeOK
<1>2. PICK id \in EntryIds \ DOMAIN ents :
        /\ DOMAIN entries' = DOMAIN ents \cup {id}
        /\ entries'[id].work = w
        /\ \A i \in DOMAIN ents : entries'[i].work = ents[i].work
        /\ discipline' = Append(disc, id)
        /\ \A i \in DOMAIN ents : entries'[i].order < entries'[id].order
        /\ \A i, j \in DOMAIN ents :
             ents[i].order < ents[j].order => entries'[i].order < entries'[j].order
  BY <1>1, InsertWorkEffect
<1>3. entries' \in [DOMAIN entries' -> Entry]
  BY <1>1, InsertWorkEffect
<1>4. /\ \A i \in DOMAIN ents : ents[i].order \in Nat
      /\ \A i \in DOMAIN entries' : entries'[i].order \in Nat
  BY <1>3, QueueAssumption DEF Insertable, Entry
<1>5. \A i, j \in DOMAIN ents : ents[i].order = ents[j].order => i = j
  BY DEF Insertable
<1>6. /\ WorksOf(entries') = WorksOf(ents) \cup {w}
      /\ Before(entries') = Before(ents) \cup (WorksOf(ents) \X {w})
  BY <1>2, <1>4, <1>5, InsertBefore
<1>7. ASSUME FifoOrder(ents, disc) PROVE FifoOrder(entries', discipline')
  <2>1. disc \in Seq(EntryIds)
    BY DEF Insertable
  <2>2. FifoOrder(entries', Append(disc, id))
    BY <1>2, <1>7, <2>1, FifoAppend
  <2>3. QED
    BY <1>2, <2>2
<1>8. QED
  BY <1>6, <1>7

\* What the contract sees of the entries.
LEMMA Abstraction ==
  Queued = WorksOf(entries) /\ AdmittedBefore = Before(entries)
  BY DEF Queued, WorksOf, AdmittedBefore, Before, Live

\* The same of the next state.
LEMMA AbstractionNext ==
  Queued' = WorksOf(entries') /\ AdmittedBefore' = Before(entries')
  BY DEF Queued, WorksOf, AdmittedBefore, Before, Live

\* Below the capacity in entries is below it in works.
LEMMA RoomForWork ==
  ASSUME Inv, HasRoom
  PROVE  Cardinality(Queued) < Capacity
<1> DEFINE f == [i \in Live |-> entries[i].work]
<1>1. IsFiniteSet(Live) /\ Cardinality(Live) \in Nat
  BY LiveFinite DEF Inv, TypeOK
<1>2. f \in Surjection(Live, Queued)
  BY DEF Surjection, Queued
<1>3. IsFiniteSet(Queued) /\ Cardinality(Queued) <= Cardinality(Live)
  BY <1>1, <1>2, FS_Surjection
<1>4. Cardinality(Queued) \in Nat
  BY <1>3, FS_CardinalityType
<1>5. QED
  BY <1>1, <1>3, <1>4, QueueAssumption DEF HasRoom

\* try_push, admitted, is the contract's Admit.
LEMMA PushAdmitSimulated ==
  ASSUME Inv, FifoExact, NEW p \in Producers, NEW w \in Works, PushAdmit(p, w)
  PROVE  FifoExact' /\ Contract!Admit(w)
<1>1. Insertable(entries, discipline)
  BY DEF Inv, TypeOK, OrdersDistinct, Insertable, PushAdmit, HasRoom, Live, Entry
<1>2. /\ InsertWork(entries, discipline, w)
      /\ lifecycle = "Open" /\ w \notin Queued \cup running /\ HasRoom
      /\ UNCHANGED <<running, lifecycle>>
  BY DEF PushAdmit, MayPush
<1>3. /\ WorksOf(entries') = WorksOf(entries) \cup {w}
      /\ Before(entries') = Before(entries) \cup (WorksOf(entries) \X {w})
      /\ FifoOrder(entries, discipline) => FifoOrder(entries', discipline')
  BY <1>1, <1>2, PushOrder
<1>4. FifoExact'
  BY <1>3 DEF FifoExact
<1>5. Cardinality(Queued) < Capacity
  BY <1>2, RoomForWork
<1>6. Queued' = Queued \cup {w} /\ AdmittedBefore' = AdmittedBefore \cup (Queued \X {w})
  BY <1>3, Abstraction, AbstractionNext
<1>7. Contract!Cardinality(Queued) < Capacity
  BY <1>5 DEF Cardinality, Contract!Cardinality
<1>8. QED
  BY <1>2, <1>4, <1>6, <1>7 DEF Contract!Admit

\* Removing entry id from the store is removing its work from the contract.
LEMMA RemoveAbstraction ==
  ASSUME Inv, NEW id \in Live
  PROVE  /\ WorksOf(Remaining(id)) = Queued \ {entries[id].work}
         /\ Before(Remaining(id)) = Contract!Without(entries[id].work)
<1>1. /\ DOMAIN Remaining(id) = DOMAIN entries \ {id}
      /\ \A i \in DOMAIN Remaining(id) : Remaining(id)[i] = entries[i]
  BY RemainingType DEF Live
<1>2. \A i, j \in DOMAIN entries : entries[i].work = entries[j].work => i = j
  BY DEF Inv, WorkUnique, Live
<1>3. id \in DOMAIN entries
  BY DEF Live
<1>4. /\ WorksOf(Remaining(id)) = WorksOf(entries) \ {entries[id].work}
      /\ Before(Remaining(id)) =
           {p \in Before(entries) : p[1] # entries[id].work /\ p[2] # entries[id].work}
  BY <1>1, <1>2, <1>3, RemoveBefore
<1>5. QED
  BY <1>4, Abstraction DEF Contract!Without

\* Taking the k-th id out of a FIFO discipline, with its entry, leaves one.
LEMMA FifoRemaining ==
  ASSUME Inv, FifoOrder(entries, discipline), NEW k \in 1 .. Len(discipline),
         NEW s \in Seq(EntryIds), Len(s) = Len(discipline) - 1,
         \A m \in 1 .. Len(discipline) - 1 :
           s[m] = IF m < k THEN discipline[m] ELSE discipline[m + 1]
  PROVE  FifoOrder(Remaining(discipline[k]), s)
<1>1. discipline \in Seq(EntryIds)
  BY DEF Inv, TypeOK
<1>2. discipline[k] \in Live
  BY <1>1 DEF FifoOrder, Live
<1>3. \A i \in DOMAIN entries : entries[i].order \in Nat
  BY QueueAssumption DEF Inv, TypeOK, Live
<1>4. /\ DOMAIN Remaining(discipline[k]) = DOMAIN entries \ {discipline[k]}
      /\ \A i \in DOMAIN Remaining(discipline[k]) : Remaining(discipline[k])[i] = entries[i]
  BY <1>2, RemainingType DEF Live
<1>5. QED
  BY <1>1, <1>3, <1>4, FifoRemove

\* try_push in the place of a victim is the contract's Replace.
LEMMA PushEvictSimulated ==
  ASSUME Inv, FifoExact, NEW p \in Producers, NEW w \in Works, NEW id \in EntryIds,
         PushEvict(p, w, id)
  PROVE  FifoExact' /\ Contract!Replace(entries[id].work, w) /\ entries[id].work \in Works
<1> DEFINE ents == Remaining(id)
           disc == RemoveFirst(discipline, id)
           v    == entries[id].work
<1>1. /\ id \in Live /\ Contains(discipline, id)
      /\ InsertWork(ents, disc, w)
      /\ lifecycle = "Open" /\ w \notin Queued \cup running
      /\ UNCHANGED <<running, lifecycle>>
  BY DEF PushEvict, MayPush
<1>2. discipline \in Seq(EntryIds) /\ disc \in Seq(EntryIds)
  BY RemoveFirstType DEF Inv, TypeOK
<1>3. Insertable(ents, disc)
  BY ZenonT(90), <1>1, <1>2, RemainingType DEF Inv, TypeOK, OrdersDistinct, Insertable
<1>4. ASSUME FifoOrder(entries, discipline) PROVE FifoOrder(ents, disc)
  <2>1. PICK k \in 1 .. Len(discipline) :
           discipline[k] = id /\ RemoveFirst(discipline, id) = RemoveAt(discipline, k)
    BY <1>1, <1>2, RemoveFirstPosition
  <2>2. /\ Len(disc) = Len(discipline) - 1
        /\ \A m \in 1 .. Len(discipline) - 1 :
             disc[m] = IF m < k THEN discipline[m] ELSE discipline[m + 1]
    BY <1>2, <2>1, RemoveAtProperties
  <2> HIDE DEF disc
  <2>3. FifoOrder(Remaining(discipline[k]), disc)
    BY <1>2, <1>4, <2>2, FifoRemaining
  <2>4. QED
    BY <2>1, <2>3
<1>5. /\ WorksOf(ents) = Queued \ {v}
      /\ Before(ents) = Contract!Without(v)
  BY <1>1, RemoveAbstraction
<1> HIDE DEF ents, disc
<1>6. /\ WorksOf(entries') = WorksOf(ents) \cup {w}
      /\ Before(entries') = Before(ents) \cup (WorksOf(ents) \X {w})
      /\ FifoOrder(ents, disc) => FifoOrder(entries', discipline')
  BY <1>1, <1>3, PushOrder
<1>7. FifoExact'
  BY <1>4, <1>6 DEF FifoExact
<1>8. v \in Queued /\ v \in Works
  BY <1>1 DEF Queued, Inv, TypeOK
<1> HIDE DEF v
<1>9. /\ Queued' = (Queued \ {v}) \cup {w}
      /\ AdmittedBefore' = Contract!Without(v) \cup ((Queued \ {v}) \X {w})
  BY <1>5, <1>6, AbstractionNext
<1>10. Contract!Replace(v, w)
  BY <1>1, <1>8, <1>9 DEF Contract!Replace
<1>11. QED
  BY <1>7, <1>8, <1>10 DEF v

\* take_next is the contract's Dispatch, of the oldest work when the
\* discipline is FIFO, or nothing the contract sees.
LEMMA TakeNextSimulated ==
  ASSUME Inv, FifoExact, TakeNext
  PROVE  /\ FifoExact'
         /\ \/ \E w \in Works : Contract!Dispatch(w)
            \/ UNCHANGED <<entries, running, lifecycle>>
<1>1. UNCHANGED lifecycle
  BY DEF TakeNext
<1>2. discipline \in Seq(EntryIds)
  BY DEF Inv, TypeOK
<1>3. ASSUME NEW id \in Live, TakeEntry(id),
             ~Malformed => \A j \in Live : <<entries[j].work, entries[id].work>> \notin AdmittedBefore
      PROVE  \E w \in Works : Contract!Dispatch(w)
  <2> DEFINE w == entries[id].work
  <2>1. w \in Works /\ w \in Queued
    BY DEF Inv, TypeOK, Queued
  <2>2. Queued' = Queued \ {w} /\ AdmittedBefore' = Contract!Without(w)
    BY <1>3, RemoveAbstraction, AbstractionNext DEF TakeEntry
  <2>3. running' = running \cup {w}
    BY <1>3 DEF TakeEntry
  <2>4. ~Malformed => \A v \in Queued : <<v, w>> \notin AdmittedBefore
    BY <1>3 DEF Queued
  <2> HIDE DEF w
  <2>5. Contract!Dispatch(w)
    BY <1>1, <2>1, <2>2, <2>3, <2>4 DEF Contract!Dispatch
  <2>6. QED
    BY <2>1, <2>5
<1>4. CASE Malformed
  <2>1. \/ \E id \in Live : TakeEntry(id)
        \/ UNCHANGED <<entries, running, lifecycle>>
    BY <1>1 DEF TakeNext, Answers
  <2>2. FifoExact'
    BY <1>4 DEF FifoExact
  <2>3. QED
    BY <1>3, <1>4, <2>1, <2>2
<1>5. CASE ~Malformed
  <2>1. FifoOrder(entries, discipline)
    BY <1>5 DEF FifoExact
  <2>2. DOMAIN discipline = 1 .. Len(discipline) /\ Len(discipline) \in Nat
    BY <1>2
  <2>3. \A k \in DOMAIN discipline : discipline[k] \in Live
    BY <2>1 DEF FifoOrder, Live
  <2>4. Cardinality(Live) \in Nat
    BY LiveFinite DEF Inv, TypeOK
  <2>5. Len(discipline) > 0 => 1 \in Answers
    BY <2>2, <2>3, <2>4 DEF Answers, Attempts
  <2>6. Live # {} => Len(discipline) > 0
    BY <2>1, <2>2 DEF FifoOrder, Live
  <2>7. Live = {} => discipline = <<>>
    BY <1>2, <2>2, <2>3
  <2>8. /\ Len(discipline) > 0
        /\ discipline' = SubSeq(discipline, 2, Len(discipline))
        /\ TakeEntry(discipline[1])
    <3>1. \E k \in Answers : /\ \A m \in Answers : k <= m
                             /\ discipline' = SubSeq(discipline, k + 1, Len(discipline))
                             /\ TakeEntry(discipline[k])
      BY <2>5, <2>6, <2>7 DEF TakeNext
    <3>2. PICK k \in Answers : /\ \A m \in Answers : k <= m
                               /\ discipline' = SubSeq(discipline, k + 1, Len(discipline))
                               /\ TakeEntry(discipline[k])
      BY <3>1
    <3>3. k \in 1 .. Len(discipline)
      BY <2>2 DEF Answers
    <3>4. k = 1
      BY <2>2, <2>5, <3>2, <3>3
    <3>5. QED
      BY <3>2, <3>3, <3>4
  <2>9. discipline[1] \in Live
    BY <2>2, <2>3, <2>8
  <2>10. FifoExact'
    <3> DEFINE s == SubSeq(discipline, 2, Len(discipline))
    <3>1. /\ s \in Seq(EntryIds) /\ Len(s) = Len(discipline) - 1
          /\ \A m \in 1 .. Len(discipline) - 1 : s[m] = discipline[m + 1]
          /\ 1 \in 1 .. Len(discipline)
      BY <1>2, <2>2, <2>8
    <3>2. discipline' = s /\ entries' = Remaining(discipline[1])
      BY <2>8 DEF TakeEntry
    <3> HIDE DEF s
    <3>3. \A m \in 1 .. Len(discipline) - 1 :
             s[m] = IF m < 1 THEN discipline[m] ELSE discipline[m + 1]
      BY <3>1
    <3>4. FifoOrder(Remaining(discipline[1]), s)
      BY <2>1, <3>1, <3>3, FifoRemaining
    <3>5. QED
      BY <3>2, <3>4 DEF FifoExact
  <2>11. ASSUME NEW j \in Live
         PROVE  <<entries[j].work, entries[discipline[1]].work>> \notin AdmittedBefore
    <3> SUFFICES ASSUME <<entries[j].work, entries[discipline[1]].work>> \in AdmittedBefore
                 PROVE  FALSE
      OBVIOUS
    <3>1. PICK a, b \in Live : /\ entries[a].order < entries[b].order
                               /\ entries[b].work = entries[discipline[1]].work
      BY Abstraction, BeforePairs DEF Live
    <3>2. b = discipline[1]
      BY <2>9, <3>1 DEF Inv, WorkUnique
    <3>3. PICK k \in DOMAIN discipline : discipline[k] = a
      BY <2>1 DEF FifoOrder, Live
    <3>4. k = 1 \/ 1 < k
      BY <2>2
    <3>5. entries[b].order <= entries[a].order
      <4>1. entries[a].order \in Nat /\ entries[b].order \in Nat
        BY QueueAssumption DEF Inv, TypeOK
      <4>2. QED
        BY <2>1, <2>2, <2>8, <3>2, <3>3, <3>4, <4>1 DEF FifoOrder
    <3>6. QED
      BY <3>1, <3>5, QueueAssumption DEF Inv, TypeOK
  <2>12. QED
    BY <1>3, <2>8, <2>9, <2>10, <2>11
<1>6. QED
  BY <1>4, <1>5

\* on_complete is the contract's Complete: in_flight reaches zero, and the
\* queue is drained, exactly when the last running work came back.
LEMMA OnCompleteSimulated ==
  ASSUME Inv, Inv', NEW w \in Works, OnComplete(w)
  PROVE  Contract!Complete(w) /\ UNCHANGED <<entries, discipline>>
<1>1. /\ w \in running /\ running' = running \ {w}
      /\ UNCHANGED <<entries, discipline>>
      /\ lifecycle' = IF lifecycle = "Draining" /\ Live = {} /\ in_flight' = 0
                      THEN "Drained" ELSE lifecycle
  BY DEF OnComplete
<1>2. lifecycle \in {"Open", "Draining"}
  BY <1>1 DEF Inv, TypeOK, LifecycleExact
<1>3. in_flight' = 0 <=> running' = {}
  BY FS_EmptySet DEF Inv, RunningCounted, InFlightExact
<1>4. Live = {} <=> Queued = {}
  BY DEF Queued
<1>5. Queued' = Queued /\ AdmittedBefore' = AdmittedBefore
  BY <1>1, Abstraction, AbstractionNext
<1>6. lifecycle' = IF lifecycle = "Open" THEN "Open" ELSE Contract!Settled(running')
  BY <1>1, <1>2, <1>3, <1>4 DEF Contract!Settled
<1>7. QED
  BY <1>1, <1>5, <1>6 DEF Contract!Complete

\* close_shared is the contract's Close of an open queue, and nothing again.
LEMMA CloseSimulated ==
  ASSUME Inv, NEW p \in Producers, Close(p) \/ CloseLastDropped(p)
  PROVE  /\ UNCHANGED <<entries, discipline>>
         /\ Contract!Close \/ UNCHANGED <<running, lifecycle>>
<1>1. /\ UNCHANGED <<entries, discipline, running>>
      /\ lifecycle' = IF lifecycle = "Open" THEN ClosedLifecycle ELSE lifecycle
  BY DEF Close, CloseLastDropped, CloseShared
<1>2. Queued' = Queued /\ AdmittedBefore' = AdmittedBefore
  BY <1>1, Abstraction, AbstractionNext
<1>3. ClosedLifecycle = Contract!Settled(running)
  BY NothingRunning DEF ClosedLifecycle, Contract!Settled, Queued
<1>4. QED
  BY <1>1, <1>2, <1>3 DEF Contract!Close

\* Every step of the queue is a step of the contract, or one it cannot see.
LEMMA StepSimulated ==
  ASSUME Inv, Inv', FifoExact, [Next]_vars
  PROVE  FifoExact' /\ [Contract!Next]_Contract!vars
<1>1. ASSUME UNCHANGED <<entries, running, lifecycle>>
      PROVE  UNCHANGED Contract!vars
  BY <1>1, Abstraction, AbstractionNext DEF Contract!vars
<1>2. ASSUME NEW p \in Producers, ProducerStep(p)
      PROVE  FifoExact' /\ [Contract!Next]_Contract!vars
  <2>1. ASSUME NEW w \in Works, PushAdmit(p, w)
        PROVE  FifoExact' /\ [Contract!Next]_Contract!vars
    BY <2>1, PushAdmitSimulated DEF Contract!Next
  <2>2. ASSUME NEW w \in Works, NEW id \in EntryIds, PushEvict(p, w, id)
        PROVE  FifoExact' /\ [Contract!Next]_Contract!vars
    BY <2>2, PushEvictSimulated DEF Contract!Next
  <2>3. CASE Close(p) \/ CloseLastDropped(p)
    <3>1. UNCHANGED <<entries, discipline>> /\ (Contract!Close \/ UNCHANGED <<running, lifecycle>>)
      BY <2>3, CloseSimulated
    <3>2. FifoExact'
      BY <3>1 DEF FifoExact
    <3>3. QED
      BY <1>1, <3>1, <3>2 DEF Contract!Next
  <2>4. CASE \/ \E w \in Works : PushReject(p, w)
             \/ \E q \in Producers : CloneProducer(p, q)
             \/ DropProducer(p)
    <3>1. UNCHANGED <<entries, discipline, running, lifecycle>>
      BY <2>4 DEF PushReject, CloneProducer, DropProducer, queueState
    <3>2. FifoExact'
      BY <3>1 DEF FifoExact
    <3>3. QED
      BY <1>1, <3>1, <3>2
  <2>5. QED
    BY <1>2, <2>1, <2>2, <2>3, <2>4 DEF ProducerStep
<1>3. CASE TakeNext
  BY <1>1, <1>3, TakeNextSimulated DEF Contract!Next
<1>4. ASSUME NEW w \in Works, OnComplete(w)
      PROVE  FifoExact' /\ [Contract!Next]_Contract!vars
  <2>1. Contract!Complete(w) /\ UNCHANGED <<entries, discipline>>
    BY <1>4, OnCompleteSimulated
  <2>2. FifoExact'
    BY <2>1 DEF FifoExact
  <2>3. QED
    BY <2>1, <2>2 DEF Contract!Next
<1>5. CASE \/ \E r \in Runtimes : RegisterQueueEventSink(r)
           \/ \E t \in Threads : Emit(t)
           \/ UNCHANGED vars
  <2>1. UNCHANGED <<entries, discipline, running, lifecycle>>
    BY <1>5 DEF RegisterQueueEventSink, Emit, queueState, vars
  <2>2. FifoExact'
    BY <2>1 DEF FifoExact
  <2>3. QED
    BY <1>1, <2>1, <2>2
<1>6. CASE DisciplineFault
  <2>1. Malformed /\ UNCHANGED <<entries, running, lifecycle>>
    BY <1>6 DEF DisciplineFault
  <2>2. FifoExact'
    BY <2>1 DEF FifoExact
  <2>3. QED
    BY <1>1, <2>1, <2>2
<1>7. QED
  BY <1>2, <1>3, <1>4, <1>5, <1>6 DEF Next, SchedulerStep

\* The queue with its ids, order numbers, rebasing, discipline, locks and
\* handles implements the abstract contract: admission behind all queued work,
\* dispatch of the oldest when the discipline is FIFO, eviction of exactly the
\* victim, and Drained exactly when nothing is queued and nothing runs.
THEOREM ContractImplemented == Spec => ImplementsContract
<1>1. Init => FifoExact /\ Contract!Init
  <2> SUFFICES ASSUME Init PROVE FifoExact /\ Contract!Init
    OBVIOUS
  <2>1. DOMAIN entries = {} /\ DOMAIN discipline = {}
    BY DEF Init
  <2>2. FifoExact
    BY <2>1 DEF FifoExact, FifoOrder
  <2>3. Queued = {} /\ AdmittedBefore = {}
    BY <2>1 DEF Queued, AdmittedBefore, Live
  <2>4. QED
    BY <2>2, <2>3 DEF Init, Contract!Init
<1>2. Inv /\ Inv' /\ FifoExact /\ [Next]_vars => FifoExact' /\ [Contract!Next]_Contract!vars
  BY StepSimulated
<1>3. QED
  BY <1>1, <1>2, Invariance, PTL DEF Spec, ImplementsContract, Contract!Spec
=============================================================================
