----------------------------- MODULE RoundRobin -----------------------------
(***************************************************************************)
(* The round-robin branch with dynamic membership                          *)
(* (dispatcher/src/schedulers/round_robin.rs): a slab of slots indexed by  *)
(* the child id that is also the routing tag, a list of live ids, a free   *)
(* list, and a rotation queue of <<id, generation>> that is purged lazily. *)
(*                                                                         *)
(* The branch is called by one thread at a time (&mut self), so every      *)
(* method is one action.  Children are opaque schedulers: `ready` holds    *)
(* the ones whose take_next would return work, and changes at any time     *)
(* (producers push, gates open and close).  Ids and positions are counted  *)
(* from 1 instead of 0.  Counters that are a u32 keep their width          *)
(* (U32Span): generations wrap, in_flight saturates.                       *)
(***************************************************************************)
EXTENDS Integers, FiniteSets, SequencesExt

CONSTANTS
  Children,   \* schedulers that may be added, and added again once back
  Items,      \* names for dispatched items: bounds the items in flight
  U32Span,    \* the number of values of a u32
  NoChild

ASSUME RoundRobinAssumption ==
  /\ U32Span \in Nat \ {0}
  /\ IsFiniteSet(Children) /\ Cardinality(Children) <= U32Span
  /\ IsFiniteSet(Items) /\ Cardinality(Items) < U32Span
  /\ NoChild \notin Children

VARIABLES
  slots,        \* Vec<Slot>: entry, child, generation, in_flight, live_pos
  live_ids,     \* ids of the Live slots, order kept by swap-remove
  free,         \* slot indices to hand out again, last in first out
  queue,        \* rotation: <<id, generation>>
  stale,        \* number of stale rotation entries
  ready,        \* children that have work to hand out
  outstanding   \* items in flight: item -> [child, id] of its dispatch

roundRobinVars == <<slots, live_ids, free, queue, stale, ready, outstanding>>

Ids == DOMAIN slots
IsLive(id) == slots[id].entry = "Live"

\* A rotation entry is current in a slab where its slot is live under its
\* generation.
Current(slab, e) ==
  e[1] \in DOMAIN slab /\ slab[e[1]].entry = "Live" /\ slab[e[1]].generation = e[2]

\* What is left of s when only the positions in pos are retained.
Retain(s, pos) ==
  [i \in 1 .. Cardinality(pos) |->
     s[CHOOSE k \in pos : Cardinality({j \in pos : j < k}) = i - 1]]

LiveChildren == {slots[id].child : id \in {i \in Ids : IsLive(i)}}
Held == {slots[id].child : id \in {i \in Ids : slots[i].entry # "Free"}}

RoundRobinInit ==
  /\ slots = <<>>
  /\ live_ids = <<>>
  /\ free = <<>>
  /\ queue = <<>>
  /\ stale = 0
  /\ ready = {}
  /\ outstanding = <<>>

\* Mutant: a reused slot keeps its generation.
SameGeneration(g) == g

\* A reused slot starts a new generation.
NextGeneration(g) == (g + 1) % U32Span

\* add_child: pop the free list (the generation is bumped) or grow the slab.
AddChild(c) ==
  /\ c \in Children \ Held
  /\ LET reuse == free # <<>>
         id    == IF reuse THEN Last(free) ELSE Len(slots) + 1
         gen   == IF reuse THEN NextGeneration(slots[id].generation) ELSE 0
         slot  == [entry |-> "Live", child |-> c, generation |-> gen,
                   in_flight |-> 0, live_pos |-> Len(live_ids) + 1]
     IN  /\ slots' = IF reuse THEN [slots EXCEPT ![id] = slot]
                              ELSE Append(slots, slot)
         /\ free' = IF reuse THEN Front(free) ELSE free
         /\ live_ids' = Append(live_ids, id)
         /\ queue' = Append(queue, <<id, gen>>)
  /\ UNCHANGED <<stale, ready, outstanding>>

\* swap_remove of a position of live_ids.
SwapRemove(pos) ==
  [i \in 1 .. Len(live_ids) - 1 |->
     IF i = pos THEN Last(live_ids) ELSE live_ids[i]]

\* Mutant: items in flight do not keep a removed child.
NeverBusy(id) == FALSE

\* A removed child with items in flight is quarantined.
Busy(id) == slots[id].in_flight > 0

\* The free list after a removal.
FreeAfter(id, draining) == IF draining THEN free ELSE Append(free, id)

\* One more stale entry outnumbers the n live children.
Purges(n) == stale + 1 > n

\* remove_child: quarantine or free the slot, fix the live list, and purge
\* the rotation when its stale entries outnumber the live children.
RemoveChild(id) ==
  /\ id \in Ids /\ IsLive(id)
  /\ LET draining == Busy(id)
         pos      == slots[id].live_pos
         removed  == [slots EXCEPT
                        ![id].entry = IF draining THEN "Draining" ELSE "Free",
                        ![id].child = IF draining THEN @ ELSE NoChild]
     IN  /\ free' = FreeAfter(id, draining)
         /\ live_ids' = SwapRemove(pos)
         /\ slots' = IF pos \in DOMAIN live_ids'
                     THEN [removed EXCEPT ![live_ids'[pos]].live_pos = pos]
                     ELSE removed
         /\ IF Purges(Len(live_ids'))
            THEN /\ queue' = Retain(queue, {k \in DOMAIN queue : Current(slots', queue[k])})
                 /\ stale' = 0
            ELSE /\ stale' = stale + 1
                 /\ UNCHANGED queue
  /\ ready' = ready \ {slots[id].child}   \* it is not asked any more
  /\ UNCHANGED outstanding

SaturatingSub(m, n) == IF m > n THEN m - n ELSE 0
SaturatingAdd(m, n) == IF m + n < U32Span THEN m + n ELSE U32Span - 1

\* The current and the number of stale ones among the first n rotation entries.
CurrentIn(n) == {k \in 1 .. n : Current(slots, queue[k])}
StaleIn(n) == Cardinality(1 .. n \ CurrentIn(n))

\* The rotation positions at which a child would be asked and has work.
Willing == {k \in CurrentIn(Len(queue)) : slots[queue[k][1]].child \in ready}

\* Mutant: the child that was served stays in front.
NotRotated(n) == Retain(queue, CurrentIn(n)) \o SubSeq(queue, n + 1, Len(queue))

\* The rotation after the first n entries were asked.
Rotated(n) == SubSeq(queue, n + 1, Len(queue)) \o Retain(queue, CurrentIn(n))

\* take_next, Some: the entries up to the first willing child are popped,
\* stale ones drop out, the others go to the back behind the rest.
TakeNextSome(item) ==
  /\ item \in Items \ DOMAIN outstanding
  /\ \E k \in Willing :
       LET id == queue[k][1]
           c  == slots[id].child
       IN  /\ \A m \in Willing : k <= m
           /\ queue' = Rotated(k)
           /\ stale' = SaturatingSub(stale, StaleIn(k))
           /\ slots' = [slots EXCEPT ![id].in_flight = SaturatingAdd(@, 1)]
           /\ outstanding' = [i \in DOMAIN outstanding \cup {item} |->
                IF i = item THEN [child |-> c, id |-> id] ELSE outstanding[i]]
           /\ ready' \in {ready, ready \ {c}}
  /\ UNCHANGED <<live_ids, free>>

\* take_next, None: every child was asked once.
TakeNextNone ==
  /\ Willing = {}
  /\ queue' = Rotated(Len(queue))
  /\ stale' = SaturatingSub(stale, StaleIn(Len(queue)))
  /\ UNCHANGED <<slots, live_ids, free, ready, outstanding>>

\* on_complete: the tag names the slot; a quarantined child that drained is
\* dropped and its id recycled.  A free slot ignores the completion.
OnComplete(item) ==
  /\ item \in DOMAIN outstanding
  /\ LET id   == outstanding[item].id
         slot == slots[id]
         left == SaturatingSub(slot.in_flight, 1)
         drained == slot.entry = "Draining" /\ left = 0
     IN  IF slot.entry = "Free"
         THEN UNCHANGED <<slots, free>>
         ELSE /\ slots' = [slots EXCEPT ![id] =
                   IF drained
                   THEN [slot EXCEPT !.in_flight = left, !.entry = "Free", !.child = NoChild]
                   ELSE [slot EXCEPT !.in_flight = left]]
              /\ free' = IF drained THEN Append(free, id) ELSE free
  /\ outstanding' = [i \in DOMAIN outstanding \ {item} |-> outstanding[i]]
  /\ UNCHANGED <<live_ids, queue, stale, ready>>

\* A live child gets work, or loses it (an eviction, a gate that closes).
ChildChanges(c) ==
  /\ c \in LiveChildren
  /\ ready' = IF c \in ready THEN ready \ {c} ELSE ready \cup {c}
  /\ UNCHANGED <<slots, live_ids, free, queue, stale, outstanding>>

RoundRobinNext ==
  \/ \E c \in Children : AddChild(c) \/ ChildChanges(c)
  \/ \E id \in Ids : RemoveChild(id)
  \/ \E item \in Items : TakeNextSome(item) \/ OnComplete(item)
  \/ TakeNextNone

RoundRobinSpec == RoundRobinInit /\ [][RoundRobinNext]_roundRobinVars

-----------------------------------------------------------------------------
(***************************************************************************)
(* Properties.                                                             *)
(***************************************************************************)

Slot == [entry : {"Live", "Draining", "Free"}, child : Children \cup {NoChild},
         generation : 0 .. U32Span - 1, in_flight : 0 .. U32Span - 1,
         live_pos : Nat \ {0}]

\* The types of the variables.
RoundRobinTypeOK ==
  /\ slots \in Seq(Slot)
  /\ live_ids \in Seq(Ids)
  /\ free \in Seq(Ids)
  /\ queue \in Seq(Ids \X (0 .. U32Span - 1))
  /\ stale \in Nat
  /\ ready \subseteq Children
  /\ DOMAIN outstanding \subseteq Items
  /\ outstanding \in [DOMAIN outstanding -> [child : Children, id : Ids]]

\* The live list names every live slot once and each slot knows its place;
\* the free list names every free slot once.
SlabExact ==
  /\ ToSet(live_ids) = {id \in Ids : IsLive(id)}
  /\ \A p \in DOMAIN live_ids : slots[live_ids[p]].live_pos = p
  /\ ToSet(free) = {id \in Ids : slots[id].entry = "Free"}
  /\ \A i, j \in DOMAIN free : free[i] = free[j] => i = j

\* Every live child is in the rotation exactly once.
RotationExact ==
  \A id \in Ids : IsLive(id) =>
    Cardinality({k \in DOMAIN queue : queue[k][1] = id /\ Current(slots, queue[k])}) = 1

\* The stale counter counts the stale entries, which never outnumber the others.
StaleBounded ==
  /\ stale = StaleIn(Len(queue))
  /\ Len(queue) <= 2 * Len(live_ids)

\* Membership stays exact under every churn.  A removal removes the right
\* child and readiness passes miss none (swap_remove and live_pos); no id is
\* handed out twice, nor while its removed child waits for completions (free);
\* a rotation entry that survived its child never passes for the child that
\* inherited the id, even when the generation wraps (add_child, take_next);
\* and churn can not grow the rotation beyond twice the live children
\* (remove_child).
MembershipExact == RoundRobinTypeOK /\ SlabExact /\ RotationExact /\ StaleBounded

\* The tag of an item in flight leads back to the child that dispatched it,
\* live or quarantined, and the slot counts exactly its items.
RoutesHome ==
  /\ \A item \in DOMAIN outstanding :
       slots[outstanding[item].id].child = outstanding[item].child
  /\ \A id \in Ids :
       slots[id].in_flight =
         Cardinality({item \in DOMAIN outstanding : outstanding[item].id = id})

\* The live children in front of child c in the rotation.
Place(c) == {k \in CurrentIn(Len(queue)) : slots[queue[k][1]].child = c}
Ahead(c) == {d \in LiveChildren : \E k \in Place(d) : \A m \in Place(c) : k < m}

\* A step that dispatches an item of child c.
Serves(c) == \E item \in DOMAIN outstanding' \ DOMAIN outstanding :
               outstanding'[item].child = c

\* While a live child stays ready, only children in front of it are served,
\* each falls behind it, and nobody gets in front: every other child is
\* served at most once before it is.
NobodyOvertakes ==
  [][ \A c \in ready \cap ready', d \in Children :
        Serves(d) /\ d # c =>
          d \in Ahead(c) /\ Ahead(c)' \subseteq Ahead(c) \ {d} ]_roundRobinVars

=============================================================================
