------------------------------ MODULE CarCache ------------------------------
(***************************************************************************)
(* The response cache of the HTTP client (bmc-http/src/cache.rs): clock    *)
(* with adaptive replacement.  T1 and T2 hold the cached pages, B1 and B2  *)
(* the keys of pages evicted from them (ghosts).                           *)
(*                                                                         *)
(* A list is the sequence of its keys.  The ring of a ClockList starts at  *)
(* the hand, so that inserting behind the hand appends and advancing the   *)
(* hand rotates; a GhostList starts at its LRU end.  A slot is the place   *)
(* of the key in its list, and values, which move with their keys, are     *)
(* left out.  The index is kept apart from the lists, as in the code.      *)
(*                                                                         *)
(* get and put run under &mut self; the iterations of the loop in replace  *)
(* and what follows it in put are steps of their own (pc), which makes the *)
(* termination of the loop a property.                                     *)
(***************************************************************************)
EXTENDS Integers, FiniteSets, SequencesExt

CONSTANTS
  Keys,      \* the keys callers use
  Capacity,  \* c; 0 disables the cache
  NoKey

ASSUME CarAssumption == Capacity \in Nat /\ NoKey \notin Keys

VARIABLES
  t1, t2,    \* clocks of recent and of frequent pages
  b1, b2,    \* ghosts of pages evicted from t1 and from t2
  ref_bit,   \* the resident keys whose reference bit is set
  p,         \* target size of t1
  index,     \* key -> the list it is in, or "None" (not indexed)
  pc,        \* "idle" between calls; "replace" and "place" within put
  key,       \* the key of the put that is running, or NoKey
  victim,    \* the key replace() evicted for it, or NoKey
  start      \* history: the clocks when the put began

lists == <<t1, t2, b1, b2>>
vars == <<lists, ref_bit, p, index, pc, key, victim, start>>

Resident(k) == index[k] \in {"T1", "T2"}
InGhosts(k) == index[k] \in {"B1", "B2"}
Larger(m, n) == IF m < n THEN n ELSE m
Smaller(m, n) == IF m < n THEN m ELSE n

Init ==
  /\ t1 = <<>> /\ t2 = <<>> /\ b1 = <<>> /\ b2 = <<>>
  /\ ref_bit = {}
  /\ p = 0
  /\ index = [k \in Keys |-> "None"]
  /\ pc = "idle" /\ key = NoKey /\ victim = NoKey
  /\ start = <<>>
-----------------------------------------------------------------------------
(***************************************************************************)
(* Moving keys between lists, with their index entries.                    *)
(***************************************************************************)

\* A key that is indexed is indexed elsewhere, in place.
Repointed(k, place) == [index EXCEPT ![k] = IF @ = "None" THEN @ ELSE place]

\* GhostList::insert_at_tail and its callers: a demoted key that finds no
\* slot (capacity c + 1) leaves the index.
GhostRoom(ghosts) == Len(ghosts) < Capacity + 1
Ghosts(ghosts, k) == IF GhostRoom(ghosts) THEN Append(ghosts, k) ELSE ghosts
GhostPlace(ghosts, list) == IF GhostRoom(ghosts) THEN list ELSE "None"

\* move_to_t2: the key is at the tail of t2 and its index entry, if it has
\* one, is repointed; a t2 that is full loses the entry.
MoveToT2(k) ==
  IF Len(t2) < Capacity
  THEN /\ t2' = Append(t2, k)
       /\ index' = Repointed(k, "T2")
  ELSE /\ t2' = t2
       /\ index' = [index EXCEPT ![k] = "None"]

\* A new page at the tail of t1 with a cleared bit, when t1 has a slot.
InsertIntoT1(k, idx) ==
  IF Len(t1) < Capacity
  THEN t1' = Append(t1, k) /\ index' = [idx EXCEPT ![k] = "T1"]
  ELSE t1' = t1 /\ index' = idx

\* GhostList::remove: the requested key leaves its ghost list, by its slot.
RemoveKey(ghosts, k) == RemoveFirst(ghosts, k)
-----------------------------------------------------------------------------
(***************************************************************************)
(* get and put.                                                            *)
(***************************************************************************)

\* A hit, by get or by put, sets the reference bit of the page.
Hit(k) ==
  /\ pc = "idle"
  /\ Resident(k)
  /\ ref_bit' = ref_bit \cup {k}
  /\ UNCHANGED <<lists, p, index, pc, key, victim, start>>

\* put of a new key while the cache is not full.
PutWithRoom(k) ==
  /\ pc = "idle"
  /\ Capacity # 0
  /\ ~Resident(k)
  /\ Len(t1) + Len(t2) # Capacity
  /\ InsertIntoT1(k, index)
  /\ UNCHANGED <<t2, b1, b2, ref_bit, p, pc, key, victim, start>>

\* put of a new key into a full cache: replace() has to find a victim.
PutWhenFull(k) ==
  /\ pc = "idle"
  /\ Capacity # 0
  /\ ~Resident(k)
  /\ Len(t1) + Len(t2) = Capacity
  /\ pc' = "replace"
  /\ key' = k
  /\ start' = [t1 |-> t1, t2 |-> t2, ref_bit |-> ref_bit]
  /\ UNCHANGED <<lists, ref_bit, p, index, victim>>
-----------------------------------------------------------------------------
(***************************************************************************)
(* replace(): one iteration of its loop.                                   *)
(***************************************************************************)

\* t1 gives up pages as long as it is at its target.
TakesFromT1 == Len(t1) >= Larger(1, p)

\* try_replace_from_t1, bit 0: demote the head of t1 to the MRU end of b1.
EvictFromT1 ==
  /\ pc = "replace" /\ TakesFromT1
  /\ t1 # <<>> /\ Head(t1) \notin ref_bit
  /\ victim' = Head(t1)
  /\ t1' = Tail(t1)
  /\ b1' = Ghosts(b1, Head(t1))
  /\ index' = Repointed(Head(t1), GhostPlace(b1, "B1"))
  /\ pc' = "place"
  /\ UNCHANGED <<t2, b2, ref_bit, p, key, start>>

\* Mutant: the hand of t1 is advanced once more after a page was promoted.
RotatedAgain(s) == IF Len(s) > 1 THEN Append(Tail(Tail(s)), Head(Tail(s))) ELSE Tail(s)
HandAfterPromotion(s) == Tail(s)

\* try_replace_from_t1, bit 1: clear it and move the head to t2.
PromoteFromT1 ==
  /\ pc = "replace" /\ TakesFromT1
  /\ t1 # <<>> /\ Head(t1) \in ref_bit
  /\ ref_bit' = ref_bit \ {Head(t1)}
  /\ t1' = HandAfterPromotion(t1)
  /\ MoveToT2(Head(t1))
  /\ UNCHANGED <<b1, b2, p, pc, key, victim, start>>

\* try_replace_from_t2, bit 0: demote the head of t2 to the MRU end of b2.
EvictFromT2 ==
  /\ pc = "replace" /\ ~TakesFromT1
  /\ t2 # <<>> /\ Head(t2) \notin ref_bit
  /\ victim' = Head(t2)
  /\ t2' = Tail(t2)
  /\ b2' = Ghosts(b2, Head(t2))
  /\ index' = Repointed(Head(t2), GhostPlace(b2, "B2"))
  /\ pc' = "place"
  /\ UNCHANGED <<t1, b1, ref_bit, p, key, start>>

\* Mutant: the hand passes a page without clearing its bit.
StillSet(bits, k) == bits
Cleared(bits, k) == bits \ {k}

\* try_replace_from_t2, bit 1: clear it; the hand passes over the page.
PassOverT2 ==
  /\ pc = "replace" /\ ~TakesFromT1
  /\ t2 # <<>> /\ Head(t2) \in ref_bit
  /\ ref_bit' = Cleared(ref_bit, Head(t2))
  /\ t2' = Append(Tail(t2), Head(t2))
  /\ UNCHANGED <<t1, b1, b2, p, index, pc, key, victim, start>>
-----------------------------------------------------------------------------
(***************************************************************************)
(* put after replace(): discard a ghost, adapt the target, place the key.  *)
(***************************************************************************)
Placed ==
  /\ pc' = "idle" /\ key' = NoKey /\ victim' = NoKey
  /\ start' = <<>>

\* Mutant: the test for a discard from b1 is off by one.
DiscardsFromB1Late == Len(t1) + Len(b1) = Capacity + 1
DiscardsFromB1 == Len(t1) + Len(b1) = Capacity
DiscardsFromB2 == Len(t1) + Len(t2) + Len(b1) + Len(b2) = 2 * Capacity

\* remove_lru, and the removal of the discarded key from the index.
WithoutLru(ghosts) == IF ghosts = <<>> THEN ghosts ELSE Tail(ghosts)
Unindexed(ghosts) ==
  IF ghosts = <<>> THEN index ELSE [index EXCEPT ![Head(ghosts)] = "None"]

\* Lines 6 to 13 of the pseudocode: a key without a history.
PlaceNew ==
  /\ pc = "place"
  /\ ~InGhosts(key)
  /\ IF DiscardsFromB1
     THEN b1' = WithoutLru(b1) /\ b2' = b2 /\ InsertIntoT1(key, Unindexed(b1))
     ELSE IF DiscardsFromB2
     THEN b1' = b1 /\ b2' = WithoutLru(b2) /\ InsertIntoT1(key, Unindexed(b2))
     ELSE b1' = b1 /\ b2' = b2 /\ InsertIntoT1(key, index)
  /\ Placed
  /\ UNCHANGED <<t2, ref_bit, p>>

\* How far one ghost hit moves the target: the ratio of the ghost lists.
Delta(other, own) ==
  IF Len(own) > 0 THEN Larger(1, Len(other) \div Len(own)) ELSE 1

Raised == Smaller(p + Delta(b2, b1), Capacity)

\* Lines 14 to 16: the key was evicted from t1, which deserved more room.
PlaceFromB1 ==
  /\ pc = "place"
  /\ index[key] = "B1"
  /\ p' = Raised
  /\ b1' = RemoveKey(b1, key)
  /\ MoveToT2(key)
  /\ Placed
  /\ UNCHANGED <<t1, b2, ref_bit>>

\* Lines 17 to 19: the key was evicted from t2.
PlaceFromB2 ==
  /\ pc = "place"
  /\ index[key] = "B2"
  /\ p' = Larger(p - Delta(b1, b2), 0)
  /\ b2' = RemoveKey(b2, key)
  /\ MoveToT2(key)
  /\ Placed
  /\ UNCHANGED <<t1, b1, ref_bit>>
-----------------------------------------------------------------------------
Get(k) == Hit(k)
Put(k) == PutWithRoom(k) \/ PutWhenFull(k)

\* The part of put that runs on once the cache was found full.
Replacing ==
  \/ EvictFromT1
  \/ PromoteFromT1
  \/ EvictFromT2
  \/ PassOverT2
  \/ PlaceNew
  \/ PlaceFromB1
  \/ PlaceFromB2

Next ==
  \/ \E k \in Keys : Get(k) \/ Put(k)
  \/ Replacing

Spec == Init /\ [][Next]_vars
-----------------------------------------------------------------------------
(***************************************************************************)
(* Properties.                                                             *)
(***************************************************************************)

\* Types of every variable; the target stays between 0 and the capacity.
TypeOK ==
  /\ t1 \in Seq(Keys) /\ t2 \in Seq(Keys) /\ b1 \in Seq(Keys) /\ b2 \in Seq(Keys)
  /\ ref_bit \subseteq Keys
  /\ p \in 0 .. Capacity
  /\ index \in [Keys -> {"None", "T1", "T2", "B1", "B2"}]
  /\ pc \in {"idle", "replace", "place"}
  /\ key \in Keys \cup {NoKey} /\ victim \in Keys \cup {NoKey}

\* The sizes the paper promises and the tests assert between calls (I1 to
\* I6); within a put the comment of with_hasher: b1 never holds more than c
\* ghosts, b2 more than c + 1, so that no demoted key is dropped; and the
\* loop of replace() never looks for a head page in an empty clock, where it
\* would spin for ever.
CarInvariants ==
  /\ Len(t1) + Len(t2) <= Capacity
  /\ Len(b1) <= Capacity /\ Len(b2) <= Capacity + 1
  /\ pc = "idle" =>
       /\ Len(t1) + Len(b1) <= Capacity
       /\ Len(t1) + Len(t2) + Len(b1) + Len(b2) <= 2 * Capacity
       /\ Len(t1) + Len(t2) < Capacity => b1 = <<>> /\ b2 = <<>>
  /\ pc = "replace" /\ ~TakesFromT1 => t2 # <<>>

Holds(list, k) ==
  \E i \in DOMAIN list : list[i] = k /\ \A j \in DOMAIN list : list[j] = k => i = j
Lacks(list, k) == \A i \in DOMAIN list : list[i] # k

\* Index idx places in the list called name exactly the keys of s, each of
\* which occurs once.
Indexes(idx, s, name) ==
  \A k \in Keys : IF idx[k] = name THEN Holds(s, k) ELSE Lacks(s, k)

\* The index is exact at every moment: a key it places in a list occurs
\* there once and in no other list, any other key occurs nowhere, and only
\* resident pages have a reference bit.
IndexExact ==
  /\ Indexes(index, t1, "T1") /\ Indexes(index, t2, "T2")
  /\ Indexes(index, b1, "B1") /\ Indexes(index, b2, "B2")
  /\ \A k \in ref_bit : Resident(k)

\* The cache is exact at every moment of every call: the adaptive target
\* within its bounds, the sizes of CAR, and index, lists and reference bits
\* in agreement (get, put, replace, the ghost lists).
CacheExact == TypeOK /\ CarInvariants /\ IndexExact

\* The first key of a sequence that is not in S, or the default d.
FirstOutside(s, S, d) ==
  LET outside == {i \in DOMAIN s : s[i] \notin S}
  IN  IF outside = {} THEN d ELSE s[Min(outside)]

\* The page that a replacement has to evict, from the clocks at the start
\* of the put: the first page of t1 that was not referenced, as long as t1
\* is at its target; else the first of t2 that was not; else the first page
\* promoted meanwhile; else the one at the hand of t2, once around.
ExpectedVictim ==
  LET examined == SubSeq(start.t1, 1, Len(start.t1) + 1 - Larger(1, p))
      old      == FirstOutside(start.t2, start.ref_bit, Head(examined \o start.t2))
  IN  FirstOutside(examined, start.ref_bit, old)

\* Every page is given its second chance: what replace() evicts is the page
\* the clock has to choose, no page being skipped, forgotten or examined out
\* of turn by the moves between the two clocks.
VictimExact == pc = "place" => victim = ExpectedVictim

\* The loop of replace() terminates: every iteration that finds no victim
\* uses up a reference bit or a page of t1, and brings none.
WorkLeft == Len(t1) + Cardinality(ref_bit)
ReplaceProgress ==
  [][ pc = "replace" => pc' = "place" \/ WorkLeft' < WorkLeft ]_vars
=============================================================================
