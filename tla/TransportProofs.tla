--------------------------- MODULE TransportProofs ---------------------------
(***************************************************************************)
(* Proofs about the parts of the reqwest client, each for itself:          *)
(* CarCache, for every capacity and every set of keys; Transport, for      *)
(* every policy of retries and redirects and every answer; EventStream,    *)
(* for every limit and every stream of bytes and of frames.                *)
(***************************************************************************)
EXTENDS CarCache, Transport, EventStream, FiniteSetTheorems, SequenceFacts,
        TLAPS

Locations == {"None", "T1", "T2", "B1", "B2"}
-----------------------------------------------------------------------------
(***************************************************************************)
(* How the moves of a key keep one list and the index in step.             *)
(***************************************************************************)

\* Appending a key: it occurs once more, every other key as often as before.
LEMMA AppendOccurs ==
  ASSUME NEW s \in Seq(Keys), NEW k \in Keys, NEW j \in Keys
  PROVE  /\ j # k /\ Holds(s, j) => Holds(Append(s, k), j)
         /\ j # k /\ Lacks(s, j) => Lacks(Append(s, k), j)
         /\ Lacks(s, k) => Holds(Append(s, k), k)
<1> DEFINE a == Append(s, k)
<1>1. /\ DOMAIN s = 1 .. Len(s) /\ DOMAIN a = 1 .. Len(s) + 1
      /\ Len(s) \in Nat
      /\ \A i \in 1 .. Len(s) : a[i] = s[i]
      /\ a[Len(s) + 1] = k
  OBVIOUS
<1> HIDE DEF a
<1>2. ASSUME j # k, Holds(s, j) PROVE Holds(a, j)
  BY <1>1, <1>2 DEF Holds
<1>3. ASSUME j # k, Lacks(s, j) PROVE Lacks(a, j)
  BY <1>1, <1>3 DEF Lacks
<1>4. ASSUME Lacks(s, k) PROVE Holds(a, k)
  BY <1>1, <1>4 DEF Lacks, Holds
<1>5. QED
  BY <1>2, <1>3, <1>4 DEF a

\* Dropping the head, which occurred once: it occurs no more, every other
\* key as often as before.
LEMMA TailOccurs ==
  ASSUME NEW s \in Seq(Keys), s # <<>>, NEW j \in Keys
  PROVE  /\ j # Head(s) /\ Holds(s, j) => Holds(Tail(s), j)
         /\ Lacks(s, j) => Lacks(Tail(s), j)
         /\ Holds(s, Head(s)) => Lacks(Tail(s), Head(s))
<1> DEFINE t == Tail(s)
           h == Head(s)
<1>1. /\ DOMAIN s = 1 .. Len(s) /\ DOMAIN t = 1 .. Len(s) - 1
      /\ Len(s) \in Nat \ {0}
      /\ \A i \in 1 .. Len(s) - 1 : t[i] = s[i + 1]
      /\ s[1] = h
  OBVIOUS
<1> HIDE DEF t, h
<1>2. ASSUME j # h, Holds(s, j) PROVE Holds(t, j)
  <2>1. PICK i \in 1 .. Len(s) : s[i] = j /\ \A m \in 1 .. Len(s) : s[m] = j => i = m
    BY <1>1, <1>2 DEF Holds
  <2>2. i - 1 \in 1 .. Len(s) - 1 /\ t[i - 1] = j
    BY <1>1, <1>2, <2>1
  <2>3. \A m \in 1 .. Len(s) - 1 : t[m] = j => i - 1 = m
    BY <1>1, <2>1
  <2>4. QED
    BY <1>1, <2>2, <2>3 DEF Holds
<1>3. ASSUME Lacks(s, j) PROVE Lacks(t, j)
  BY <1>1, <1>3 DEF Lacks
<1>4. ASSUME Holds(s, h) PROVE Lacks(t, h)
  <2>1. \A m \in 1 .. Len(s) : s[m] = h => m = 1
    BY <1>1, <1>4 DEF Holds
  <2>2. \A m \in 1 .. Len(s) - 1 : t[m] # h
    BY <1>1, <2>1
  <2>3. QED
    BY <1>1, <2>2 DEF Lacks
<1>5. QED
  BY <1>2, <1>3, <1>4 DEF t, h

\* Removing a key that occurs once, as GhostList::remove does by its slot.
LEMMA RemoveOccurs ==
  ASSUME NEW s \in Seq(Keys), NEW k \in Keys, Holds(s, k), NEW j \in Keys
  PROVE  /\ RemoveKey(s, k) \in Seq(Keys)
         /\ Len(RemoveKey(s, k)) = Len(s) - 1
         /\ Lacks(RemoveKey(s, k), k)
         /\ j # k /\ Holds(s, j) => Holds(RemoveKey(s, k), j)
         /\ Lacks(s, j) => Lacks(RemoveKey(s, k), j)
<1> DEFINE r == RemoveKey(s, k)
<1>1. DOMAIN s = 1 .. Len(s) /\ Len(s) \in Nat
  OBVIOUS
<1>2. Contains(s, k)
  BY <1>1 DEF Holds, Contains
<1>3. PICK n \in 1 .. Len(s) : s[n] = k /\ r = RemoveAt(s, n)
  BY <1>2, RemoveFirstPosition DEF RemoveKey
<1>4. /\ r \in Seq(Keys) /\ Len(r) = Len(s) - 1
      /\ \A i \in 1 .. Len(s) - 1 : r[i] = IF i < n THEN s[i] ELSE s[i + 1]
  BY <1>3, RemoveAtProperties
<1>5. DOMAIN r = 1 .. Len(s) - 1
  BY <1>4
<1> HIDE DEF r
<1>6. \A m \in 1 .. Len(s) : s[m] = k => m = n
  BY <1>1, <1>3 DEF Holds
<1>7. Lacks(r, k)
  <2>1. ASSUME NEW i \in 1 .. Len(s) - 1 PROVE r[i] # k
    <3>1. CASE i < n
      BY <3>1, <1>1, <1>4, <1>6
    <3>2. CASE ~(i < n)
      BY <3>2, <1>1, <1>4, <1>6
    <3>3. QED
      BY <3>1, <3>2
  <2>2. QED
    BY <2>1, <1>5 DEF Lacks
<1>8. ASSUME j # k, Holds(s, j) PROVE Holds(r, j)
  <2>1. PICK i \in 1 .. Len(s) : s[i] = j /\ \A m \in 1 .. Len(s) : s[m] = j => i = m
    BY <1>1, <1>8 DEF Holds
  <2> DEFINE q == IF i < n THEN i ELSE i - 1
  <2>2. i # n
    BY <1>3, <1>8, <2>1
  <2>3. q \in 1 .. Len(s) - 1 /\ r[q] = j
    BY <1>1, <1>4, <2>1, <2>2
  <2>4. ASSUME NEW m \in 1 .. Len(s) - 1, r[m] = j PROVE q = m
    BY <1>1, <1>4, <2>1, <2>2, <2>4
  <2>5. QED
    BY <1>5, <2>3, <2>4 DEF Holds
<1>9. ASSUME Lacks(s, j) PROVE Lacks(r, j)
  BY <1>1, <1>4, <1>5, <1>9 DEF Lacks
<1>10. QED
  BY <1>4, <1>7, <1>8, <1>9 DEF r

\* A key that was not in the list is appended and its index entry set.
LEMMA IndexAppend ==
  ASSUME NEW idx \in [Keys -> Locations], NEW name, NEW s \in Seq(Keys),
         Indexes(idx, s, name), NEW k \in Keys, idx[k] # name
  PROVE  Indexes([idx EXCEPT ![k] = name], Append(s, k), name)
<1> DEFINE new == [idx EXCEPT ![k] = name]
<1>1. SUFFICES ASSUME NEW j \in Keys
               PROVE  IF new[j] = name THEN Holds(Append(s, k), j) ELSE Lacks(Append(s, k), j)
  BY DEF Indexes
<1>2. CASE j = k
  <2>1. Lacks(s, k) /\ new[j] = name
    BY <1>2 DEF Indexes
  <2>2. QED
    BY <1>2, <2>1, AppendOccurs
<1>3. CASE j # k
  <2>1. new[j] = idx[j]
    BY <1>3
  <2>2. IF idx[j] = name THEN Holds(s, j) ELSE Lacks(s, j)
    BY DEF Indexes
  <2>3. QED
    BY <1>3, <2>1, <2>2, AppendOccurs
<1>4. QED
  BY <1>2, <1>3

\* The head of a list leaves it and is indexed elsewhere.
LEMMA IndexTail ==
  ASSUME NEW idx \in [Keys -> Locations], NEW name, NEW other, other # name,
         NEW s \in Seq(Keys), s # <<>>, Indexes(idx, s, name)
  PROVE  /\ Head(s) \in Keys /\ idx[Head(s)] = name
         /\ Indexes([idx EXCEPT ![Head(s)] = other], Tail(s), name)
<1> DEFINE h == Head(s)
           new == [idx EXCEPT ![h] = other]
<1>1. h \in Keys /\ 1 \in DOMAIN s /\ s[1] = h
  OBVIOUS
<1>2. ~Lacks(s, h)
  BY <1>1 DEF Lacks
<1>3. idx[h] = name /\ Holds(s, h)
  BY <1>1, <1>2 DEF Indexes
<1>4. ASSUME NEW j \in Keys
      PROVE  IF new[j] = name THEN Holds(Tail(s), j) ELSE Lacks(Tail(s), j)
  <2>1. IF idx[j] = name THEN Holds(s, j) ELSE Lacks(s, j)
    BY DEF Indexes
  <2>2. CASE j = h
    <3>1. new[j] = other
      BY <2>2
    <3>2. QED
      BY <2>2, <3>1, <1>3, TailOccurs
  <2>3. CASE j # h
    <3>1. new[j] = idx[j]
      BY <2>3
    <3>2. QED
      BY <2>1, <2>3, <3>1, TailOccurs
  <2>4. QED
    BY <2>2, <2>3
<1>5. QED
  BY <1>1, <1>3, <1>4 DEF Indexes

\* A key is removed from the middle of a list and indexed elsewhere.
LEMMA IndexRemove ==
  ASSUME NEW idx \in [Keys -> Locations], NEW name, NEW other, other # name,
         NEW s \in Seq(Keys), Indexes(idx, s, name), NEW k \in Keys, idx[k] = name
  PROVE  /\ RemoveKey(s, k) \in Seq(Keys)
         /\ Len(RemoveKey(s, k)) = Len(s) - 1
         /\ Indexes([idx EXCEPT ![k] = other], RemoveKey(s, k), name)
<1> DEFINE new == [idx EXCEPT ![k] = other]
<1>1. Holds(s, k)
  BY DEF Indexes
<1>2. ASSUME NEW j \in Keys
      PROVE  IF new[j] = name THEN Holds(RemoveKey(s, k), j) ELSE Lacks(RemoveKey(s, k), j)
  <2>1. IF idx[j] = name THEN Holds(s, j) ELSE Lacks(s, j)
    BY DEF Indexes
  <2>2. CASE j = k
    <3>1. new[j] = other
      BY <2>2
    <3>2. QED
      BY <2>2, <3>1, <1>1, RemoveOccurs
  <2>3. CASE j # k
    <3>1. new[j] = idx[j]
      BY <2>3
    <3>2. QED
      BY <2>1, <2>3, <3>1, <1>1, RemoveOccurs
  <2>4. QED
    BY <2>2, <2>3
<1>3. QED
  BY <1>1, <1>2, RemoveOccurs DEF Indexes

\* Moves between other lists do not concern a list.
LEMMA IndexOther ==
  ASSUME NEW idx \in [Keys -> Locations], NEW name, NEW other, other # name,
         NEW s, Indexes(idx, s, name), NEW k \in Keys, idx[k] # name
  PROVE  Indexes([idx EXCEPT ![k] = other], s, name)
  BY DEF Indexes

\* The hand passes over the head of a clock: the index does not change.
LEMMA IndexRotate ==
  ASSUME NEW idx \in [Keys -> Locations], NEW name \in Locations \ {"None"},
         NEW s \in Seq(Keys), s # <<>>, Indexes(idx, s, name)
  PROVE  Indexes(idx, Append(Tail(s), Head(s)), name)
<1> DEFINE h == Head(s)
           gone == [idx EXCEPT ![h] = "None"]
<1>1. h \in Keys /\ idx[h] = name /\ Indexes(gone, Tail(s), name)
  BY IndexTail
<1>2. Tail(s) \in Seq(Keys) /\ gone \in [Keys -> Locations] /\ gone[h] # name
  BY <1>1 DEF Locations
<1>3. Indexes([gone EXCEPT ![h] = name], Append(Tail(s), h), name)
  BY <1>1, <1>2, IndexAppend
<1>4. [gone EXCEPT ![h] = name] = idx
  BY <1>1
<1>5. QED
  BY <1>3, <1>4
-----------------------------------------------------------------------------
(***************************************************************************)
(* The inductive invariant.                                                *)
(***************************************************************************)
Pages == Len(t1) + Len(t2)
Directory == Len(t1) + Len(t2) + Len(b1) + Len(b2)

\* The sizes at every point of a put.  After replace() one page is missing,
\* which is what leaves room for one ghost more than c in b2.
Sizes ==
  /\ Pages <= Capacity
  /\ Len(t1) + Len(b1) <= Capacity
  /\ Directory <= 2 * Capacity
  /\ pc = "idle" /\ Pages < Capacity => Len(b1) = 0 /\ Len(b2) = 0
  /\ pc = "replace" => Pages = Capacity /\ Capacity # 0
  /\ pc = "place" => Pages = Capacity - 1

\* The put that is running is one for a key that is not resident.
KeyMissing == pc # "idle" => key \in Keys /\ ~Resident(key)

Inv ==
  /\ TypeOK
  /\ IndexExact
  /\ IsFiniteSet(ref_bit)
  /\ Sizes
  /\ KeyMissing

\* The types of the lists and of the index, and that lengths are naturals.
ListTypes ==
  /\ t1 \in Seq(Keys) /\ t2 \in Seq(Keys) /\ b1 \in Seq(Keys) /\ b2 \in Seq(Keys)
  /\ index \in [Keys -> Locations]
  /\ Len(t1) \in Nat /\ Len(t2) \in Nat /\ Len(b1) \in Nat /\ Len(b2) \in Nat
  /\ Capacity \in Nat

\* They follow from the invariant.
LEMMA Types == Inv => ListTypes
<1>1. ASSUME Inv
      PROVE  /\ t1 \in Seq(Keys) /\ t2 \in Seq(Keys) /\ b1 \in Seq(Keys) /\ b2 \in Seq(Keys)
             /\ index \in [Keys -> Locations]
  BY <1>1 DEF Inv, TypeOK, Locations
<1>2. QED
  BY <1>1, LenProperties, CarAssumption DEF ListTypes

\* The empty cache satisfies the invariant.
LEMMA InitInv == Init => Inv
<1> SUFFICES ASSUME Init PROVE Inv
  OBVIOUS
<1>1. TypeOK
  BY CarAssumption DEF Init, TypeOK
<1>2. IndexExact
  BY DEF Init, IndexExact, Indexes, Lacks
<1>3. IsFiniteSet(ref_bit)
  BY FS_EmptySet DEF Init
<1>4. Sizes /\ KeyMissing
  BY CarAssumption DEF Init, Sizes, Pages, Directory, KeyMissing
<1>5. QED
  BY <1>1, <1>2, <1>3, <1>4 DEF Inv

\* A hit changes a reference bit only.
LEMMA HitInv ==
  ASSUME Inv, NEW k \in Keys, Hit(k)
  PROVE  Inv'
<1>1. TypeOK'
  BY DEF Inv, TypeOK, Hit, lists
<1>2. IndexExact'
  BY DEF Inv, IndexExact, Hit, lists, Resident, Indexes
<1>3. IsFiniteSet(ref_bit)'
  BY FS_AddElement DEF Inv, Hit
<1>4. Sizes' /\ KeyMissing'
  BY DEF Inv, Sizes, Pages, Directory, KeyMissing, Hit, lists, Resident
<1>5. QED
  BY <1>1, <1>2, <1>3, <1>4 DEF Inv

\* A page enters t1 of a cache that is not full: there are no ghosts.
LEMMA PutWithRoomInv ==
  ASSUME Inv, NEW k \in Keys, PutWithRoom(k)
  PROVE  Inv'
<1>1. ListTypes
  BY Types
<1>2. /\ pc = "idle" /\ Len(t1) + Len(t2) < Capacity /\ Len(t1) < Capacity
      /\ Len(b1) = 0 /\ Len(b2) = 0
  <2>1. pc = "idle" /\ Len(t1) + Len(t2) # Capacity
    BY DEF PutWithRoom
  <2>2. Sizes
    BY DEF Inv
  <2>3. QED
    BY SMTT(60), <1>1, <2>1, <2>2 DEF ListTypes, Sizes, Pages
<1>3. /\ t1' = Append(t1, k) /\ index' = [index EXCEPT ![k] = "T1"]
      /\ UNCHANGED <<t2, b1, b2, ref_bit, p, pc, key, victim>>
  BY <1>2 DEF PutWithRoom, InsertIntoT1
<1>4. index[k] = "None"
  <2>1. index[k] # "T1" /\ index[k] # "T2"
    BY DEF PutWithRoom, Resident
  <2>2. b1 = <<>> /\ b2 = <<>>
    BY <1>1, <1>2 DEF ListTypes
  <2>3. ~Holds(b1, k) /\ ~Holds(b2, k)
    BY <2>2 DEF Holds
  <2>4. index[k] # "B1" /\ index[k] # "B2"
    BY <2>3 DEF Inv, IndexExact, Indexes
  <2>5. QED
    BY <1>1, <2>1, <2>4 DEF ListTypes, Locations
<1>5. TypeOK'
  BY <1>1, <1>3 DEF ListTypes, Inv, TypeOK, Locations
<1>6. IndexExact'
  <2>1. Indexes(index, t1, "T1")' /\ Indexes(index, t2, "T2")'
        /\ Indexes(index, b1, "B1")' /\ Indexes(index, b2, "B2")'
    BY <1>1, <1>3, <1>4, IndexAppend, IndexOther DEF ListTypes, Inv, IndexExact
  <2>2. \A j \in ref_bit' : Resident(j)'
    BY <1>1, <1>3 DEF ListTypes, Inv, TypeOK, IndexExact, Resident
  <2>3. QED
    BY <2>1, <2>2 DEF IndexExact
<1>7. Sizes'
  BY <1>1, <1>2, <1>3, CarAssumption DEF ListTypes, Sizes, Pages, Directory
<1>8. QED
  BY <1>2, <1>3, <1>5, <1>6, <1>7 DEF Inv, KeyMissing

\* A put that finds the cache full only notes the key.
LEMMA PutWhenFullInv ==
  ASSUME Inv, NEW k \in Keys, PutWhenFull(k)
  PROVE  Inv'
<1>1. TypeOK'
  BY DEF Inv, TypeOK, PutWhenFull, lists
<1>2. IndexExact' /\ IsFiniteSet(ref_bit)'
  BY DEF Inv, IndexExact, PutWhenFull, lists, Resident, Indexes
<1>3. Sizes'
  BY DEF Inv, Sizes, Pages, Directory, PutWhenFull, lists
<1>4. KeyMissing'
  BY DEF KeyMissing, PutWhenFull, Resident
<1>5. QED
  BY <1>1, <1>2, <1>3, <1>4 DEF Inv

\* What move_to_t2 does when t2 has room and the key is indexed.
LEMMA MoveToT2Effect ==
  ASSUME ListTypes, Len(t2) < Capacity, NEW k \in Keys, index[k] # "None", MoveToT2(k)
  PROVE  t2' = Append(t2, k) /\ index' = [index EXCEPT ![k] = "T2"]
  BY DEF ListTypes, MoveToT2, Repointed

\* Demoting the head of t1: b1 has a slot for it.
LEMMA EvictFromT1Inv ==
  ASSUME Inv, EvictFromT1
  PROVE  Inv'
<1> DEFINE h == Head(t1)
<1>1. ListTypes
  BY Types
<1>2. Sizes /\ pc = "replace" /\ t1 # <<>> /\ h \notin ref_bit
  BY DEF Inv, EvictFromT1
<1>3. h \in Keys /\ Len(t1) >= 1 /\ Len(Tail(t1)) = Len(t1) - 1 /\ Tail(t1) \in Seq(Keys)
  BY <1>1, <1>2 DEF ListTypes
<1>4. Len(b1) < Capacity + 1
  BY <1>1, <1>2, <1>3 DEF ListTypes, Sizes
<1>5. /\ t1' = Tail(t1) /\ b1' = Append(b1, h) /\ index' = [index EXCEPT ![h] = "B1"]
      /\ victim' = h /\ pc' = "place"
      /\ UNCHANGED <<t2, b2, ref_bit, p, key>>
  <2>1. index[h] = "T1"
    BY <1>1, <1>2, IndexTail DEF ListTypes, Inv, IndexExact
  <2>2. QED
    BY <1>1, <1>3, <1>4, <2>1 DEF ListTypes, EvictFromT1, Ghosts, GhostPlace, GhostRoom, Repointed
<1>6. index[h] = "T1" /\ Indexes(index, t1, "T1")'
  BY <1>1, <1>2, <1>5, IndexTail DEF ListTypes, Inv, IndexExact
<1>7. TypeOK'
  BY <1>1, <1>3, <1>5 DEF ListTypes, Inv, TypeOK, Locations
<1>8. IndexExact'
  <2>1. Indexes(index, t2, "T2")' /\ Indexes(index, b2, "B2")'
    BY <1>1, <1>3, <1>5, <1>6, IndexOther DEF ListTypes, Inv, IndexExact
  <2>2. Indexes(index, b1, "B1")'
    BY <1>1, <1>3, <1>5, <1>6, IndexAppend DEF ListTypes, Inv, IndexExact
  <2>3. \A j \in ref_bit' : Resident(j)'
    BY <1>1, <1>2, <1>5 DEF ListTypes, Inv, TypeOK, IndexExact, Resident
  <2>4. QED
    BY <1>6, <2>1, <2>2, <2>3 DEF IndexExact
<1>9. Sizes'
  BY <1>1, <1>2, <1>3, <1>5 DEF ListTypes, Sizes, Pages, Directory
<1>10. KeyMissing'
  BY <1>1, <1>2, <1>3, <1>5, <1>6 DEF ListTypes, Inv, KeyMissing, Resident
<1>11. QED
  BY <1>5, <1>7, <1>8, <1>9, <1>10 DEF Inv

\* A referenced head of t1 moves to t2, which has room since t1 gave one up.
LEMMA PromoteFromT1Inv ==
  ASSUME Inv, PromoteFromT1
  PROVE  Inv'
<1> DEFINE h == Head(t1)
<1>1. ListTypes
  BY Types
<1>2. Sizes /\ pc = "replace" /\ t1 # <<>> /\ h \in ref_bit
  BY DEF Inv, PromoteFromT1
<1>3. h \in Keys /\ Len(t1) >= 1 /\ Len(Tail(t1)) = Len(t1) - 1 /\ Tail(t1) \in Seq(Keys)
  BY <1>1, <1>2 DEF ListTypes
<1>4. Len(t2) < Capacity
  BY <1>1, <1>2, <1>3 DEF ListTypes, Sizes, Pages
<1>5. index[h] = "T1" /\ Indexes([index EXCEPT ![h] = "T2"], Tail(t1), "T1")
  BY <1>1, <1>2, IndexTail DEF ListTypes, Inv, IndexExact
<1>6. /\ t1' = Tail(t1) /\ ref_bit' = ref_bit \ {h} /\ MoveToT2(h)
      /\ UNCHANGED <<b1, b2, p, pc, key, victim>>
  BY DEF PromoteFromT1, HandAfterPromotion
<1>7. t2' = Append(t2, h) /\ index' = [index EXCEPT ![h] = "T2"]
  BY <1>1, <1>3, <1>4, <1>5, <1>6, MoveToT2Effect
<1>8. TypeOK'
  BY <1>1, <1>3, <1>6, <1>7 DEF ListTypes, Inv, TypeOK, Locations
<1>9. IndexExact'
  <2>1. Indexes(index, b1, "B1")' /\ Indexes(index, b2, "B2")'
    BY <1>1, <1>3, <1>5, <1>6, <1>7, IndexOther DEF ListTypes, Inv, IndexExact
  <2>2. Indexes(index, t2, "T2")'
    BY <1>1, <1>3, <1>5, <1>7, IndexAppend DEF ListTypes, Inv, IndexExact
  <2>3. \A j \in ref_bit' : Resident(j)'
    BY <1>1, <1>3, <1>6, <1>7 DEF ListTypes, Inv, TypeOK, IndexExact, Resident
  <2>4. QED
    BY <1>5, <1>6, <1>7, <2>1, <2>2, <2>3 DEF IndexExact
<1>10. Sizes'
  BY <1>1, <1>2, <1>3, <1>6, <1>7 DEF ListTypes, Sizes, Pages, Directory
<1>11. KeyMissing'
  BY <1>1, <1>2, <1>3, <1>5, <1>6, <1>7 DEF ListTypes, Inv, KeyMissing, Resident
<1>12. IsFiniteSet(ref_bit)'
  BY <1>6, FS_RemoveElement DEF Inv
<1>13. QED
  BY <1>8, <1>9, <1>10, <1>11, <1>12 DEF Inv

\* Demoting the head of t2: b2 has a slot for it, the slack slot at worst.
LEMMA EvictFromT2Inv ==
  ASSUME Inv, EvictFromT2
  PROVE  Inv'
<1> DEFINE h == Head(t2)
<1>1. ListTypes
  BY Types
<1>2. Sizes /\ pc = "replace" /\ t2 # <<>> /\ h \notin ref_bit
  BY DEF Inv, EvictFromT2
<1>3. h \in Keys /\ Len(t2) >= 1 /\ Len(Tail(t2)) = Len(t2) - 1 /\ Tail(t2) \in Seq(Keys)
  BY <1>1, <1>2 DEF ListTypes
<1>4. Len(b2) < Capacity + 1
  BY <1>1, <1>2, <1>3 DEF ListTypes, Sizes, Pages, Directory
<1>5. /\ t2' = Tail(t2) /\ b2' = Append(b2, h) /\ index' = [index EXCEPT ![h] = "B2"]
      /\ victim' = h /\ pc' = "place"
      /\ UNCHANGED <<t1, b1, ref_bit, p, key>>
  <2>1. index[h] = "T2"
    BY <1>1, <1>2, IndexTail DEF ListTypes, Inv, IndexExact
  <2>2. QED
    BY <1>1, <1>3, <1>4, <2>1 DEF ListTypes, EvictFromT2, Ghosts, GhostPlace, GhostRoom, Repointed
<1>6. index[h] = "T2" /\ Indexes(index, t2, "T2")'
  BY <1>1, <1>2, <1>5, IndexTail DEF ListTypes, Inv, IndexExact
<1>7. TypeOK'
  BY <1>1, <1>3, <1>5 DEF ListTypes, Inv, TypeOK, Locations
<1>8. IndexExact'
  <2>1. Indexes(index, t1, "T1")' /\ Indexes(index, b1, "B1")'
    BY <1>1, <1>3, <1>5, <1>6, IndexOther DEF ListTypes, Inv, IndexExact
  <2>2. Indexes(index, b2, "B2")'
    BY <1>1, <1>3, <1>5, <1>6, IndexAppend DEF ListTypes, Inv, IndexExact
  <2>3. \A j \in ref_bit' : Resident(j)'
    BY <1>1, <1>2, <1>5 DEF ListTypes, Inv, TypeOK, IndexExact, Resident
  <2>4. QED
    BY <1>6, <2>1, <2>2, <2>3 DEF IndexExact
<1>9. Sizes'
  BY <1>1, <1>2, <1>3, <1>5 DEF ListTypes, Sizes, Pages, Directory
<1>10. KeyMissing'
  BY <1>1, <1>2, <1>3, <1>5, <1>6 DEF ListTypes, Inv, KeyMissing, Resident
<1>11. QED
  BY <1>5, <1>7, <1>8, <1>9, <1>10 DEF Inv

\* The hand passes over a referenced page of t2.
LEMMA PassOverT2Inv ==
  ASSUME Inv, PassOverT2
  PROVE  Inv'
<1> DEFINE h == Head(t2)
<1>1. ListTypes
  BY Types
<1>2. Sizes /\ t2 # <<>>
  BY DEF Inv, PassOverT2
<1>3. h \in Keys /\ Len(Tail(t2)) = Len(t2) - 1 /\ Tail(t2) \in Seq(Keys)
  BY <1>1, <1>2 DEF ListTypes
<1>4. /\ t2' = Append(Tail(t2), h) /\ ref_bit' = ref_bit \ {h}
      /\ UNCHANGED <<t1, b1, b2, p, index, pc, key, victim>>
  BY DEF PassOverT2, Cleared
<1>5. Len(t2') = Len(t2) /\ t2' \in Seq(Keys)
  BY <1>1, <1>3, <1>4 DEF ListTypes
<1>6. TypeOK'
  BY <1>4, <1>5 DEF Inv, TypeOK
<1>7. Indexes(index, t2, "T2")'
  BY <1>1, <1>2, <1>4, IndexRotate DEF ListTypes, Inv, IndexExact, Locations
<1>8. IndexExact'
  BY <1>4, <1>7 DEF Inv, IndexExact, Indexes, Resident
<1>9. Sizes' /\ KeyMissing'
  BY <1>2, <1>4, <1>5 DEF Inv, Sizes, Pages, Directory, KeyMissing, Resident
<1>10. IsFiniteSet(ref_bit)'
  BY <1>4, FS_RemoveElement DEF Inv
<1>11. QED
  BY <1>6, <1>8, <1>9, <1>10 DEF Inv

\* A new page enters t1 with an index from which at most one ghost, the LRU
\* of the list it is discarded from, has been removed.
LEMMA PlaceNewInv ==
  ASSUME Inv, PlaceNew
  PROVE  Inv'
<1>1. ListTypes
  BY Types
<1>2. Sizes /\ pc = "place" /\ key \in Keys
  BY DEF Inv, PlaceNew, KeyMissing
<1>3. index[key] = "None"
  BY <1>1, <1>2 DEF ListTypes, Locations, Inv, KeyMissing, Resident, PlaceNew, InGhosts
<1>4. Len(t1) < Capacity
  BY <1>1, <1>2 DEF ListTypes, Sizes, Pages
<1>5. /\ pc' = "idle" /\ key' = NoKey /\ victim' = NoKey
      /\ UNCHANGED <<t2, ref_bit, p>>
  BY DEF PlaceNew, Placed
<1>6. ASSUME NEW idx \in [Keys -> Locations], InsertIntoT1(key, idx), idx[key] = "None",
             \A j \in Keys : Resident(j) => idx[j] = index[j],
             b1' \in Seq(Keys), b2' \in Seq(Keys),
             Indexes(idx, t1, "T1"), Indexes(idx, t2, "T2"),
             Indexes(idx, b1', "B1"), Indexes(idx, b2', "B2"),
             Len(t1) + 1 + Len(b1') <= Capacity,
             Len(t1) + 1 + Len(t2) + Len(b1') + Len(b2') <= 2 * Capacity
      PROVE  Inv'
  <2>1. t1' = Append(t1, key) /\ index' = [idx EXCEPT ![key] = "T1"]
    BY <1>4, <1>6 DEF InsertIntoT1
  <2>2. TypeOK'
    BY <1>1, <1>2, <1>5, <1>6, <2>1 DEF ListTypes, Inv, TypeOK, Locations
  <2>3. /\ Indexes(index, t1, "T1")' /\ Indexes(index, t2, "T2")'
        /\ Indexes(index, b1, "B1")' /\ Indexes(index, b2, "B2")'
    BY <1>1, <1>2, <1>5, <1>6, <2>1, IndexAppend, IndexOther DEF ListTypes
  <2>4. \A j \in ref_bit' : Resident(j)'
    <3>1. ASSUME NEW j \in ref_bit PROVE Resident(j)'
      <4>1. j \in Keys /\ Resident(j) /\ idx[j] = index[j]
        BY <1>6 DEF Inv, TypeOK, IndexExact
      <4>2. index'[j] \in {"T1", "T2"}
        BY <1>6, <2>1, <4>1 DEF Resident
      <4>3. QED
        BY <4>2 DEF Resident
    <3>2. QED
      BY <1>5, <3>1
  <2>5. Len(t1') = Len(t1) + 1
    BY <1>1, <1>2, <2>1 DEF ListTypes
  <2>6. Len(b1') \in Nat /\ Len(b2') \in Nat
    BY <1>6
  <2>7. Sizes'
    BY <1>1, <1>2, <1>5, <1>6, <2>5, <2>6 DEF ListTypes, Sizes, Pages, Directory
  <2>8. IndexExact'
    BY <2>3, <2>4 DEF IndexExact
  <2>9. QED
    BY <1>5, <2>2, <2>7, <2>8 DEF Inv, KeyMissing
<1>7. CASE DiscardsFromB1
  <2> DEFINE h == Head(b1)
             idx == [index EXCEPT ![h] = "None"]
  <2>1. Len(b1) >= 1 /\ b1 # <<>>
    BY <1>1, <1>4, <1>7 DEF ListTypes, DiscardsFromB1
  <2>2. b1' = Tail(b1) /\ b2' = b2 /\ InsertIntoT1(key, idx)
    BY <1>7, <2>1 DEF PlaceNew, WithoutLru, Unindexed
  <2>3. /\ h \in Keys /\ index[h] = "B1" /\ Indexes(idx, Tail(b1), "B1")
    BY <1>1, <2>1, IndexTail DEF ListTypes, Inv, IndexExact
  <2>4. Indexes(idx, t1, "T1") /\ Indexes(idx, t2, "T2") /\ Indexes(idx, b2, "B2")
    BY <1>1, <2>3, IndexOther DEF ListTypes, Inv, IndexExact
  <2>5. /\ idx \in [Keys -> Locations] /\ idx[key] = "None"
        /\ \A j \in Keys : Resident(j) => idx[j] = index[j]
    BY <1>1, <1>2, <1>3, <2>3 DEF ListTypes, Locations, Resident
  <2>6. Tail(b1) \in Seq(Keys) /\ Len(Tail(b1)) = Len(b1) - 1 /\ b2 \in Seq(Keys)
    BY <1>1, <2>1 DEF ListTypes
  <2>7. /\ Len(t1) + 1 + Len(b1') <= Capacity
        /\ Len(t1) + 1 + Len(t2) + Len(b1') + Len(b2') <= 2 * Capacity
    <3>1. /\ Len(t1) + Len(b1) <= Capacity
          /\ Len(t1) + Len(t2) + Len(b1) + Len(b2) <= 2 * Capacity
      BY <1>2 DEF Sizes, Directory
    <3>2. Len(t1) + Len(b1) = Capacity
      BY <1>7 DEF DiscardsFromB1
    <3>3. QED
      BY <1>1, <2>2, <2>6, <3>1, <3>2 DEF ListTypes
  <2> HIDE DEF idx
  <2>8. QED
    BY <1>6, <2>2, <2>3, <2>4, <2>5, <2>6, <2>7
<1>8. CASE ~DiscardsFromB1 /\ DiscardsFromB2
  <2> DEFINE h == Head(b2)
             idx == [index EXCEPT ![h] = "None"]
  <2>1. Len(b2) >= 1 /\ b2 # <<>>
    <3>1. Len(b2) >= 1
      BY <1>1, <1>2, <1>8 DEF ListTypes, Sizes, Pages, DiscardsFromB2
    <3>2. QED
      BY <3>1
  <2>2. b2' = Tail(b2) /\ b1' = b1 /\ InsertIntoT1(key, idx)
    BY <1>8, <2>1 DEF PlaceNew, WithoutLru, Unindexed
  <2>3. /\ h \in Keys /\ index[h] = "B2" /\ Indexes(idx, Tail(b2), "B2")
    BY <1>1, <2>1, IndexTail DEF ListTypes, Inv, IndexExact
  <2>4. Indexes(idx, t1, "T1") /\ Indexes(idx, t2, "T2") /\ Indexes(idx, b1, "B1")
    BY <1>1, <2>3, IndexOther DEF ListTypes, Inv, IndexExact
  <2>5. /\ idx \in [Keys -> Locations] /\ idx[key] = "None"
        /\ \A j \in Keys : Resident(j) => idx[j] = index[j]
    BY <1>1, <1>2, <1>3, <2>3 DEF ListTypes, Locations, Resident
  <2>6. Tail(b2) \in Seq(Keys) /\ Len(Tail(b2)) = Len(b2) - 1 /\ b1 \in Seq(Keys)
    BY <1>1, <2>1 DEF ListTypes
  <2>7. /\ Len(t1) + 1 + Len(b1') <= Capacity
        /\ Len(t1) + 1 + Len(t2) + Len(b1') + Len(b2') <= 2 * Capacity
    <3>1. /\ Len(t1) + Len(b1) <= Capacity
          /\ Len(t1) + Len(t2) + Len(b1) + Len(b2) <= 2 * Capacity
      BY <1>2 DEF Sizes, Directory
    <3>2. Len(t1) + Len(b1) # Capacity
      BY <1>8 DEF DiscardsFromB1
    <3>3. QED
      BY <1>1, <2>2, <2>6, <3>1, <3>2 DEF ListTypes
  <2> HIDE DEF idx
  <2>8. QED
    BY <1>6, <2>2, <2>3, <2>4, <2>5, <2>6, <2>7
<1>9. CASE ~DiscardsFromB1 /\ ~DiscardsFromB2
  <2>1. b1' = b1 /\ b2' = b2 /\ InsertIntoT1(key, index)
    BY <1>9 DEF PlaceNew
  <2>2. /\ Len(t1) + 1 + Len(b1') <= Capacity
        /\ Len(t1) + 1 + Len(t2) + Len(b1') + Len(b2') <= 2 * Capacity
    <3>1. /\ Len(t1) + Len(b1) <= Capacity
          /\ Len(t1) + Len(t2) + Len(b1) + Len(b2) <= 2 * Capacity
      BY <1>2 DEF Sizes, Directory
    <3>2. /\ Len(t1) + Len(b1) # Capacity
          /\ Len(t1) + Len(t2) + Len(b1) + Len(b2) # 2 * Capacity
      BY <1>9 DEF DiscardsFromB1, DiscardsFromB2
    <3>3. Len(b1') = Len(b1) /\ Len(b2') = Len(b2)
      BY <2>1
    <3>4. /\ Len(t1) \in Nat /\ Len(t2) \in Nat /\ Len(b1) \in Nat /\ Len(b2) \in Nat
          /\ Capacity \in Nat
      BY <1>1 DEF ListTypes
    <3>5. /\ Len(t1) + 1 + Len(b1) <= Capacity
          /\ Len(t1) + 1 + Len(t2) + Len(b1) + Len(b2) <= 2 * Capacity
      BY <3>1, <3>2, <3>4
    <3>6. QED
      BY <3>3, <3>5
  <2>3. /\ Indexes(index, t1, "T1") /\ Indexes(index, t2, "T2")
        /\ Indexes(index, b1, "B1") /\ Indexes(index, b2, "B2")
    BY DEF Inv, IndexExact
  <2>4. QED
    BY <1>1, <1>3, <1>6, <2>1, <2>2, <2>3 DEF ListTypes
<1>10. QED
  BY <1>7, <1>8, <1>9

\* A ghost of b1 becomes a page of t2.
LEMMA PlaceFromB1Inv ==
  ASSUME Inv, PlaceFromB1
  PROVE  Inv'
<1>1. ListTypes
  BY Types
<1>2. Sizes /\ pc = "place" /\ key \in Keys /\ index[key] = "B1"
  BY DEF Inv, PlaceFromB1, KeyMissing
<1>3. Len(t2) < Capacity
  BY <1>1, <1>2 DEF ListTypes, Sizes, Pages
<1>4. /\ p' = Raised /\ b1' = RemoveKey(b1, key)
      /\ pc' = "idle" /\ key' = NoKey /\ victim' = NoKey
      /\ UNCHANGED <<t1, b2, ref_bit>>
  BY DEF PlaceFromB1, Placed
<1>5. t2' = Append(t2, key) /\ index' = [index EXCEPT ![key] = "T2"]
  BY <1>1, <1>2, <1>3, MoveToT2Effect DEF PlaceFromB1
<1>6. b1' \in Seq(Keys) /\ Len(b1') = Len(b1) - 1 /\ Indexes(index, b1, "B1")'
  <2>1. b1 \in Seq(Keys) /\ index \in [Keys -> Locations] /\ Indexes(index, b1, "B1")
    BY <1>1 DEF ListTypes, Inv, IndexExact
  <2>2. /\ RemoveKey(b1, key) \in Seq(Keys)
        /\ Len(RemoveKey(b1, key)) = Len(b1) - 1
        /\ Indexes([index EXCEPT ![key] = "T2"], RemoveKey(b1, key), "B1")
    BY <1>2, <2>1, IndexRemove
  <2>3. QED
    BY <1>4, <1>5, <2>2
<1>7. p' \in 0 .. Capacity
  <2>1. Delta(b2, b1) \in Nat
    BY <1>1 DEF ListTypes, Delta, Larger
  <2>2. p \in Nat
    BY CarAssumption DEF Inv, TypeOK
  <2>3. QED
    BY <1>1, <1>4, <2>1, <2>2 DEF ListTypes, Raised, Smaller
<1>8. TypeOK'
  BY <1>1, <1>2, <1>4, <1>5, <1>6, <1>7 DEF ListTypes, Inv, TypeOK, Locations
<1>9. IndexExact'
  <2>1. Indexes(index, t1, "T1")' /\ Indexes(index, b2, "B2")'
    BY <1>1, <1>2, <1>4, <1>5, IndexOther DEF ListTypes, Inv, IndexExact
  <2>2. Indexes(index, t2, "T2")'
    BY <1>1, <1>2, <1>5, IndexAppend DEF ListTypes, Inv, IndexExact
  <2>3. \A j \in ref_bit' : Resident(j)'
    BY <1>1, <1>2, <1>4, <1>5 DEF ListTypes, Inv, TypeOK, IndexExact, Resident
  <2>4. QED
    BY <1>6, <2>1, <2>2, <2>3 DEF IndexExact
<1>10. Sizes'
  <2>1. Len(t2') = Len(t2) + 1
    BY <1>1, <1>2, <1>5 DEF ListTypes
  <2>2. QED
    BY <1>1, <1>2, <1>4, <1>6, <2>1 DEF ListTypes, Sizes, Pages, Directory
<1>11. QED
  BY <1>4, <1>8, <1>9, <1>10 DEF Inv, KeyMissing

\* A ghost of b2 becomes a page of t2.
LEMMA PlaceFromB2Inv ==
  ASSUME Inv, PlaceFromB2
  PROVE  Inv'
<1>1. ListTypes
  BY Types
<1>2. Sizes /\ pc = "place" /\ key \in Keys /\ index[key] = "B2"
  BY DEF Inv, PlaceFromB2, KeyMissing
<1>3. Len(t2) < Capacity
  BY <1>1, <1>2 DEF ListTypes, Sizes, Pages
<1>4. /\ p' = Larger(p - Delta(b1, b2), 0) /\ b2' = RemoveKey(b2, key)
      /\ pc' = "idle" /\ key' = NoKey /\ victim' = NoKey
      /\ UNCHANGED <<t1, b1, ref_bit>>
  BY DEF PlaceFromB2, Placed
<1>5. t2' = Append(t2, key) /\ index' = [index EXCEPT ![key] = "T2"]
  BY <1>1, <1>2, <1>3, MoveToT2Effect DEF PlaceFromB2
<1>6. b2' \in Seq(Keys) /\ Len(b2') = Len(b2) - 1 /\ Indexes(index, b2, "B2")'
  <2>1. b2 \in Seq(Keys) /\ index \in [Keys -> Locations] /\ Indexes(index, b2, "B2")
    BY <1>1 DEF ListTypes, Inv, IndexExact
  <2>2. /\ RemoveKey(b2, key) \in Seq(Keys)
        /\ Len(RemoveKey(b2, key)) = Len(b2) - 1
        /\ Indexes([index EXCEPT ![key] = "T2"], RemoveKey(b2, key), "B2")
    BY <1>2, <2>1, IndexRemove
  <2>3. QED
    BY <1>4, <1>5, <2>2
<1>7. p' \in 0 .. Capacity
  <2>1. Delta(b1, b2) \in Nat
    BY <1>1 DEF ListTypes, Delta, Larger
  <2>2. p \in 0 .. Capacity
    BY DEF Inv, TypeOK
  <2>3. QED
    BY <1>1, <1>4, <2>1, <2>2 DEF ListTypes, Larger
<1>8. TypeOK'
  BY <1>1, <1>2, <1>4, <1>5, <1>6, <1>7 DEF ListTypes, Inv, TypeOK, Locations
<1>9. IndexExact'
  <2>1. Indexes(index, t1, "T1")' /\ Indexes(index, b1, "B1")'
    BY <1>1, <1>2, <1>4, <1>5, IndexOther DEF ListTypes, Inv, IndexExact
  <2>2. Indexes(index, t2, "T2")'
    BY <1>1, <1>2, <1>5, IndexAppend DEF ListTypes, Inv, IndexExact
  <2>3. \A j \in ref_bit' : Resident(j)'
    BY <1>1, <1>2, <1>4, <1>5 DEF ListTypes, Inv, TypeOK, IndexExact, Resident
  <2>4. QED
    BY <1>6, <2>1, <2>2, <2>3 DEF IndexExact
<1>10. Sizes'
  <2>1. Len(t2') = Len(t2) + 1
    BY <1>1, <1>2, <1>5 DEF ListTypes
  <2>2. QED
    BY <1>1, <1>2, <1>4, <1>6, <2>1 DEF ListTypes, Sizes, Pages, Directory
<1>11. QED
  BY <1>4, <1>8, <1>9, <1>10 DEF Inv, KeyMissing

\* Every step of the cache preserves the invariant.
LEMMA NextInv == Inv /\ [Next]_vars => Inv'
<1> SUFFICES ASSUME Inv, [Next]_vars PROVE Inv'
  OBVIOUS
<1>1. CASE UNCHANGED vars
  BY <1>1 DEF vars, lists, Inv, TypeOK, IndexExact, Indexes, Resident,
              Sizes, Pages, Directory, KeyMissing
<1>2. ASSUME NEW k \in Keys, Get(k) \/ Put(k) PROVE Inv'
  BY <1>2, HitInv, PutWithRoomInv, PutWhenFullInv DEF Get, Put
<1>3. CASE Replacing
  BY <1>3, EvictFromT1Inv, PromoteFromT1Inv, EvictFromT2Inv, PassOverT2Inv,
     PlaceNewInv, PlaceFromB1Inv, PlaceFromB2Inv DEF Replacing
<1>4. QED
  BY <1>1, <1>2, <1>3 DEF Next
-----------------------------------------------------------------------------
(***************************************************************************)
(* The theorems.                                                           *)
(***************************************************************************)

\* The invariant of the cache holds for every capacity and set of keys.
THEOREM Invariance == Spec => []Inv
<1>1. Inv /\ [Next]_vars => Inv'
  BY NextInv
<1>2. Init => Inv
  BY InitInv
<1>3. QED
  BY <1>1, <1>2, PTL DEF Spec

\* The target size stays between 0 and the capacity whatever the ratio of
\* the ghost lists was at each adaptation.
THEOREM TypeCorrect == Spec => []TypeOK
  BY Invariance, PTL DEF Inv

\* The sizes I1 to I6 hold between calls, the ghost lists never overflow
\* their slots within one, and replace() never spins on an empty clock.
THEOREM SizesCorrect == Spec => []CarInvariants
<1>1. Inv => CarInvariants
  <2> SUFFICES ASSUME Inv PROVE CarInvariants
    OBVIOUS
  <2>1. ListTypes /\ Sizes /\ p \in 0 .. Capacity
        /\ pc \in {"idle", "replace", "place"}
    BY Types DEF Inv, TypeOK
  <2>2. Len(b2) <= Capacity + 1
    BY <2>1 DEF ListTypes, Sizes, Pages, Directory
  <2>3. Len(t1) + Len(t2) <= Capacity /\ Len(b1) <= Capacity
    BY <2>1 DEF ListTypes, Sizes, Pages
  <2>4. ASSUME pc = "idle"
        PROVE  /\ Len(t1) + Len(b1) <= Capacity
               /\ Len(t1) + Len(t2) + Len(b1) + Len(b2) <= 2 * Capacity
               /\ Len(t1) + Len(t2) < Capacity => b1 = <<>> /\ b2 = <<>>
    <3>1. Len(t1) + Len(t2) < Capacity => Len(b1) = 0 /\ Len(b2) = 0
      BY <2>1, <2>4 DEF Sizes, Pages
    <3>2. (Len(b1) = 0 => b1 = <<>>) /\ (Len(b2) = 0 => b2 = <<>>)
      BY <2>1 DEF ListTypes
    <3>3. QED
      BY <2>1, <3>1, <3>2 DEF Sizes, Directory
  <2>5. ASSUME pc = "replace", ~TakesFromT1 PROVE t2 # <<>>
    <3>1. Len(t1) + Len(t2) = Capacity /\ Capacity # 0 /\ Len(t1) < Larger(1, p)
      BY <2>1, <2>5 DEF ListTypes, Sizes, Pages, TakesFromT1, Larger
    <3>2. Larger(1, p) <= Capacity /\ Larger(1, p) \in Nat
      BY <2>1, <3>1 DEF ListTypes, Larger
    <3>3. Len(t2) > 0
      BY <2>1, <3>1, <3>2 DEF ListTypes
    <3>4. QED
      BY <3>3
  <2>6. QED
    BY <2>2, <2>3, <2>4, <2>5 DEF CarInvariants
<1>2. QED
  BY <1>1, Invariance, PTL

\* Index and lists agree at every moment, also between the steps of a put:
\* no key is lost, duplicated or found in two lists.
THEOREM IndexCorrect == Spec => []IndexExact
  BY Invariance, PTL DEF Inv

\* The cache is exact at every moment of every call, for every capacity and
\* every set of keys: target, sizes, index and reference bits.
THEOREM CacheCorrect == Spec => []CacheExact
  BY TypeCorrect, SizesCorrect, IndexCorrect, PTL DEF CacheExact

\* Every iteration of the loop in replace() that finds no victim uses up a
\* reference bit or a page of t1, so that the loop terminates.
THEOREM ReplaceTerminates == Spec => ReplaceProgress
<1>1. ASSUME Inv, [Next]_vars
      PROVE  [pc = "replace" => pc' = "place" \/ WorkLeft' < WorkLeft]_vars
  <2> SUFFICES ASSUME pc = "replace", Next
               PROVE  pc' = "place" \/ WorkLeft' < WorkLeft
    BY <1>1
  <2>1. ListTypes /\ IsFiniteSet(ref_bit)
    BY <1>1, Types DEF Inv
  <2>2. Replacing
    BY DEF Next, Get, Put, Hit, PutWithRoom, PutWhenFull
  <2>3. CASE EvictFromT1 \/ EvictFromT2
    BY <2>3 DEF EvictFromT1, EvictFromT2
  <2>4. CASE PromoteFromT1
    <3>1. t1 # <<>> /\ Head(t1) \in ref_bit /\ ref_bit' = ref_bit \ {Head(t1)}
          /\ t1' = Tail(t1)
      BY <2>4 DEF PromoteFromT1, HandAfterPromotion
    <3>2. Len(t1') = Len(t1) - 1
      BY <2>1, <3>1 DEF ListTypes
    <3>3. Cardinality(ref_bit') = Cardinality(ref_bit) - 1 /\ Cardinality(ref_bit) \in Nat
      BY <2>1, <3>1, FS_RemoveElement, FS_CardinalityType
    <3>4. QED
      BY <2>1, <3>2, <3>3 DEF ListTypes, WorkLeft
  <2>5. CASE PassOverT2
    <3>1. Head(t2) \in ref_bit /\ ref_bit' = ref_bit \ {Head(t2)} /\ t1' = t1
      BY <2>5 DEF PassOverT2, Cleared
    <3>2. Cardinality(ref_bit') = Cardinality(ref_bit) - 1 /\ Cardinality(ref_bit) \in Nat
      BY <2>1, <3>1, FS_RemoveElement, FS_CardinalityType
    <3>3. QED
      BY <2>1, <3>1, <3>2 DEF ListTypes, WorkLeft
  <2>6. CASE PlaceNew \/ PlaceFromB1 \/ PlaceFromB2
    BY <2>6 DEF PlaceNew, PlaceFromB1, PlaceFromB2
  <2>7. QED
    BY <2>2, <2>3, <2>4, <2>5, <2>6 DEF Replacing
<1>2. QED
  BY <1>1, Invariance, PTL DEF Spec, ReplaceProgress
-----------------------------------------------------------------------------
(***************************************************************************)
(* Which page replace() evicts.                                            *)
(***************************************************************************)

\* How far a replacement has come that began with the clocks s1 and s2 and
\* the bits R: m pages of s1 were promoted and the hand of t2 has passed over
\* q pages of s2, all of them referenced, and their bits are cleared.
Scanned(s1, s2, R, m, q) ==
  /\ m \in Nat /\ m <= Len(s1) /\ q \in Nat /\ q <= Len(s2)
  /\ Len(t1) = Len(s1) - m
  /\ \A i \in 1 .. Len(t1) : t1[i] = s1[m + i]
  /\ Len(t2) = Len(s2) + m
  /\ \A i \in 1 .. Len(t2) :
       t2[i] = IF i <= Len(s2) - q THEN s2[q + i]
               ELSE IF i <= Len(s2) - q + m THEN s1[i - (Len(s2) - q)]
               ELSE s2[i - (Len(s2) - q + m)]
  /\ m # 0 => m <= Len(s1) + 1 - Larger(1, p)
  /\ q # 0 => ~TakesFromT1
  /\ \A i \in 1 .. m : s1[i] \in R
  /\ \A i \in 1 .. q : s2[i] \in R
  /\ \A k \in Keys : k \in ref_bit <=>
       /\ k \in R
       /\ \A i \in 1 .. m : s1[i] # k
       /\ \A i \in 1 .. q : s2[i] # k

Began(s1, s2, R) ==
  /\ start = [t1 |-> s1, t2 |-> s2, ref_bit |-> R]
  /\ s1 \in Seq(Keys) /\ s2 \in Seq(Keys)

Chosen ==
  /\ pc = "replace" => \E s1, s2, R, m, q : Began(s1, s2, R) /\ Scanned(s1, s2, R, m, q)
  /\ VictimExact

\* No page is twice in the clocks.
LEMMA PagesDiffer ==
  ASSUME Inv
  PROVE  /\ \A i \in DOMAIN t1, j \in DOMAIN t2 : t1[i] # t2[j]
         /\ \A i, j \in DOMAIN t2 : t2[i] = t2[j] => i = j
<1>1. /\ Indexes(index, t1, "T1") /\ Indexes(index, t2, "T2")
      /\ t1 \in Seq(Keys) /\ t2 \in Seq(Keys)
  BY DEF Inv, IndexExact, TypeOK
<1>2. ASSUME NEW i \in DOMAIN t1 PROVE t1[i] \in Keys /\ index[t1[i]] = "T1"
  BY <1>1, <1>2 DEF Indexes, Lacks
<1>3. ASSUME NEW i \in DOMAIN t2 PROVE t2[i] \in Keys /\ index[t2[i]] = "T2" /\ Holds(t2, t2[i])
  BY <1>1, <1>3 DEF Indexes, Lacks
<1>4. ASSUME NEW i \in DOMAIN t1, NEW j \in DOMAIN t2 PROVE t1[i] # t2[j]
  BY <1>2, <1>3
<1>5. ASSUME NEW i \in DOMAIN t2, NEW j \in DOMAIN t2, t2[i] = t2[j] PROVE i = j
  BY <1>3, <1>5 DEF Holds
<1>6. QED
  BY <1>4, <1>5

\* The first key outside S is at position n.
LEMMA FirstIsAt ==
  ASSUME NEW s, NEW S, NEW d, NEW n \in Nat, DOMAIN s \subseteq Nat,
         n \in DOMAIN s, s[n] \notin S, \A i \in DOMAIN s : i < n => s[i] \in S
  PROVE  FirstOutside(s, S, d) = s[n]
<1> DEFINE outside == {i \in DOMAIN s : s[i] \notin S}
<1>1. outside \in SUBSET Nat /\ n \in outside
  OBVIOUS
<1>2. Min(outside) \in outside /\ Min(outside) <= n
  BY <1>1, MinOfNaturals
<1>3. Min(outside) = n
  BY <1>1, <1>2
<1>4. QED
  BY <1>1, <1>3 DEF FirstOutside

LEMMA NoneOutside ==
  ASSUME NEW s, NEW S, NEW d, \A i \in DOMAIN s : s[i] \in S
  PROVE  FirstOutside(s, S, d) = d
  BY DEF FirstOutside

\* At the start of the replacement nothing has been examined.
LEMMA PutWhenFullChosen ==
  ASSUME Inv, NEW k \in Keys, PutWhenFull(k)
  PROVE  Chosen'
<1>1. /\ pc' = "replace" /\ start' = [t1 |-> t1, t2 |-> t2, ref_bit |-> ref_bit]
      /\ UNCHANGED <<t1, t2, ref_bit, p>>
  BY DEF PutWhenFull, lists
<1>2. t1 \in Seq(Keys) /\ t2 \in Seq(Keys) /\ Len(t1) \in Nat /\ Len(t2) \in Nat
  BY DEF Inv, TypeOK
<1>3. PICK s1, s2, R : s1 = t1 /\ s2 = t2 /\ R = ref_bit
  OBVIOUS
<1>4. Began(s1, s2, R)'
  BY <1>1, <1>2, <1>3 DEF Began
<1>5. Scanned(s1, s2, R, 0, 0)'
  <2>1. \A i \in 1 .. Len(t1) : t1[i] = s1[0 + i]
    BY <1>2, <1>3
  <2>2. \A i \in 1 .. Len(t2) : i <= Len(s2) - 0 /\ t2[i] = s2[0 + i]
    BY <1>2, <1>3
  <2>3. QED
    BY <1>1, <1>2, <1>3, <2>1, <2>2 DEF Scanned
<1>6. QED
  BY <1>1, <1>4, <1>5 DEF Chosen, VictimExact

\* What is known in an iteration.
LEMMA Iteration ==
  ASSUME Inv, Chosen, pc = "replace"
  PROVE  \E s1, s2, R, m, q : /\ Began(s1, s2, R) /\ Scanned(s1, s2, R, m, q)
                              /\ s1 \in Seq(Keys) /\ s2 \in Seq(Keys)
                              /\ Len(s1) \in Nat /\ Len(s2) \in Nat
                              /\ Larger(1, p) \in Nat /\ Larger(1, p) >= 1
<1>1. p \in Nat
  BY CarAssumption DEF Inv, TypeOK
<1>2. Larger(1, p) \in Nat /\ Larger(1, p) >= 1
  BY <1>1 DEF Larger
<1>3. QED
  BY <1>2 DEF Chosen, Began

\* t1 is at its target and its head was not referenced.
LEMMA EvictFromT1Chosen ==
  ASSUME Inv, Chosen, EvictFromT1
  PROVE  Chosen'
<1>1. /\ pc = "replace" /\ pc' = "place" /\ TakesFromT1 /\ t1 # <<>> /\ Head(t1) \notin ref_bit
      /\ victim' = Head(t1) /\ UNCHANGED <<start, p>>
  BY DEF EvictFromT1
<1>2. PICK s1, s2, R, m, q : /\ Began(s1, s2, R) /\ Scanned(s1, s2, R, m, q)
                             /\ s1 \in Seq(Keys) /\ s2 \in Seq(Keys)
                             /\ Len(s1) \in Nat /\ Len(s2) \in Nat
                             /\ Larger(1, p) \in Nat /\ Larger(1, p) >= 1
  BY <1>1, Iteration
<1>3. PICK n : n = Len(s1) + 1 - Larger(1, p)
  OBVIOUS
<1>4. t1 \in Seq(Keys) /\ Len(t1) >= 1 /\ Head(t1) = t1[1] /\ t1[1] \in Keys /\ 1 \in DOMAIN t1
  BY <1>1 DEF Inv, TypeOK
<1>5. /\ q = 0 /\ m \in Nat /\ Len(t1) = Len(s1) - m /\ Len(t1) >= Larger(1, p)
      /\ t1[1] = s1[m + 1]
  BY <1>1, <1>2, <1>4 DEF Scanned, TakesFromT1
<1>6. m + 1 <= n /\ n \in 1 .. Len(s1) /\ m + 1 \in Nat
  BY <1>2, <1>3, <1>5
<1>7. \A i \in 1 .. m : s1[i] # t1[1]
  <2> SUFFICES ASSUME NEW i \in 1 .. m PROVE s1[i] # t1[1]
    OBVIOUS
  <2>1. PICK j : j = Len(s2) + i
    OBVIOUS
  <2>2. /\ j \in 1 .. Len(t2) /\ ~(j <= Len(s2) - q) /\ j <= Len(s2) - q + m
        /\ j - (Len(s2) - q) = i
    BY SMTT(60), <1>2, <1>5, <2>1 DEF Scanned
  <2>3. t2[j] = s1[i]
    BY <1>2, <2>2 DEF Scanned
  <2>4. j \in DOMAIN t2
    BY <2>2 DEF Inv, TypeOK
  <2>5. QED
    BY <1>4, <2>3, <2>4, PagesDiffer
<1>8. t1[1] \notin R
  <2>1. t1[1] \in ref_bit <=> /\ t1[1] \in R
                              /\ \A i \in 1 .. m : s1[i] # t1[1]
                              /\ \A i \in 1 .. q : s2[i] # t1[1]
    BY <1>2, <1>4 DEF Scanned
  <2>2. \A i \in 1 .. q : FALSE
    BY <1>5
  <2>3. QED
    BY <1>1, <1>4, <1>7, <2>1, <2>2
<1>9. PICK x : x = SubSeq(s1, 1, n)
  OBVIOUS
<1>10. DOMAIN x = 1 .. n /\ \A i \in 1 .. n : x[i] = s1[i]
  BY <1>2, <1>6, <1>9
<1>11. /\ m + 1 \in DOMAIN x /\ x[m + 1] = t1[1] /\ DOMAIN x \subseteq Nat
       /\ \A i \in DOMAIN x : i < m + 1 => x[i] \in R
  <2>1. m + 1 \in 1 .. n /\ x[m + 1] = t1[1]
    BY <1>5, <1>6, <1>10
  <2>2. ASSUME NEW i \in 1 .. n, i < m + 1 PROVE x[i] \in R
    <3>1. i \in 1 .. m
      BY <1>5, <2>2
    <3>2. QED
      BY <1>2, <1>10, <3>1 DEF Scanned
  <2>3. QED
    BY <1>10, <2>1, <2>2
<1>12. \A d : FirstOutside(x, R, d) = t1[1]
  BY <1>6, <1>8, <1>11, FirstIsAt
<1>13. ExpectedVictim' = t1[1]
  BY <1>1, <1>2, <1>3, <1>9, <1>12 DEF ExpectedVictim, Began
<1>14. QED
  BY <1>1, <1>4, <1>13 DEF Chosen, VictimExact

\* t1 is at its target and its head was referenced: it becomes a page of t2.
LEMMA PromoteFromT1Chosen ==
  ASSUME Inv, Chosen, PromoteFromT1
  PROVE  Chosen'
<1>1. /\ pc = "replace" /\ pc' = "replace" /\ TakesFromT1 /\ t1 # <<>> /\ Head(t1) \in ref_bit
      /\ t1' = Tail(t1) /\ ref_bit' = ref_bit \ {Head(t1)} /\ UNCHANGED <<start, p>>
      /\ MoveToT2(Head(t1))
  BY DEF PromoteFromT1, HandAfterPromotion
<1>2. PICK s1, s2, R, m, q : /\ Began(s1, s2, R) /\ Scanned(s1, s2, R, m, q)
                             /\ s1 \in Seq(Keys) /\ s2 \in Seq(Keys)
                             /\ Len(s1) \in Nat /\ Len(s2) \in Nat
                             /\ Larger(1, p) \in Nat /\ Larger(1, p) >= 1
  BY <1>1, Iteration
<1>3. /\ t1 \in Seq(Keys) /\ Len(t1) >= 1 /\ Head(t1) = t1[1] /\ t1[1] \in Keys
      /\ t2 \in Seq(Keys) /\ Len(t2) \in Nat
  BY <1>1 DEF Inv, TypeOK
<1>4. /\ q = 0 /\ m \in Nat /\ Len(t1) = Len(s1) - m /\ Len(t1) >= Larger(1, p)
      /\ t1[1] = s1[m + 1] /\ Len(t2) = Len(s2) + m
  BY <1>1, <1>2, <1>3 DEF Scanned, TakesFromT1
<1>5. t2' = Append(t2, t1[1])
  <2>1. Len(t2) < Capacity
    BY <1>1, <1>3, CarAssumption DEF Inv, Sizes, Pages
  <2>2. QED
    BY <1>1, <1>3, <2>1 DEF MoveToT2
<1>6. /\ Len(t1') = Len(t1) - 1 /\ \A i \in 1 .. Len(t1') : t1'[i] = t1[i + 1]
  BY <1>1, <1>3
<1>7. /\ Len(t2') = Len(t2) + 1 /\ t2'[Len(t2) + 1] = t1[1]
      /\ \A i \in 1 .. Len(t2) : t2'[i] = t2[i]
  BY <1>3, <1>5
<1>8. PICK n : n = m + 1
  OBVIOUS
<1>9. n \in Nat /\ n <= Len(s1) /\ n <= Len(s1) + 1 - Larger(1, p)
  BY <1>2, <1>3, <1>4, <1>8
<1>10. Len(t1') = Len(s1) - n /\ Len(t2') = Len(s2) + n
  BY <1>2, <1>3, <1>4, <1>6, <1>7, <1>8
<1>11. \A i \in 1 .. Len(t1') : t1'[i] = s1[n + i]
  <2> SUFFICES ASSUME NEW i \in 1 .. Len(t1') PROVE t1'[i] = s1[n + i]
    OBVIOUS
  <2>1. PICK j : j = i + 1
    OBVIOUS
  <2>2. j \in 1 .. Len(t1) /\ m + j = n + i
    BY <1>3, <1>4, <1>6, <1>8, <2>1
  <2>3. t1[j] = s1[m + j]
    BY <1>2, <2>2 DEF Scanned
  <2>4. QED
    BY <1>6, <2>1, <2>2, <2>3
<1>12. \A i \in 1 .. Len(t2') :
         t2'[i] = IF i <= Len(s2) - 0 THEN s2[0 + i]
                  ELSE IF i <= Len(s2) - 0 + n THEN s1[i - (Len(s2) - 0)]
                  ELSE s2[i - (Len(s2) - 0 + n)]
  <2> SUFFICES ASSUME NEW i \in 1 .. Len(t2')
               PROVE  t2'[i] = IF i <= Len(s2) THEN s2[i] ELSE s1[i - Len(s2)]
    BY <1>2, <1>9, <1>10
  <2>1. CASE i \in 1 .. Len(t2)
    <3>1. t2[i] = IF i <= Len(s2) - q THEN s2[q + i]
                  ELSE IF i <= Len(s2) - q + m THEN s1[i - (Len(s2) - q)]
                  ELSE s2[i - (Len(s2) - q + m)]
      BY <1>2, <2>1 DEF Scanned
    <3>2. QED
      BY <1>2, <1>3, <1>4, <1>7, <2>1, <3>1
  <2>2. CASE i = Len(t2) + 1
    <3>1. ~(i <= Len(s2)) /\ i - Len(s2) = m + 1
      BY <1>2, <1>3, <1>4, <2>2
    <3>2. QED
      BY <1>4, <1>7, <2>2, <3>1
  <2>3. QED
    BY <1>3, <1>7, <2>1, <2>2
<1>13. \A i \in 1 .. n : s1[i] \in R
  <2>1. s1[n] \in R
    BY <1>1, <1>2, <1>3, <1>4, <1>8 DEF Scanned
  <2>2. \A i \in 1 .. n : i = n \/ i \in 1 .. m
    BY <1>4, <1>8
  <2>3. QED
    BY <1>2, <2>1, <2>2 DEF Scanned
<1>14. ASSUME NEW k \in Keys
       PROVE  k \in ref_bit' <=> /\ k \in R
                                 /\ \A i \in 1 .. n : s1[i] # k
                                 /\ \A i \in 1 .. 0 : s2[i] # k
  <2>1. k \in ref_bit <=> /\ k \in R
                          /\ \A i \in 1 .. m : s1[i] # k
                          /\ \A i \in 1 .. 0 : s2[i] # k
    BY <1>2, <1>4 DEF Scanned
  <2>2. (\A i \in 1 .. n : s1[i] # k) <=> s1[n] # k /\ \A i \in 1 .. m : s1[i] # k
    <3>1. \A i : i \in 1 .. n <=> i = n \/ i \in 1 .. m
      BY <1>4, <1>8
    <3>2. QED
      BY <3>1, Zenon
  <2>3. k \in ref_bit' <=> k \in ref_bit /\ s1[n] # k
    BY <1>1, <1>3, <1>4, <1>8
  <2>4. QED
    BY <2>1, <2>2, <2>3
<1>15. Scanned(s1, s2, R, n, 0)'
  <2>1. 0 \in Nat /\ 0 <= Len(s2)
    BY <1>2
  <2>2. \A i \in 1 .. 0 : s2[i] \in R
    OBVIOUS
  <2>3. QED
    BY <1>1, <1>9, <1>10, <1>11, <1>12, <1>13, <1>14, <2>1, <2>2 DEF Scanned
<1>16. Began(s1, s2, R)'
  BY <1>1, <1>2 DEF Began
<1>17. QED
  BY <1>1, <1>15, <1>16 DEF Chosen, VictimExact

\* t1 is below its target.  The hand of t2 is at a page of s2 that it has not
\* passed over, or has passed over all of them; then what it finds first is
\* the first promoted page, or the first page of s2 again, with its bit clear.
LEMMA HandOfT2 ==
  ASSUME Inv, NEW s1 \in Seq(Keys), NEW s2 \in Seq(Keys), NEW R, NEW m, NEW q,
         Scanned(s1, s2, R, m, q), t2 # <<>>
  PROVE  /\ t2 \in Seq(Keys) /\ Len(t2) >= 1 /\ Head(t2) = t2[1] /\ t2[1] \in Keys
         /\ q < Len(s2) => t2[1] = s2[q + 1] /\ (t2[1] \in ref_bit <=> t2[1] \in R)
         /\ q = Len(s2) => /\ t2[1] \notin ref_bit
                           /\ t2[1] = IF m # 0 THEN s1[1] ELSE s2[1]
                           /\ m = 0 => Len(s2) >= 1
<1>1. t2 \in Seq(Keys) /\ Len(t2) >= 1 /\ Head(t2) = t2[1] /\ t2[1] \in Keys
  BY DEF Inv, TypeOK
<1>2. /\ m \in Nat /\ m <= Len(s1) /\ q \in Nat /\ q <= Len(s2) /\ Len(t2) = Len(s2) + m
      /\ Len(s1) \in Nat /\ Len(s2) \in Nat
  BY DEF Scanned
<1>3. ASSUME NEW i \in 1 .. Len(t2)
      PROVE  t2[i] = IF i <= Len(s2) - q THEN s2[q + i]
                     ELSE IF i <= Len(s2) - q + m THEN s1[i - (Len(s2) - q)]
                     ELSE s2[i - (Len(s2) - q + m)]
  BY DEF Scanned
<1>4. t2[1] \in ref_bit <=> /\ t2[1] \in R
                            /\ \A i \in 1 .. m : s1[i] # t2[1]
                            /\ \A i \in 1 .. q : s2[i] # t2[1]
  BY <1>1 DEF Scanned
<1>5. 1 \in 1 .. Len(t2)
  BY <1>1, <1>2
<1>6. ASSUME q < Len(s2)
      PROVE  t2[1] = s2[q + 1] /\ (t2[1] \in ref_bit <=> t2[1] \in R)
  <2>1. t2[1] = s2[q + 1]
    BY <1>2, <1>3, <1>5, <1>6
  <2>2. \A i \in 1 .. m : s1[i] # t2[1]
    <3> SUFFICES ASSUME NEW i \in 1 .. m PROVE s1[i] # t2[1]
      OBVIOUS
    <3>1. PICK j : j = Len(s2) - q + i
      OBVIOUS
    <3>2. /\ j \in 1 .. Len(t2) /\ j # 1 /\ ~(j <= Len(s2) - q) /\ j <= Len(s2) - q + m
          /\ j - (Len(s2) - q) = i
      BY <1>2, <1>6, <3>1
    <3>3. t2[j] = s1[i]
      BY <1>3, <3>2
    <3>4. j \in DOMAIN t2 /\ 1 \in DOMAIN t2
      BY <1>1, <1>5, <3>2
    <3>5. QED
      BY <3>2, <3>3, <3>4, PagesDiffer
  <2>3. \A i \in 1 .. q : s2[i] # t2[1]
    <3> SUFFICES ASSUME NEW i \in 1 .. q PROVE s2[i] # t2[1]
      OBVIOUS
    <3>1. PICK j : j = Len(s2) - q + m + i
      OBVIOUS
    <3>2. /\ j \in 1 .. Len(t2) /\ j # 1 /\ ~(j <= Len(s2) - q) /\ ~(j <= Len(s2) - q + m)
          /\ j - (Len(s2) - q + m) = i
      BY <1>2, <1>6, <3>1
    <3>3. t2[j] = s2[i]
      BY <1>3, <3>2
    <3>4. j \in DOMAIN t2 /\ 1 \in DOMAIN t2
      BY <1>1, <1>5, <3>2
    <3>5. QED
      BY <3>2, <3>3, <3>4, PagesDiffer
  <2>4. QED
    BY <1>4, <2>1, <2>2, <2>3
<1>7. ASSUME q = Len(s2)
      PROVE  /\ t2[1] \notin ref_bit
             /\ t2[1] = IF m # 0 THEN s1[1] ELSE s2[1]
             /\ m = 0 => Len(s2) >= 1
  <2>1. CASE m # 0
    <3>1. t2[1] = s1[1] /\ 1 \in 1 .. m
      BY <1>2, <1>3, <1>5, <1>7, <2>1
    <3>2. QED
      BY <1>4, <2>1, <3>1
  <2>2. CASE m = 0
    <3>1. t2[1] = s2[1] /\ 1 \in 1 .. q /\ Len(s2) >= 1
      BY <1>1, <1>2, <1>3, <1>5, <1>7, <2>2
    <3>2. QED
      BY <1>4, <2>2, <3>1
  <2>3. QED
    BY <2>1, <2>2
<1>8. QED
  BY <1>1, <1>6, <1>7

\* Below its target t1 has given up all the pages that it had to, and each was
\* referenced.
LEMMA AllPromoted ==
  ASSUME NEW s1 \in Seq(Keys), NEW s2 \in Seq(Keys), NEW R, NEW m, NEW q,
         Scanned(s1, s2, R, m, q), ~TakesFromT1, Larger(1, p) \in Nat, Larger(1, p) >= 1
  PROVE  LET x == SubSeq(s1, 1, Len(s1) + 1 - Larger(1, p))
         IN  /\ x \in Seq(Keys) /\ Len(x) = m /\ DOMAIN x = 1 .. m
             /\ \A i \in 1 .. m : x[i] = s1[i] /\ x[i] \in R
<1>1. PICK n, x : n = Len(s1) + 1 - Larger(1, p) /\ x = SubSeq(s1, 1, n)
  OBVIOUS
<1>2. /\ m \in Nat /\ m <= Len(s1) /\ Len(s1) \in Nat /\ Len(t1) = Len(s1) - m
      /\ m # 0 => m <= n /\ \A i \in 1 .. m : s1[i] \in R
  BY <1>1 DEF Scanned
<1>3. n <= m /\ n \in Int
  BY <1>1, <1>2 DEF TakesFromT1
<1>4. CASE m = 0
  <2>1. x = <<>>
    BY <1>1, <1>3, <1>4
  <2>2. QED
    BY <1>1, <1>4, <2>1
<1>5. CASE m # 0
  <2>1. n = m
    BY <1>2, <1>3, <1>5
  <2>2. x \in Seq(Keys) /\ Len(x) = m /\ DOMAIN x = 1 .. m /\ \A i \in 1 .. m : x[i] = s1[i]
    <3>1. x = SubSeq(s1, 1, m) /\ m \in 1 .. Len(s1)
      BY <1>1, <1>2, <1>5, <2>1
    <3>2. QED
      BY <3>1
  <2>3. \A i \in 1 .. m : s1[i] \in R
    BY DEF Scanned
  <2>4. QED
    BY <1>1, <2>2, <2>3
<1>6. QED
  BY <1>4, <1>5

\* The head of t2 was not referenced, or its bit has been cleared.
LEMMA EvictFromT2Chosen ==
  ASSUME Inv, Chosen, EvictFromT2
  PROVE  Chosen'
<1>1. /\ pc = "replace" /\ pc' = "place" /\ ~TakesFromT1 /\ t2 # <<>> /\ Head(t2) \notin ref_bit
      /\ victim' = Head(t2) /\ UNCHANGED <<start, p>>
  BY DEF EvictFromT2
<1>2. PICK s1, s2, R, m, q : /\ Began(s1, s2, R) /\ Scanned(s1, s2, R, m, q)
                             /\ s1 \in Seq(Keys) /\ s2 \in Seq(Keys)
                             /\ Len(s1) \in Nat /\ Len(s2) \in Nat
                             /\ Larger(1, p) \in Nat /\ Larger(1, p) >= 1
  BY <1>1, Iteration
<1>3. PICK x : x = SubSeq(s1, 1, Len(s1) + 1 - Larger(1, p))
  OBVIOUS
<1>4. /\ x \in Seq(Keys) /\ Len(x) = m /\ DOMAIN x = 1 .. m
      /\ \A i \in 1 .. m : x[i] = s1[i] /\ x[i] \in R
  BY <1>1, <1>2, <1>3, AllPromoted
<1>5. m \in Nat /\ q \in Nat /\ q <= Len(s2) /\ \A i \in 1 .. q : s2[i] \in R
  BY <1>2 DEF Scanned
<1>6. /\ Head(t2) = t2[1]
      /\ q < Len(s2) => t2[1] = s2[q + 1] /\ (t2[1] \in ref_bit <=> t2[1] \in R)
      /\ q = Len(s2) => t2[1] = (IF m # 0 THEN s1[1] ELSE s2[1]) /\ (m = 0 => Len(s2) >= 1)
  BY <1>1, <1>2, HandOfT2
<1>7. PICK d : d = Head(x \o s2)
  OBVIOUS
<1>8. FirstOutside(s2, R, d) = t2[1]
  <2>1. CASE q < Len(s2)
    <3>1. PICK n : n = q + 1
      OBVIOUS
    <3>2. n \in Nat /\ DOMAIN s2 \subseteq Nat /\ n \in DOMAIN s2 /\ s2[n] = t2[1] /\ s2[n] \notin R
      BY <1>1, <1>2, <1>5, <1>6, <2>1, <3>1
    <3>3. \A i \in DOMAIN s2 : i < n => i \in 1 .. q
      BY <1>2, <1>5, <3>1
    <3>4. QED
      BY <1>5, <3>2, <3>3, FirstIsAt
  <2>2. CASE q = Len(s2)
    <3>1. FirstOutside(s2, R, d) = d
      BY <1>2, <1>5, <2>2, NoneOutside
    <3>2. CASE m # 0
      <4>1. d = x[1] /\ 1 \in 1 .. m
        BY <1>2, <1>4, <1>5, <1>7, <3>2
      <4>2. QED
        BY <1>4, <1>6, <2>2, <3>1, <3>2, <4>1
    <3>3. CASE m = 0
      <4>1. x = <<>> /\ Len(s2) >= 1
        BY <1>4, <1>6, <2>2, <3>3
      <4>2. d = s2[1]
        BY <1>2, <1>7, <4>1
      <4>3. QED
        BY <1>6, <2>2, <3>1, <3>3, <4>2
    <3>4. QED
      BY <3>2, <3>3
  <2>3. QED
    BY <1>2, <1>5, <2>1, <2>2
<1>9. FirstOutside(x, R, t2[1]) = t2[1]
  BY <1>4, NoneOutside
<1>10. ExpectedVictim' = t2[1]
  BY <1>1, <1>2, <1>3, <1>7, <1>8, <1>9 DEF ExpectedVictim, Began
<1>11. QED
  BY <1>1, <1>6, <1>10 DEF Chosen, VictimExact

\* The hand of t2 passes over one more page of s2.
LEMMA PassOverT2Chosen ==
  ASSUME Inv, Chosen, PassOverT2
  PROVE  Chosen'
<1>1. /\ pc = "replace" /\ pc' = "replace" /\ ~TakesFromT1 /\ t2 # <<>> /\ Head(t2) \in ref_bit
      /\ t2' = Append(Tail(t2), Head(t2)) /\ ref_bit' = ref_bit \ {Head(t2)}
      /\ UNCHANGED <<t1, start, p>>
  BY DEF PassOverT2, Cleared
<1>2. PICK s1, s2, R, m, q : /\ Began(s1, s2, R) /\ Scanned(s1, s2, R, m, q)
                             /\ s1 \in Seq(Keys) /\ s2 \in Seq(Keys)
                             /\ Len(s1) \in Nat /\ Len(s2) \in Nat
                             /\ Larger(1, p) \in Nat /\ Larger(1, p) >= 1
  BY <1>1, Iteration
<1>3. /\ t2 \in Seq(Keys) /\ Len(t2) >= 1 /\ Head(t2) = t2[1] /\ t2[1] \in Keys
      /\ q < Len(s2) => t2[1] = s2[q + 1] /\ (t2[1] \in ref_bit <=> t2[1] \in R)
      /\ q = Len(s2) => t2[1] \notin ref_bit
  BY <1>1, <1>2, HandOfT2
<1>4. /\ m \in Nat /\ m <= Len(s1) /\ q \in Nat /\ q < Len(s2) /\ Len(t2) = Len(s2) + m
      /\ t2[1] = s2[q + 1] /\ t2[1] \in R
  <2>1. m \in Nat /\ m <= Len(s1) /\ q \in Nat /\ q <= Len(s2) /\ Len(t2) = Len(s2) + m
    BY <1>2 DEF Scanned
  <2>2. q # Len(s2)
    BY <1>1, <1>3
  <2>3. q < Len(s2)
    BY <1>2, <2>1, <2>2
  <2>4. QED
    BY <1>1, <1>3, <2>1, <2>3
<1>5. /\ Len(t2') = Len(t2) /\ t2'[Len(t2)] = t2[1]
      /\ \A i \in 1 .. Len(t2) - 1 : t2'[i] = t2[i + 1]
  BY <1>1, <1>3
<1>6. PICK n : n = q + 1
  OBVIOUS
<1>7. n \in Nat /\ n <= Len(s2)
  BY <1>2, <1>4, <1>6
<1>8. \A i \in 1 .. Len(t2') :
         t2'[i] = IF i <= Len(s2) - n THEN s2[n + i]
                  ELSE IF i <= Len(s2) - n + m THEN s1[i - (Len(s2) - n)]
                  ELSE s2[i - (Len(s2) - n + m)]
  <2> SUFFICES ASSUME NEW i \in 1 .. Len(t2)
               PROVE  t2'[i] = IF i <= Len(s2) - n THEN s2[n + i]
                               ELSE IF i <= Len(s2) - n + m THEN s1[i - (Len(s2) - n)]
                               ELSE s2[i - (Len(s2) - n + m)]
    BY <1>5
  <2>1. CASE i = Len(t2)
    <3>1. ~(i <= Len(s2) - n) /\ ~(i <= Len(s2) - n + m) /\ i - (Len(s2) - n + m) = q + 1
      BY <1>2, <1>4, <1>6, <1>7, <2>1
    <3>2. QED
      BY <1>4, <1>5, <2>1, <3>1
  <2>2. CASE i # Len(t2)
    <3>1. PICK j : j = i + 1
      OBVIOUS
    <3>2. j \in 1 .. Len(t2) /\ i \in 1 .. Len(t2) - 1
      BY <1>2, <1>4, <2>2, <3>1
    <3>3. t2[j] = IF j <= Len(s2) - q THEN s2[q + j]
                  ELSE IF j <= Len(s2) - q + m THEN s1[j - (Len(s2) - q)]
                  ELSE s2[j - (Len(s2) - q + m)]
      BY <1>2, <3>2 DEF Scanned
    <3>4. /\ j <= Len(s2) - q <=> i <= Len(s2) - n
          /\ j <= Len(s2) - q + m <=> i <= Len(s2) - n + m
          /\ q + j = n + i /\ j - (Len(s2) - q) = i - (Len(s2) - n)
          /\ j - (Len(s2) - q + m) = i - (Len(s2) - n + m)
      <4>1. PICK L \in Nat : L = Len(s2)
        BY <1>2
      <4>2. i \in Int /\ m \in Nat /\ q \in Nat /\ j = i + 1 /\ n = q + 1
        BY <1>4, <1>6, <3>1
      <4>3. /\ j <= L - q <=> i <= L - n
            /\ j <= L - q + m <=> i <= L - n + m
            /\ q + j = n + i /\ j - (L - q) = i - (L - n)
            /\ j - (L - q + m) = i - (L - n + m)
        BY <4>1, <4>2
      <4>4. QED
        BY <4>1, <4>3
    <3>5. t2'[i] = t2[j]
      BY <1>5, <3>1, <3>2
    <3>6. QED
      BY <3>3, <3>4, <3>5
  <2>3. QED
    BY <2>1, <2>2
<1>9. \A i : i \in 1 .. n <=> i = n \/ i \in 1 .. q
  BY <1>4, <1>6
<1>10. \A i \in 1 .. n : s2[i] \in R
  BY <1>2, <1>4, <1>6, <1>9 DEF Scanned
<1>11. ASSUME NEW k \in Keys
       PROVE  k \in ref_bit' <=> /\ k \in R
                                 /\ \A i \in 1 .. m : s1[i] # k
                                 /\ \A i \in 1 .. n : s2[i] # k
  <2>1. k \in ref_bit <=> /\ k \in R
                          /\ \A i \in 1 .. m : s1[i] # k
                          /\ \A i \in 1 .. q : s2[i] # k
    BY <1>2 DEF Scanned
  <2>2. (\A i \in 1 .. n : s2[i] # k) <=> s2[n] # k /\ \A i \in 1 .. q : s2[i] # k
    BY <1>9, Zenon
  <2>3. k \in ref_bit' <=> k \in ref_bit /\ s2[n] # k
    BY <1>1, <1>3, <1>4, <1>6
  <2>4. QED
    BY <2>1, <2>2, <2>3
<1>12. /\ Len(t1') = Len(s1) - m
       /\ \A i \in 1 .. Len(t1') : t1'[i] = s1[m + i]
       /\ Len(t2') = Len(s2) + m
       /\ m # 0 => m <= Len(s1) + 1 - Larger(1, p)
       /\ \A i \in 1 .. m : s1[i] \in R
  BY <1>1, <1>2, <1>4, <1>5 DEF Scanned
<1>13. ~TakesFromT1'
  BY <1>1 DEF TakesFromT1
<1>14. Scanned(s1, s2, R, m, n)'
  BY <1>1, <1>4, <1>7, <1>8, <1>10, <1>11, <1>12, <1>13 DEF Scanned
<1>15. Began(s1, s2, R)'
  BY <1>1, <1>2 DEF Began
<1>16. QED
  BY <1>1, <1>14, <1>15 DEF Chosen, VictimExact

\* Every page is given its second chance: what replace() evicts is the page
\* that the clocks at the start of the put determine, for every capacity and
\* every pattern of references.
THEOREM VictimCorrect == Spec => []VictimExact
<1>1. Init => Chosen
  BY DEF Init, Chosen, VictimExact
<1>2. Inv /\ Chosen /\ [Next]_vars => Chosen'
  <2> SUFFICES ASSUME Inv, Chosen, [Next]_vars PROVE Chosen'
    OBVIOUS
  <2>1. CASE UNCHANGED vars
    <3>1. UNCHANGED <<t1, t2, ref_bit, p, pc, victim, start>>
      BY <2>1 DEF vars, lists
    <3>2. VictimExact'
      BY <3>1 DEF Chosen, VictimExact, ExpectedVictim
    <3>3. ASSUME NEW s1, NEW s2, NEW R, NEW m, NEW q, Began(s1, s2, R), Scanned(s1, s2, R, m, q)
          PROVE  Began(s1, s2, R)' /\ Scanned(s1, s2, R, m, q)'
      BY <3>1, <3>3 DEF Began, Scanned, TakesFromT1
    <3>4. QED
      BY <3>1, <3>2, <3>3 DEF Chosen
  <2>2. ASSUME pc' = "idle" PROVE Chosen'
    BY <2>2 DEF Chosen, VictimExact
  <2>3. ASSUME NEW k \in Keys, Get(k) \/ Put(k) PROVE Chosen'
    <3>1. CASE PutWhenFull(k)
      BY <3>1, PutWhenFullChosen
    <3>2. CASE Hit(k) \/ PutWithRoom(k)
      BY <2>2, <3>2 DEF Hit, PutWithRoom
    <3>3. QED
      BY <2>3, <3>1, <3>2 DEF Get, Put
  <2>4. CASE PlaceNew \/ PlaceFromB1 \/ PlaceFromB2
    BY <2>2, <2>4 DEF PlaceNew, PlaceFromB1, PlaceFromB2, Placed
  <2>5. QED
    BY <2>1, <2>3, <2>4, EvictFromT1Chosen, PromoteFromT1Chosen, EvictFromT2Chosen,
       PassOverT2Chosen DEF Next, Replacing
<1>3. Chosen => VictimExact
  BY DEF Chosen
<1>4. QED
  BY <1>1, <1>2, <1>3, Invariance, PTL DEF Spec
-----------------------------------------------------------------------------
(***************************************************************************)
(* Transport: what reaches the wire.                                       *)
(***************************************************************************)
TransportSpec == TransportInit /\ [][TransportNext]_transportVars

\* The retries that the request may have, and the sends of one attempt.
Tries == IF MaxRetries = None \/ request.streaming THEN 0 ELSE MaxRetries
PerAttempt == 1 + MaxRedirects

Sent == [origin : {Home}, authenticated : BOOLEAN]

\* The wire holds full rounds of redirects for the attempts that are over,
\* and the first send and its redirects for the one that is not.
WireInv ==
  /\ phase \in {"build", "send", "classify", "sleep", "stream", "done"}
  /\ attempt \in 0 .. Tries /\ hops \in 0 .. MaxRedirects
  /\ wire \in Seq(Sent)
  /\ phase = "build" => wire = <<>> /\ attempt = 0 /\ hops = 0
  /\ phase = "sleep" => hops = 0 /\ Len(wire) <= attempt * PerAttempt
  /\ Len(wire) <= attempt * PerAttempt + hops + 1

\* Rounds of n sends.
LEMMA Rounds ==
  ASSUME NEW a \in Nat, NEW b \in Nat, NEW n \in Nat
  PROVE  /\ a * n \in Nat /\ (a + 1) * n = a * n + n
         /\ a <= b => a * n <= b * n
  OBVIOUS

LEMMA WireTypes ==
  /\ Tries \in Nat /\ PerAttempt \in Nat /\ PerAttempt = 1 + MaxRedirects /\ MaxRedirects \in Nat
  /\ [origin |-> Home, authenticated |-> request.op # "session"] \in Sent
  BY TransportAssumption DEF Tries, PerAttempt, Sent

\* A redirect is followed while hops are left, a retry sends again while
\* attempts are left, and a request that is only ever sent once is not cloned.
LEMMA WireStep == WireInv /\ [TransportNext]_transportVars => WireInv'
<1> SUFFICES ASSUME WireInv, [TransportNext]_transportVars PROVE WireInv'
  OBVIOUS
<1> DEFINE Send == [origin |-> Home, authenticated |-> request.op # "session"]
<1>1. /\ Tries \in Nat /\ PerAttempt \in Nat /\ PerAttempt = 1 + MaxRedirects
      /\ MaxRedirects \in Nat /\ Send \in Sent
      /\ attempt \in Nat /\ hops \in Nat /\ wire \in Seq(Sent) /\ Len(wire) \in Nat
  BY WireTypes DEF WireInv
<1>2. attempt * PerAttempt \in Nat /\ (attempt + 1) * PerAttempt = attempt * PerAttempt + PerAttempt
  BY <1>1, Rounds
<1> HIDE DEF Send
<1>3. Append(wire, Send) \in Seq(Sent) /\ Len(Append(wire, Send)) = Len(wire) + 1
  BY <1>1 DEF WireInv
<1>4. request' = request => Tries' = Tries
  BY DEF Tries
<1>5. CASE Build
  <2>1. /\ phase = "build" /\ UNCHANGED <<request, attempt, hops>>
        /\ \/ phase' = "done" /\ wire' = wire
           \/ phase' = "send" /\ wire' = Append(wire, Send)
    BY <1>5 DEF Build, Done, Send
  <2>2. Len(wire) = 0 /\ attempt = 0 /\ hops = 0
    BY <2>1 DEF WireInv
  <2>3. /\ attempt' \in 0 .. Tries' /\ hops' \in 0 .. MaxRedirects
    BY <1>4, <2>1 DEF WireInv
  <2>4. wire' \in Seq(Sent) /\ Len(wire') <= 1
    <3>1. CASE wire' = wire
      BY <1>1, <2>2, <3>1
    <3>2. CASE wire' = Append(wire, Send)
      <4>1. Len(Append(wire, Send)) <= 1
        BY <1>3, <2>2
      <4>2. QED
        BY <1>3, <3>2, <4>1
    <3>3. QED
      BY <2>1, <3>1, <3>2
  <2>5. Len(wire') <= attempt' * PerAttempt + hops' + 1
    <3>1. Len(wire') \in Nat /\ attempt' = attempt /\ hops' = hops
      BY <2>1, <2>4
    <3>2. QED
      BY <1>1, <1>2, <2>4, <3>1
  <2>6. QED
    BY <2>1, <2>3, <2>4, <2>5 DEF WireInv, PerAttempt
<1>6. ASSUME NEW origin, Redirected(origin) PROVE WireInv'
  <2>1. CASE SameOriginRedirectPolicy(origin)
    <3>1. /\ hops' = hops + 1 /\ hops < MaxRedirects /\ wire' = Append(wire, Send)
          /\ phase = "send" /\ UNCHANGED <<phase, request, attempt>>
      BY <1>6, <2>1 DEF Redirected, SameOriginRedirectPolicy, Send
    <3>2. QED
      BY <1>1, <1>2, <1>3, <1>4, <3>1 DEF WireInv
  <2>2. CASE ~SameOriginRedirectPolicy(origin)
    BY <1>4, <1>6, <2>2 DEF Redirected, Done, WireInv
  <2>3. QED
    BY <2>1, <2>2
<1>7. ASSUME NEW delayed \in BOOLEAN, Retry(delayed) PROVE WireInv'
  <2>1. /\ phase = "classify" /\ attempt' = attempt + 1 /\ hops' = 0 /\ request' = request
        /\ \/ phase' = "sleep" /\ wire' = wire
           \/ phase' = "send" /\ wire' = Append(wire, Send)
    BY <1>7 DEF Retry, Send
  <2>2. attempt < Tries
    BY <1>7 DEF Retry, HasNext, Tries
  <2>3. Len(wire) <= (attempt + 1) * PerAttempt
    BY <1>1, <1>2 DEF WireInv
  <2>4. QED
    BY SMTT(60), <1>1, <1>2, <1>3, <1>4, <2>1, <2>2, <2>3 DEF WireInv
<1>8. CASE Wake
  BY <1>1, <1>2, <1>3, <1>4, <1>8 DEF Wake, WireInv, Send
<1>9. CASE ExecuteFails \/ Finish \/ BodyFails \/ AcceptedBodyFails \/ OpenStream
           \/ \E answer \in Responses[request.op] : Answered(answer)
  <2>1. /\ UNCHANGED <<request, attempt, hops, wire>>
        /\ phase' \in {"classify", "stream", "done"}
    BY <1>9 DEF ExecuteFails, Finish, BodyFails, AcceptedBodyFails, OpenStream, Answered, Done
  <2>2. QED
    BY <1>4, <2>1 DEF WireInv
<1>10. CASE UNCHANGED transportVars
  BY <1>4, <1>10 DEF transportVars, WireInv
<1>11. QED
  BY <1>5, <1>6, <1>7, <1>8, <1>9, <1>10 DEF TransportNext

\* However often the service redirects and the policy retries, a request
\* reaches the wire at most once per attempt and redirect allowed, once if its
\* body is a stream, and only on the origin of the BMC (execute_with_retry,
\* same_origin_redirect_policy).
THEOREM WireCorrect == TransportSpec => []WireBounded
<1>1. TransportInit => WireInv
  BY WireTypes DEF TransportInit, WireInv
<1>2. WireInv => WireBounded
  <2> SUFFICES ASSUME WireInv PROVE WireBounded
    OBVIOUS
  <2>1. /\ Tries \in Nat /\ PerAttempt \in Nat /\ PerAttempt = 1 + MaxRedirects
        /\ MaxRedirects \in Nat /\ attempt \in Nat /\ hops \in Nat
    BY WireTypes DEF WireInv
  <2>2. \A i \in DOMAIN wire : wire[i].origin = Home
    <3>1. \A i \in DOMAIN wire : wire[i] \in Sent
      BY DEF WireInv
    <3>2. QED
      BY <3>1 DEF Sent
  <2>3. Len(wire) <= (attempt + 1) * PerAttempt
    BY <2>1, Rounds DEF WireInv
  <2>4. (attempt + 1) * PerAttempt <= (Tries + 1) * PerAttempt
    <3>1. attempt + 1 <= Tries + 1 /\ attempt + 1 \in Nat /\ Tries + 1 \in Nat
      BY <2>1 DEF WireInv
    <3>2. QED
      BY <2>1, <3>1, Rounds
  <2>5. (Tries + 1) * PerAttempt
          = (1 + MaxRedirects) * (IF MaxRetries = None \/ request.streaming THEN 1 ELSE 1 + MaxRetries)
    <3>1. CASE MaxRetries = None \/ request.streaming
      BY <2>1, <3>1 DEF Tries
    <3>2. CASE ~(MaxRetries = None \/ request.streaming)
      BY <2>1, <3>2 DEF Tries
    <3>3. QED
      BY <3>1, <3>2
  <2>6. Len(wire) \in Nat /\ (attempt + 1) * PerAttempt \in Nat /\ (Tries + 1) * PerAttempt \in Nat
    BY <2>1, Rounds DEF WireInv
  <2>7. Len(wire) <= (Tries + 1) * PerAttempt
    BY <2>3, <2>4, <2>6
  <2>8. QED
    BY <2>2, <2>5, <2>7 DEF WireBounded
<1>3. QED
  BY <1>1, <1>2, WireStep, PTL DEF TransportSpec
-----------------------------------------------------------------------------
(***************************************************************************)
(* Transport: what an answer is decoded to.  The messages of a body are    *)
(* read one by one; the reading is shown to be that of their set, by the   *)
(* least message at which it would not be.                                 *)
(***************************************************************************)
\* What the first n messages name, if it can be told at all.
IsReading(f, info, n) ==
  f = [k \in 0 .. n |-> IF k = 0 THEN [NoNames EXCEPT !.listed = TRUE]
                        ELSE Message(f[k - 1], info[k])]

\* A list of messages can be read up to any of them.
LEMMA ReadingExists ==
  ASSUME NEW info, NEW len \in Nat
  PROVE  \E f : IsReading(f, info, len)
<1> DEFINE Bad == {n \in Nat : ~\E f : IsReading(f, info, n)}
<1>1. SUFFICES ASSUME Bad # {} PROVE FALSE
  OBVIOUS
<1>2. PICK n \in Bad : \A m \in Bad : n <= m
  BY <1>1, MinOfNaturals
<1>3. CASE n = 0
  <2>1. PICK f : f = [k \in 0 .. 0 |-> [NoNames EXCEPT !.listed = TRUE]]
    OBVIOUS
  <2>2. IsReading(f, info, 0)
    BY <2>1 DEF IsReading
  <2>3. QED
    BY <1>2, <1>3, <2>2
<1>4. CASE n # 0
  <2>1. n - 1 \in Nat /\ n - 1 \notin Bad /\ n \in Nat
    BY <1>2, <1>4
  <2>2. PICK g : IsReading(g, info, n - 1)
    BY <2>1
  <2>3. PICK f : f = [k \in 0 .. n |-> IF k = n THEN Message(g[n - 1], info[n]) ELSE g[k]]
    OBVIOUS
  <2>4. \A k \in 0 .. n - 1 : f[k] = g[k]
    BY <2>1, <2>3
  <2>5. g[0] = [NoNames EXCEPT !.listed = TRUE]
    BY <2>1, <2>2 DEF IsReading
  <2>6. ASSUME NEW k \in 1 .. n - 1 PROVE g[k] = Message(g[k - 1], info[k])
    <3>1. k \in 0 .. n - 1 /\ k # 0
      BY <2>1
    <3>2. QED
      BY <2>2, <3>1 DEF IsReading
  <2>7. ASSUME NEW k \in 0 .. n
        PROVE  f[k] = IF k = 0 THEN [NoNames EXCEPT !.listed = TRUE] ELSE Message(f[k - 1], info[k])
    <3>1. CASE k = 0
      BY <1>4, <2>1, <2>4, <2>5, <3>1
    <3>2. CASE k \in 1 .. n - 1
      <4>1. f[k] = g[k] /\ f[k - 1] = g[k - 1]
        BY <2>1, <2>4, <3>2
      <4>2. QED
        BY <2>6, <3>2, <4>1
    <3>3. CASE k = n
      <4>1. f[n] = Message(g[n - 1], info[n]) /\ f[n - 1] = g[n - 1]
        BY <2>1, <2>3, <2>4
      <4>2. QED
        BY <1>4, <3>3, <4>1
    <3>4. QED
      BY <2>1, <3>1, <3>2, <3>3
  <2>8. IsReading(f, info, n)
    BY <2>3, <2>7 DEF IsReading
  <2>9. QED
    BY <1>2, <2>8
<1>5. QED
  BY <1>3, <1>4

\* So the recursive function that the code's loop is written as is that reading.
LEMMA ReadingIs ==
  ASSUME NEW info, Len(info) \in Nat
  PROVE  IsReading(Reading(info), info, Len(info))
<1>1. PICK f : IsReading(f, info, Len(info))
  BY ReadingExists
<1>2. QED
  BY <1>1 DEF Reading, IsReading

\* The codes in their order.
LEMMA PrecedenceOrder ==
  /\ precedence["NoOperation"] = 0 /\ precedence["Success"] = 1
  /\ precedence["ResetRequired"] = 2 /\ precedence["Created"] = 3
<1>1. \A c \in SuccessCodes : precedence[c] =
         CASE c = "NoOperation" -> 0 [] c = "Success" -> 1 [] c = "ResetRequired" -> 2 [] c = "Created" -> 3
  BY DEF precedence
<1>2. QED
  BY <1>1 DEF SuccessCodes

\* No two codes have the same precedence, and NoOperation gives way to every other.
LEMMA PrecedenceApart ==
  /\ \A c \in SuccessCodes : precedence[c] \in Nat
  /\ \A c, d \in SuccessCodes : precedence[c] = precedence[d] => c = d
  /\ \A c \in SuccessCodes : precedence[c] <= precedence["NoOperation"] => c = "NoOperation"
  BY PrecedenceOrder DEF SuccessCodes

\* A message id names one of the success codes or none.
LEMMA CodeIsSuccess ==
  ASSUME NEW id
  PROVE  CodeOf(id) \in SuccessCodes \cup {None}
  BY DEF CodeOf, SuccessCodes

IsWorthiest(c, codes) == c \in codes /\ \A d \in codes : precedence[d] <= precedence[c]

\* A set of codes has one worthiest code.
LEMMA WorthiestIs ==
  ASSUME NEW codes \in SUBSET SuccessCodes, NEW c, IsWorthiest(c, codes)
  PROVE  Worthiest(codes) = c
<1>1. IsWorthiest(Worthiest(codes), codes)
  BY DEF IsWorthiest, Worthiest
<1>2. PICK w : w = Worthiest(codes)
  OBVIOUS
<1>3. w \in SuccessCodes /\ c \in SuccessCodes
  BY <1>1, <1>2 DEF IsWorthiest
<1>4. precedence[w] <= precedence[c] /\ precedence[c] <= precedence[w]
  BY <1>1, <1>2 DEF IsWorthiest
<1>5. precedence[w] = precedence[c]
  BY <1>3, <1>4, PrecedenceApart
<1>6. QED
  BY <1>2, <1>3, <1>5, PrecedenceApart

\* Names that stand for a set of codes, and for whether anything else was said.
Sums(names, codes, other) ==
  /\ names = [listed |-> names.listed, code |-> names.code, no_operation |-> names.no_operation,
              other |-> names.other]
  /\ codes \subseteq SuccessCodes
  /\ IF codes = {} THEN names.code = None ELSE IsWorthiest(names.code, codes)
  /\ names.no_operation <=> "NoOperation" \in codes
  /\ names.other <=> other

\* Names::default() stands for no code.
LEMMA NothingNamed ==
  ASSUME NEW l, NEW names, names = [NoNames EXCEPT !.listed = l], NEW other, ~other
  PROVE  Sums(names, {}, other) /\ names.listed = l
<1>1. PICK f : f = FALSE
  OBVIOUS
<1>2. names = [listed |-> l, code |-> None, no_operation |-> f, other |-> f]
  BY <1>1 DEF NoNames
<1>3. names.listed = l /\ names.code = None /\ names.no_operation = f /\ names.other = f
  BY <1>2
<1>4. QED
  BY <1>1, <1>2, <1>3 DEF Sums

\* Names::name adds one code.
LEMMA NameSums ==
  ASSUME NEW names, NEW codes, NEW other, Sums(names, codes, other), NEW code \in SuccessCodes
  PROVE  Sums(Name(names, code), codes \cup {code}, other) /\ Name(names, code).listed = names.listed
<1>1. PICK l, c, n, o : names = [listed |-> l, code |-> c, no_operation |-> n, other |-> o]
  BY DEF Sums
<1>2. names.listed = l /\ names.code = c /\ names.no_operation = n /\ names.other = o
  BY <1>1
<1>3. PICK c2 : c2 = IF c = None \/ precedence[c] < precedence[code] THEN code ELSE c
  OBVIOUS
<1>4. PICK n2 : n2 = (n \/ code = "NoOperation")
  OBVIOUS
<1>5. PICK m : m = Name(names, code)
  OBVIOUS
<1>6. m = [listed |-> l, code |-> c2, no_operation |-> n2, other |-> o]
  <2>1. m = [names EXCEPT !.no_operation = n2, !.code = c2]
    BY <1>2, <1>3, <1>4, <1>5 DEF Name
  <2>2. DOMAIN m = {"listed", "code", "no_operation", "other"}
    BY <1>1, <2>1
  <2>3. m.listed = l /\ m.code = c2 /\ m.no_operation = n2 /\ m.other = o
    BY <1>1, <2>1
  <2>4. QED
    BY <1>1, <2>1, <2>2, <2>3
<1>7. m.listed = l /\ m.code = c2 /\ m.no_operation = n2 /\ m.other = o
  BY <1>6
<1>8. codes \subseteq SuccessCodes /\ codes \cup {code} \subseteq SuccessCodes /\ codes \cup {code} # {}
  BY DEF Sums
<1>9. IsWorthiest(c2, codes \cup {code})
  <2>1. CASE codes = {}
    <3>1. c2 = code
      BY <1>2, <1>3, <2>1 DEF Sums
    <3>2. precedence[code] <= precedence[code]
      BY PrecedenceApart
    <3>3. QED
      BY <2>1, <3>1, <3>2 DEF IsWorthiest
  <2>2. CASE codes # {}
    <3>1. IsWorthiest(c, codes)
      BY <1>2, <2>2 DEF Sums
    <3>2. c \in SuccessCodes /\ c # None
      BY <1>8, <3>1, AbsentAssumption DEF IsWorthiest
    <3>3. \A d \in codes \cup {code} : precedence[d] \in Nat
      BY <1>8, PrecedenceApart
    <3>4. c2 = IF precedence[c] < precedence[code] THEN code ELSE c
      BY <1>3, <3>2
    <3>5. QED
      BY <3>1, <3>3, <3>4 DEF IsWorthiest
  <2>3. QED
    BY <2>1, <2>2
<1>10. n2 <=> "NoOperation" \in codes \cup {code}
  BY <1>2, <1>4 DEF Sums
<1>11. o <=> other
  BY <1>2 DEF Sums
<1>12. Sums(m, codes \cup {code}, other)
  BY <1>6, <1>7, <1>8, <1>9, <1>10, <1>11 DEF Sums
<1>13. QED
  BY <1>2, <1>5, <1>7, <1>12

\* Names::add adds the codes of the other names.
LEMMA AddSums ==
  ASSUME NEW names, NEW codes, NEW other, Sums(names, codes, other),
         NEW more, NEW added, NEW extra, Sums(more, added, extra), NEW all, all <=> other \/ extra
  PROVE  Sums(Add(names, more), codes \cup added, all)
<1>1. added \subseteq SuccessCodes
  BY DEF Sums
<1>2. PICK mid : mid = IF more.code = None THEN names ELSE Name(names, more.code)
  OBVIOUS
<1>3. PICK some : some = IF more.code = None THEN codes ELSE codes \cup {more.code}
  OBVIOUS
<1>4. more.code = None <=> added = {}
  BY <1>1, AbsentAssumption DEF Sums, IsWorthiest
<1>5. Sums(mid, some, other)
  <2>1. CASE more.code = None
    BY <1>2, <1>3, <2>1
  <2>2. CASE more.code # None
    <3>1. more.code \in SuccessCodes
      BY <1>1, <1>4, <2>2 DEF Sums, IsWorthiest
    <3>2. QED
      BY <1>2, <1>3, <2>2, <3>1, NameSums
  <2>3. QED
    BY <2>1, <2>2
<1>6. PICK l, c, n, o : mid = [listed |-> l, code |-> c, no_operation |-> n, other |-> o]
  BY <1>5 DEF Sums
<1>7. mid.listed = l /\ mid.code = c /\ mid.no_operation = n /\ mid.other = o
  BY <1>6
<1>8. PICK m, n2, o2 : /\ m = Add(names, more) /\ n2 = (n \/ more.no_operation)
                       /\ o2 = (o \/ more.other)
  OBVIOUS
<1>9. m = [listed |-> l, code |-> c, no_operation |-> n2, other |-> o2]
  <2>1. m = [mid EXCEPT !.no_operation = n2, !.other = o2]
    BY <1>2, <1>7, <1>8 DEF Add
  <2>2. DOMAIN m = {"listed", "code", "no_operation", "other"}
    BY <1>6, <2>1
  <2>3. m.listed = l /\ m.code = c /\ m.no_operation = n2 /\ m.other = o2
    BY <1>6, <2>1
  <2>4. QED
    BY <1>6, <2>1, <2>2, <2>3
<1>10. m.listed = l /\ m.code = c /\ m.no_operation = n2 /\ m.other = o2
  BY <1>9
<1>11. /\ codes \subseteq SuccessCodes
       /\ IF some = {} THEN c = None ELSE IsWorthiest(c, some)
       /\ n <=> "NoOperation" \in some
       /\ o <=> other
       /\ more.no_operation <=> "NoOperation" \in added
       /\ more.other <=> extra
  BY <1>5, <1>7 DEF Sums
<1>12. IF codes \cup added = {} THEN c = None ELSE IsWorthiest(c, codes \cup added)
  <2>1. CASE added = {}
    <3>1. some = codes /\ codes \cup added = codes
      BY <1>3, <1>4, <2>1
    <3>2. QED
      BY <1>11, <3>1
  <2>2. CASE added # {}
    <3>1. IsWorthiest(more.code, added) /\ some = codes \cup {more.code}
      BY <1>3, <1>4, <2>2 DEF Sums
    <3>2. IsWorthiest(c, some)
      BY <1>11, <3>1
    <3>3. /\ \A d \in codes : precedence[d] <= precedence[c]
          /\ precedence[more.code] <= precedence[c]
          /\ \A d \in added : precedence[d] <= precedence[more.code]
          /\ c \in codes \cup added
      BY <3>1, <3>2 DEF IsWorthiest
    <3>4. \A d \in codes \cup added : precedence[d] \in Nat
      BY <1>1, <1>11, PrecedenceApart
    <3>5. precedence[more.code] \in Nat /\ precedence[c] \in Nat
      BY <3>1, <3>3, <3>4 DEF IsWorthiest
    <3>6. \A d \in added : precedence[d] <= precedence[c]
      BY <3>3, <3>4, <3>5
    <3>7. QED
      BY <2>2, <3>3, <3>6 DEF IsWorthiest
  <2>3. QED
    BY <2>1, <2>2
<1>13. n2 <=> "NoOperation" \in codes \cup added
  <2>1. "NoOperation" \in some => "NoOperation" \in codes \cup added
    BY <1>3, <1>4 DEF Sums, IsWorthiest
  <2>2. "NoOperation" \in codes => "NoOperation" \in some
    BY <1>3
  <2>3. QED
    BY <1>8, <1>11, <2>1, <2>2
<1>14. o2 <=> all
  BY <1>8, <1>11
<1>15. Sums(m, codes \cup added, all)
  BY <1>1, <1>9, <1>10, <1>11, <1>12, <1>13, <1>14 DEF Sums
<1>16. QED
  BY <1>8, <1>15

\* What else was said can be overwritten.
LEMMA OtherSums ==
  ASSUME NEW names, NEW codes, NEW other, Sums(names, codes, other),
         NEW x, NEW y, x <=> y, NEW m, m = [names EXCEPT !.other = x]
  PROVE  Sums(m, codes, y) /\ m.listed = names.listed
<1>1. PICK l, c, n, o : names = [listed |-> l, code |-> c, no_operation |-> n, other |-> o]
  BY DEF Sums
<1>2. names.listed = l /\ names.code = c /\ names.no_operation = n /\ names.other = o
  BY <1>1
<1>3. m = [listed |-> l, code |-> c, no_operation |-> n, other |-> x]
  BY <1>1
<1>4. m.listed = l /\ m.code = c /\ m.no_operation = n /\ m.other = x
  BY <1>3
<1>5. QED
  BY <1>2, <1>3, <1>4 DEF Sums

\* Names that stand for codes are not those of a failure.
LEMMA SumsIsSuccess ==
  ASSUME NEW names, NEW codes, NEW other, Sums(names, codes, other)
  PROVE  names # NotSuccess
<1>1. names.code \in SuccessCodes \cup {None}
  BY DEF Sums, IsWorthiest
<1>2. NotSuccess.code = "not a success"
  BY DEF NotSuccess, NoNames
<1>3. "not a success" \notin SuccessCodes
  BY DEF SuccessCodes
<1>4. "not a success" # None
  BY AbsentAssumption
<1>5. QED
  BY <1>1, <1>2, <1>3, <1>4

\* A message that spoils the list, and one that says more than a code.
Spoils(m) == m.id = None \/ "Critical" \in m.severities
SaysMore(m) == CodeOf(m.id) = None \/ \E s \in m.severities : ~Allows(CodeOf(m.id), s)

\* A message that does not spoil the list adds its code, if it has one.
LEMMA MessageSums ==
  ASSUME NEW names, NEW codes, NEW other, Sums(names, codes, other),
         NEW message, ~Spoils(message), NEW more, more <=> other \/ SaysMore(message)
  PROVE  /\ Sums(Message(names, message), codes \cup ({CodeOf(message.id)} \ {None}), more)
         /\ Message(names, message).listed = names.listed
<1>1. PICK code : code = CodeOf(message.id)
  OBVIOUS
<1>2. names # NotSuccess
  BY SumsIsSuccess
<1>3. Message(names, message) =
        IF code = None THEN [names EXCEPT !.other = TRUE]
        ELSE [Name(names, code) EXCEPT !.other = @ \/ \E s \in message.severities : ~Allows(code, s)]
  BY <1>1, <1>2 DEF Message, Spoils
<1>4. CASE code = None
  <2>1. PICK t : t = TRUE
    OBVIOUS
  <2>2. Message(names, message) = [names EXCEPT !.other = t]
    BY <1>3, <1>4, <2>1
  <2>3. t <=> more
    BY <1>1, <1>4, <2>1 DEF SaysMore
  <2>4. codes \cup ({code} \ {None}) = codes
    BY <1>4
  <2>5. PICK m : m = Message(names, message)
    OBVIOUS
  <2>6. Sums(m, codes, more) /\ m.listed = names.listed
    BY <2>2, <2>3, <2>5, OtherSums
  <2>7. QED
    BY <1>1, <2>4, <2>5, <2>6
<1>5. CASE code # None
  <2>1. code \in SuccessCodes
    BY <1>1, <1>5, CodeIsSuccess
  <2>2. PICK mid : mid = Name(names, code)
    OBVIOUS
  <2>3. Sums(mid, codes \cup {code}, other) /\ mid.listed = names.listed
    BY <2>1, <2>2, NameSums
  <2>4. PICK x : x = (mid.other \/ \E s \in message.severities : ~Allows(code, s))
    OBVIOUS
  <2>5. Message(names, message) = [mid EXCEPT !.other = x]
    BY <1>3, <1>5, <2>2, <2>4
  <2>6. mid.other <=> other
    BY <2>3 DEF Sums
  <2>7. x <=> more
    BY <1>1, <1>5, <2>4, <2>6 DEF SaysMore
  <2>8. codes \cup ({code} \ {None}) = codes \cup {code}
    BY <1>5
  <2>9. PICK m : m = Message(names, message)
    OBVIOUS
  <2>10. Sums(m, codes \cup {code}, more) /\ m.listed = mid.listed
    BY <2>3, <2>5, <2>7, <2>9, OtherSums
  <2>11. QED
    BY <1>1, <2>3, <2>8, <2>9, <2>10
<1>6. QED
  BY <1>4, <1>5

\* What reading a list as far as its n-th message yields.
CodesTo(info, n) == {CodeOf(info[i].id) : i \in 1 .. n} \ {None}
ReadTo(names, info, n) ==
  IF \E i \in 1 .. n : Spoils(info[i]) THEN names = NotSuccess
  ELSE /\ Sums(names, CodesTo(info, n), \E i \in 1 .. n : SaysMore(info[i]))
       /\ names.listed = TRUE

\* One more message keeps the reading in step with the set of what was read.
LEMMA ReadFurther ==
  ASSUME NEW info, NEW n \in Nat, NEW names, ReadTo(names, info, n),
         NEW next, next = Message(names, info[n + 1])
  PROVE  ReadTo(next, info, n + 1)
<1>1. \A i : i \in 1 .. n + 1 <=> i \in 1 .. n \/ i = n + 1
  OBVIOUS
<1>2. CASE \E i \in 1 .. n : Spoils(info[i])
  <2>1. names = NotSuccess
    BY <1>2 DEF ReadTo
  <2>2. next = NotSuccess
    BY <2>1 DEF Message
  <2>3. \E i \in 1 .. n + 1 : Spoils(info[i])
    BY <1>1, <1>2
  <2>4. QED
    BY <2>2, <2>3 DEF ReadTo
<1>3. CASE ~\E i \in 1 .. n : Spoils(info[i])
  <2>1. CASE Spoils(info[n + 1])
    <3>1. next = NotSuccess
      BY <2>1 DEF Message, Spoils
    <3>2. \E i \in 1 .. n + 1 : Spoils(info[i])
      BY <1>1, <2>1
    <3>3. QED
      BY <3>1, <3>2 DEF ReadTo
  <2>2. CASE ~Spoils(info[n + 1])
    <3>1. PICK other : other = \E i \in 1 .. n : SaysMore(info[i])
      OBVIOUS
    <3>2. PICK more : more = \E i \in 1 .. n + 1 : SaysMore(info[i])
      OBVIOUS
    <3>3. PICK codes : codes = CodesTo(info, n)
      OBVIOUS
    <3>4. Sums(names, codes, other) /\ names.listed = TRUE
      BY <1>3, <3>1, <3>3 DEF ReadTo
    <3>5. more <=> other \/ SaysMore(info[n + 1])
      BY <1>1, <3>1, <3>2
    <3>6. PICK message : message = info[n + 1]
      OBVIOUS
    <3>7. /\ Sums(next, codes \cup ({CodeOf(message.id)} \ {None}), more)
          /\ next.listed = names.listed
      BY <2>2, <3>4, <3>5, <3>6, MessageSums
    <3>8. codes \cup ({CodeOf(message.id)} \ {None}) = CodesTo(info, n + 1)
      BY <1>1, <3>3, <3>6 DEF CodesTo
    <3>9. ~\E i \in 1 .. n + 1 : Spoils(info[i])
      BY <1>1, <1>3, <2>2
    <3>10. Sums(next, CodesTo(info, n + 1), more) /\ next.listed = TRUE
      BY <3>4, <3>7, <3>8
    <3>11. QED
      BY <3>2, <3>9, <3>10 DEF ReadTo
  <2>3. QED
    BY <2>1, <2>2
<1>4. QED
  BY <1>2, <1>3

\* The whole list was read (by the least message at which it would not hold).
LEMMA ReadWhole ==
  ASSUME NEW info, Len(info) \in Nat
  PROVE  ReadTo(Reading(info)[Len(info)], info, Len(info))
<1>1. PICK f, len : f = Reading(info) /\ len = Len(info)
  OBVIOUS
<1>2. len \in Nat /\ IsReading(f, info, len)
  BY <1>1, ReadingIs
<1> DEFINE Bad == {n \in Nat : n <= len /\ ~ReadTo(f[n], info, n)}
<1>3. SUFFICES ASSUME Bad # {} PROVE FALSE
  BY <1>1
<1>4. PICK n \in Bad : \A m \in Bad : n <= m
  BY <1>3, MinOfNaturals
<1>5. CASE n = 0
  <2>1. PICK t : t = TRUE
    OBVIOUS
  <2>2. f[0] = [NoNames EXCEPT !.listed = t]
    BY <1>2, <2>1 DEF IsReading
  <2>3. PICK other : other = \E i \in 1 .. 0 : SaysMore(info[i])
    OBVIOUS
  <2>4. ~other /\ (~\E i \in 1 .. 0 : Spoils(info[i])) /\ CodesTo(info, 0) = {}
    BY <2>3 DEF CodesTo
  <2>5. PICK r : r = f[0]
    OBVIOUS
  <2>6. Sums(r, {}, other) /\ r.listed = t
    BY <2>2, <2>4, <2>5, NothingNamed
  <2>7. ReadTo(r, info, 0)
    BY <2>1, <2>3, <2>4, <2>6 DEF ReadTo
  <2>8. QED
    BY <1>4, <1>5, <2>5, <2>7
<1>6. CASE n # 0
  <2>1. n - 1 \in Nat /\ n - 1 <= len /\ n - 1 \notin Bad /\ n \in 0 .. len
    BY <1>2, <1>4, <1>6
  <2>2. ReadTo(f[n - 1], info, n - 1)
    BY <2>1
  <2>3. f[n] = Message(f[n - 1], info[n])
    BY <1>2, <1>6, <2>1 DEF IsReading
  <2>4. PICK k : k = n - 1
    OBVIOUS
  <2>5. k \in Nat /\ k + 1 = n
    BY <1>4, <2>1, <2>4
  <2>6. ReadTo(f[k + 1], info, k + 1)
    BY <2>2, <2>3, <2>4, <2>5, ReadFurther
  <2>7. QED
    BY <1>4, <2>5, <2>6
<1>7. QED
  BY <1>5, <1>6

\* The messages of a list, and what the code makes of them.
Said(info) == IF info \in {None, NotArray} THEN {} ELSE {info[i] : i \in DOMAIN info}
SumsOf(names, info) ==
  IF info = NotArray \/ \E m \in Said(info) : Spoils(m) THEN names = NotSuccess
  ELSE /\ Sums(names, MessageCodes(Said(info)), \E m \in Said(info) : SaysMore(m))
       /\ names.listed <=> info # None

\* messages() finds what a list says, whatever the order of its messages.
LEMMA MessagesSum ==
  ASSUME NEW info, IsInfo(info)
  PROVE  SumsOf(Messages(info), info)
<1>1. None # NotArray
  BY AbsentAssumption
<1>2. CASE info = None
  <2>1. Messages(info) = NoNames
    BY <1>1, <1>2 DEF Messages
  <2>2. PICK f : f = FALSE
    OBVIOUS
  <2>3. NoNames = [NoNames EXCEPT !.listed = f]
    <3>1. NoNames = [listed |-> f, code |-> None, no_operation |-> f, other |-> f]
      BY <2>2 DEF NoNames
    <3>2. QED
      BY <3>1
  <2>4. PICK other : other = \E m \in Said(info) : SaysMore(m)
    OBVIOUS
  <2>5. Said(info) = {} /\ MessageCodes(Said(info)) = {}
    BY <1>2 DEF Said, MessageCodes
  <2>6. ~other
    BY <2>4, <2>5
  <2>7. Sums(NoNames, {}, other) /\ NoNames.listed = f
    BY <2>3, <2>6, NothingNamed
  <2>8. ~(info = NotArray \/ \E m \in Said(info) : Spoils(m))
    BY <1>1, <1>2, <2>5
  <2>9. NoNames.listed <=> info # None
    BY <1>2, <2>2, <2>7
  <2>10. QED
    BY <2>1, <2>4, <2>5, <2>7, <2>8, <2>9 DEF SumsOf
<1>3. CASE info = NotArray
  BY <1>1, <1>3 DEF Messages, SumsOf
<1>4. CASE info \notin {None, NotArray}
  <2>1. Len(info) \in Nat /\ DOMAIN info = 1 .. Len(info)
    BY <1>4 DEF IsInfo
  <2>2. Messages(info) = Reading(info)[Len(info)]
    BY <1>4 DEF Messages
  <2>3. ReadTo(Messages(info), info, Len(info))
    BY <2>1, <2>2, ReadWhole
  <2>4. Said(info) = {info[i] : i \in 1 .. Len(info)}
    BY <1>4, <2>1 DEF Said
  <2>5. (\E i \in 1 .. Len(info) : Spoils(info[i])) <=> \E m \in Said(info) : Spoils(m)
    BY <2>4
  <2>6. CodesTo(info, Len(info)) = MessageCodes(Said(info))
    BY <2>4 DEF CodesTo, MessageCodes
  <2>7. PICK a, b : /\ a = \E i \in 1 .. Len(info) : SaysMore(info[i])
                    /\ b = \E m \in Said(info) : SaysMore(m)
    OBVIOUS
  <2>8. a = b
    <3>1. (\E i \in 1 .. Len(info) : SaysMore(info[i])) <=> (\E m \in Said(info) : SaysMore(m))
      BY <2>4
    <3>2. QED
      BY <2>7, <3>1
  <2>9. PICK names : names = Messages(info)
    OBVIOUS
  <2>10. CASE \E m \in Said(info) : Spoils(m)
    <3>1. names = NotSuccess
      BY <2>3, <2>5, <2>9, <2>10 DEF ReadTo
    <3>2. QED
      BY <2>9, <2>10, <3>1 DEF SumsOf
  <2>11. CASE ~\E m \in Said(info) : Spoils(m)
    <3>1. Sums(names, CodesTo(info, Len(info)), a) /\ names.listed = TRUE
      BY <2>3, <2>5, <2>7, <2>9, <2>11 DEF ReadTo
    <3>2. Sums(names, MessageCodes(Said(info)), b)
      BY <2>6, <2>8, <3>1
    <3>3. QED
      BY <1>4, <2>7, <2>9, <2>11, <3>1, <3>2 DEF SumsOf
  <2>12. QED
    BY <2>10, <2>11
<1>5. QED
  BY <1>2, <1>3, <1>4

\* A body is no success exactly when the documentation says so.
Spoiled(value) ==
  \/ NotArray \in Infos(value) \/ None \in StatusCodes(value)
  \/ \E m \in AllMessages(value) : Spoils(m)

\* The messages of a body are those of its lists.
LEMMA SaidIsAll ==
  ASSUME NEW value
  PROVE  AllMessages(value) = UNION {Said(info) : info \in Infos(value)}
  BY DEF AllMessages, Said

\* A list or a status object makes a body no success exactly when it should.
LEMMA FailsAsDocumented ==
  ASSUME NEW value, IsValue(value)
  PROVE  IsFailure(value) <=> Spoiled(value)
<1>1. \A info \in Infos(value) : IsInfo(info)
  BY DEF IsValue, Infos, Statuses
<1>2. \A info \in Infos(value) : SumsOf(Messages(info), info)
  BY <1>1, MessagesSum
<1>3. ASSUME NEW info \in Infos(value)
      PROVE  Messages(info) = NotSuccess <=> info = NotArray \/ \E m \in Said(info) : Spoils(m)
  <2>1. PICK names, b : names = Messages(info) /\ b = \E m \in Said(info) : SaysMore(m)
    OBVIOUS
  <2>2. CASE info = NotArray \/ \E m \in Said(info) : Spoils(m)
    BY <1>2, <2>2 DEF SumsOf
  <2>3. CASE ~(info = NotArray \/ \E m \in Said(info) : Spoils(m))
    <3>1. Sums(names, MessageCodes(Said(info)), b)
      BY <1>2, <2>1, <2>3 DEF SumsOf
    <3>2. QED
      BY <2>1, <2>3, <3>1, SumsIsSuccess
  <2>4. QED
    BY <2>2, <2>3
<1>4. (\E info \in Infos(value) : Messages(info) = NotSuccess)
        <=> NotArray \in Infos(value) \/ \E m \in AllMessages(value) : Spoils(m)
  BY <1>3, SaidIsAll
<1>5. (\E info \in Infos(value) : Messages(info) = NotSuccess)
        <=> Messages(value.info) = NotSuccess
            \/ \E s \in Statuses(value) : Messages(s.info) = NotSuccess
  BY DEF Infos, Statuses
<1>6. None \in StatusCodes(value) <=> \E s \in Statuses(value) : s.code = None \/ CodeOf(s.code) = None
  BY DEF StatusCodes, Statuses
<1>7. QED
  BY <1>4, <1>5, <1>6 DEF IsFailure, Spoiled

\* What a status object names, and what its messages name.
CodesIn(status) == IF status = None THEN {} ELSE {CodeOf(status.code)}
SaidIn(status) == IF status = None THEN {} ELSE Said(status.info)

\* Naming the code of a status object.
LEMMA StatusNamed ==
  ASSUME NEW names, NEW codes, NEW other, Sums(names, codes, other),
         NEW status, status # None => CodeOf(status.code) # None
  PROVE  Sums(NameStatus(names, status), codes \cup CodesIn(status), other)
<1>1. CASE status = None
  <2>1. NameStatus(names, status) = names /\ codes \cup CodesIn(status) = codes
    BY <1>1 DEF NameStatus, CodesIn
  <2>2. QED
    BY <2>1
<1>2. CASE status # None
  <2>1. PICK code : code = CodeOf(status.code)
    OBVIOUS
  <2>2. code \in SuccessCodes
    BY <1>2, <2>1, CodeIsSuccess
  <2>3. NameStatus(names, status) = Name(names, code) /\ CodesIn(status) = {code}
    BY <1>2, <2>1 DEF NameStatus, CodesIn
  <2>4. Sums(Name(names, code), codes \cup {code}, other)
    BY <2>2, NameSums
  <2>5. QED
    BY <2>3, <2>4
<1>3. QED
  BY <1>1, <1>2

\* Adding the messages of a status object.
LEMMA StatusAdded ==
  ASSUME NEW names, NEW codes, NEW other, Sums(names, codes, other),
         NEW status, status # None => SumsOf(Messages(status.info), status.info),
         status # None => Messages(status.info) # NotSuccess,
         NEW more, more <=> other \/ \E m \in SaidIn(status) : SaysMore(m)
  PROVE  Sums(AddStatus(names, status), codes \cup MessageCodes(SaidIn(status)), more)
<1>1. CASE status = None
  <2>1. /\ AddStatus(names, status) = names
        /\ SaidIn(status) = {} /\ MessageCodes(SaidIn(status)) = {}
    BY <1>1 DEF AddStatus, SaidIn, MessageCodes
  <2>2. more <=> other
    BY <2>1
  <2>3. codes \cup MessageCodes(SaidIn(status)) = codes
    BY <2>1
  <2>4. Sums(names, codes, more)
    BY <2>2 DEF Sums
  <2>5. QED
    BY <2>1, <2>3, <2>4
<1>2. CASE status # None
  <2>1. PICK msgs, b : msgs = Messages(status.info) /\ b = \E m \in Said(status.info) : SaysMore(m)
    OBVIOUS
  <2>2. SaidIn(status) = Said(status.info)
    BY <1>2 DEF SaidIn
  <2>3. Sums(msgs, MessageCodes(SaidIn(status)), b)
    BY <1>2, <2>1, <2>2 DEF SumsOf
  <2>4. more <=> other \/ b
    BY <2>1, <2>2
  <2>5. AddStatus(names, status) = Add(names, msgs)
    BY <1>2, <2>1 DEF AddStatus
  <2>6. Sums(Add(names, msgs), codes \cup MessageCodes(SaidIn(status)), more)
    BY <2>3, <2>4, AddSums
  <2>7. QED
    BY <2>5, <2>6
<1>3. QED
  BY <1>1, <1>2

\* What the documentation counts, by the three places that it can be in.
LEMMA Counted ==
  ASSUME NEW value, None \notin StatusCodes(value)
  PROVE  /\ StatusCodes(value) = CodesIn(value.error) \cup CodesIn(value.success)
         /\ AllMessages(value) = Said(value.info) \cup SaidIn(value.error) \cup SaidIn(value.success)
<1>1. \A s \in Statuses(value) : s.code # None
  BY DEF StatusCodes, Statuses
<1>2. StatusCodes(value) = {CodeOf(s.code) : s \in Statuses(value)}
  BY <1>1 DEF StatusCodes, Statuses
<1>3. StatusCodes(value) = CodesIn(value.error) \cup CodesIn(value.success)
  BY <1>2 DEF CodesIn, Statuses
<1>4. Infos(value) = {value.info} \cup {s.info : s \in Statuses(value)}
  BY DEF Infos, Statuses
<1>5. AllMessages(value) = Said(value.info) \cup SaidIn(value.error) \cup SaidIn(value.success)
  BY <1>4, SaidIsAll DEF SaidIn, Statuses
<1>6. QED
  BY <1>3, <1>5

\* The codes of two sets of messages together.
LEMMA CodesOfUnion ==
  ASSUME NEW a, NEW b
  PROVE  MessageCodes(a \cup b) = MessageCodes(a) \cup MessageCodes(b)
  BY DEF MessageCodes

\* The three sums that a report is made of.
OwnNames(value) == Messages(value.info)
CodeNames(value) == NameStatus(NameStatus(NoNames, value.error), value.success)
AllNames(value) ==
  Add(AddStatus(AddStatus(OwnNames(value), value.error), value.success), CodeNames(value))

\* Each of them stands for the codes that the documentation counts.
LEMMA ReportSums ==
  ASSUME NEW value, IsValue(value), ~Spoiled(value), NEW no, ~no,
         NEW own, own <=> \E m \in Said(value.info) : SaysMore(m),
         NEW more, more <=> \E m \in AllMessages(value) : SaysMore(m)
  PROVE  /\ Sums(CodeNames(value), StatusCodes(value), no)
         /\ Sums(OwnNames(value), MessageCodes(Said(value.info)), own)
         /\ OwnNames(value).listed <=> value.info # None
         /\ Sums(AllNames(value), StatusCodes(value) \cup MessageCodes(AllMessages(value)), more)
<1>1. None \notin StatusCodes(value) /\ ~IsFailure(value)
  BY FailsAsDocumented DEF Spoiled
<1>2. PICK e, s, i : e = value.error /\ s = value.success /\ i = value.info
  OBVIOUS
<1>3. /\ StatusCodes(value) = CodesIn(e) \cup CodesIn(s)
      /\ AllMessages(value) = Said(i) \cup SaidIn(e) \cup SaidIn(s)
  BY <1>1, <1>2, Counted
<1>4. /\ e # None => CodeOf(e.code) # None /\ Messages(e.info) # NotSuccess
      /\ s # None => CodeOf(s.code) # None /\ Messages(s.info) # NotSuccess
      /\ Messages(i) # NotSuccess
  BY <1>1, <1>2 DEF IsFailure, Statuses
<1>5. IsInfo(i) /\ (e # None => IsInfo(e.info)) /\ (s # None => IsInfo(s.info))
  BY <1>2 DEF IsValue, Statuses
<1>6. /\ SumsOf(Messages(i), i)
      /\ e # None => SumsOf(Messages(e.info), e.info)
      /\ s # None => SumsOf(Messages(s.info), s.info)
  BY <1>5, MessagesSum
<1>7. Sums(CodeNames(value), StatusCodes(value), no)
  <2>1. PICK f : f = FALSE
    OBVIOUS
  <2>2. NoNames = [listed |-> f, code |-> None, no_operation |-> f, other |-> f]
    BY <2>1 DEF NoNames
  <2>3. NoNames = [NoNames EXCEPT !.listed = f]
    BY <2>2
  <2>4. Sums(NoNames, {}, no)
    BY <2>3, NothingNamed
  <2>5. PICK mid : mid = NameStatus(NoNames, e)
    OBVIOUS
  <2>6. Sums(mid, {} \cup CodesIn(e), no)
    BY <1>4, <2>4, <2>5, StatusNamed
  <2>7. Sums(NameStatus(mid, s), {} \cup CodesIn(e) \cup CodesIn(s), no)
    BY <1>4, <2>6, StatusNamed
  <2>8. {} \cup CodesIn(e) \cup CodesIn(s) = StatusCodes(value)
    BY <1>3
  <2>9. CodeNames(value) = NameStatus(mid, s)
    BY <1>2, <2>5 DEF CodeNames
  <2>10. QED
    BY <2>7, <2>8, <2>9
<1>8. PICK names : names = OwnNames(value)
  OBVIOUS
<1>9. Sums(names, MessageCodes(Said(i)), own) /\ (names.listed <=> i # None)
  <2>1. PICK b : b = \E m \in Said(i) : SaysMore(m)
    OBVIOUS
  <2>2. Sums(names, MessageCodes(Said(i)), b) /\ (names.listed <=> i # None)
    BY <1>2, <1>4, <1>6, <1>8, <2>1 DEF SumsOf, OwnNames
  <2>3. b <=> own
    BY <1>2, <2>1
  <2>4. QED
    BY <2>2, <2>3 DEF Sums
<1>10. Sums(AllNames(value), StatusCodes(value) \cup MessageCodes(AllMessages(value)), more)
  <2>1. PICK o1 : o1 = (own \/ \E m \in SaidIn(e) : SaysMore(m))
    OBVIOUS
  <2>2. PICK o2 : o2 = (o1 \/ \E m \in SaidIn(s) : SaysMore(m))
    OBVIOUS
  <2>3. PICK n1, n2 : n1 = AddStatus(names, e) /\ n2 = AddStatus(n1, s)
    OBVIOUS
  <2>4. PICK c0, c1, c2 : /\ c0 = MessageCodes(Said(i)) /\ c1 = c0 \cup MessageCodes(SaidIn(e))
                          /\ c2 = c1 \cup MessageCodes(SaidIn(s))
    OBVIOUS
  <2>5. Sums(n1, c1, o1)
    <3>1. o1 <=> own \/ \E m \in SaidIn(e) : SaysMore(m)
      BY <2>1
    <3>2. Sums(names, c0, own)
      BY <1>9, <2>4
    <3>3. Sums(AddStatus(names, e), c0 \cup MessageCodes(SaidIn(e)), o1)
      BY <1>4, <1>6, <3>1, <3>2, StatusAdded
    <3>4. QED
      BY <2>3, <2>4, <3>3
  <2>6. Sums(n2, c2, o2)
    <3>1. o2 <=> o1 \/ \E m \in SaidIn(s) : SaysMore(m)
      BY <2>2
    <3>2. Sums(AddStatus(n1, s), c1 \cup MessageCodes(SaidIn(s)), o2)
      BY <1>4, <1>6, <2>5, <3>1, StatusAdded
    <3>3. QED
      BY <2>3, <2>4, <3>2
  <2>7. more <=> o2 \/ no
    <3>1. more <=> \E m \in Said(i) \cup SaidIn(e) \cup SaidIn(s) : SaysMore(m)
      BY <1>3
    <3>2. own <=> \E m \in Said(i) : SaysMore(m)
      BY <1>2
    <3>3. QED
      BY <2>1, <2>2, <3>1, <3>2
  <2>8. PICK codes : codes = CodeNames(value)
    OBVIOUS
  <2>9. AllNames(value) = Add(n2, codes)
    BY <1>2, <1>8, <2>3, <2>8 DEF AllNames
  <2>10. Sums(codes, StatusCodes(value), no)
    BY <1>7, <2>8
  <2>11. Sums(Add(n2, codes), c2 \cup StatusCodes(value), more)
    BY <2>6, <2>7, <2>10, AddSums
  <2>12. c2 \cup StatusCodes(value) = StatusCodes(value) \cup MessageCodes(AllMessages(value))
    <3>1. PICK x, y, z : x = Said(i) /\ y = SaidIn(e) /\ z = SaidIn(s)
      OBVIOUS
    <3>2. MessageCodes((x \cup y) \cup z) = (MessageCodes(x) \cup MessageCodes(y)) \cup MessageCodes(z)
      <4>1. PICK xy : xy = x \cup y
        OBVIOUS
      <4>2. /\ MessageCodes(x \cup y) = MessageCodes(x) \cup MessageCodes(y)
            /\ MessageCodes(xy \cup z) = MessageCodes(xy) \cup MessageCodes(z)
        BY CodesOfUnion
      <4>3. QED
        BY <4>1, <4>2
    <3>3. AllMessages(value) = (x \cup y) \cup z
      BY <1>3, <3>1
    <3>4. c2 = MessageCodes(AllMessages(value))
      BY <2>4, <3>1, <3>2, <3>3
    <3>5. QED
      BY <3>4
  <2>13. QED
    BY <2>9, <2>11, <2>12
<1>11. QED
  BY <1>2, <1>7, <1>8, <1>9, <1>10

\* The code that a report names, None if it is only a success.
NamedCode(value) ==
  IF CodeNames(value).code # None THEN CodeNames(value).code ELSE OwnNames(value).code

\* report(), in terms of them.
LEMMA ReportIs ==
  ASSUME NEW value
  PROVE  Report(value) =
    IF IsFailure(value) \/ (CodeNames(value).code = None /\ ~OwnNames(value).listed) THEN NoReport
    ELSE [code |-> IF NamedCode(value) = None THEN "Success" ELSE NamedCode(value),
          qualified |-> \/ NamedCode(value) = None \/ AllNames(value).other
                        \/ IF NamedCode(value) = "NoOperation"
                           THEN AllNames(value).code # "NoOperation"
                           ELSE AllNames(value).no_operation]
  BY DEF Report, NamedCode, CodeNames, OwnNames, AllNames

\* Names carry the worthiest of the codes they stand for.
LEMMA SumsCode ==
  ASSUME NEW names, NEW codes, NEW other, Sums(names, codes, other)
  PROVE  /\ names.code = None <=> codes = {}
         /\ codes # {} => names.code = Worthiest(codes) /\ names.code \in codes
         /\ codes \subseteq SuccessCodes
<1>1. codes \subseteq SuccessCodes /\ None \notin codes
  BY AbsentAssumption DEF Sums
<1>2. CASE codes = {}
  BY <1>1, <1>2 DEF Sums
<1>3. CASE codes # {}
  <2>1. IsWorthiest(names.code, codes)
    BY <1>3 DEF Sums
  <2>2. names.code \in codes
    BY <2>1 DEF IsWorthiest
  <2>3. PICK c : c = names.code
    OBVIOUS
  <2>4. Worthiest(codes) = c
    BY <1>1, <2>1, <2>3, WorthiestIs
  <2>5. QED
    BY <1>1, <1>3, <2>2, <2>3, <2>4
<1>4. QED
  BY <1>2, <1>3

\* A body means to the code what the documentation says it means.
LEMMA ReadAsDocumented ==
  ASSUME NEW value, IsValue(value)
  PROVE  /\ success_code(value) = DocumentedCode(value)
         /\ strict_success_code(value) =
              IF AsksResetForNothing(value) THEN None ELSE DocumentedStrict(value)
<1>1. PICK sc, all, own : /\ sc = StatusCodes(value)
                          /\ all = sc \cup MessageCodes(AllMessages(value))
                          /\ own = MessageCodes(Said(value.info))
  OBVIOUS
<1>2. PICK said : said = \E m \in AllMessages(value) : SaysMore(m)
  OBVIOUS
<1>3. IsFailure(value) <=> Spoiled(value)
  BY FailsAsDocumented
<1>4. (IF AsksResetForNothing(value) THEN None ELSE DocumentedStrict(value)) =
        IF /\ DocumentedCode(value) # None /\ DocumentedCode(value) \in all
           /\ ~said /\ ("NoOperation" \in all => all = {"NoOperation"})
        THEN DocumentedCode(value) ELSE None
  <2>1. ~said <=> \A m \in AllMessages(value) :
                    CodeOf(m.id) # None /\ \A s \in m.severities : Allows(CodeOf(m.id), s)
    BY <1>2 DEF SaysMore
  <2>2. all = NamedCodes(value)
    BY <1>1 DEF NamedCodes
  <2>3. CASE DocumentedCode(value) = None
    BY <2>3 DEF DocumentedStrict
  <2>4. CASE DocumentedCode(value) # None
    <3>1. None \notin StatusCodes(value)
      BY <2>4 DEF DocumentedCode
    <3>2. all \subseteq SuccessCodes
      <4>1. \A id : CodeOf(id) \in SuccessCodes \cup {None}
        BY DEF CodeOf, SuccessCodes
      <4>2. StatusCodes(value) \subseteq SuccessCodes
        BY <3>1, <4>1 DEF StatusCodes
      <4>3. MessageCodes(AllMessages(value)) \subseteq SuccessCodes
        BY <4>1 DEF MessageCodes
      <4>4. QED
        BY <1>1, <4>2, <4>3
    <3>3. ("NoOperation" \in all => all = {"NoOperation"})
            <=> /\ "NoOperation" \in all => all \cap {"Success", "Created"} = {}
                /\ ~AsksResetForNothing(value)
      BY <2>2, <2>4, <3>2 DEF SuccessCodes, AsksResetForNothing
    <3>4. QED
      BY <2>1, <2>2, <2>4, <3>3 DEF DocumentedStrict
  <2>5. QED
    BY <2>3, <2>4
<1>5. CASE Spoiled(value)
  <2>1. DocumentedCode(value) = None
    BY <1>5 DEF DocumentedCode, Spoiled, Spoils
  <2>2. Report(value) = NoReport
    BY <1>3, <1>5, ReportIs
  <2>3. NoReport.code = None
    BY DEF NoReport
  <2>4. success_code(value) = None /\ strict_success_code(value) = None
    BY <2>2, <2>3 DEF success_code, strict_success_code
  <2>5. QED
    BY <1>4, <2>1, <2>4
<1>6. CASE ~Spoiled(value)
  <2>1. PICK no, more : ~no /\ more = \E m \in Said(value.info) : SaysMore(m)
    <3>1. ~FALSE
      OBVIOUS
    <3>2. QED
      BY <3>1
  <2>2. PICK cn, on, an : cn = CodeNames(value) /\ on = OwnNames(value) /\ an = AllNames(value)
    OBVIOUS
  <2>3. Sums(cn, sc, no) /\ Sums(on, own, more) /\ (on.listed <=> value.info # None) /\ Sums(an, all, said)
    BY <1>1, <1>2, <1>6, <2>1, <2>2, ReportSums
  <2>4. /\ cn.code = None <=> sc = {}
        /\ sc # {} => cn.code = Worthiest(sc) /\ cn.code \in sc
        /\ sc \subseteq SuccessCodes
    BY <2>3, SumsCode
  <2>5. /\ on.code = None <=> own = {}
        /\ own # {} => on.code = Worthiest(own) /\ on.code \in own
    BY <2>3, SumsCode
  <2>6. /\ an.code = None <=> all = {}
        /\ all # {} => an.code = Worthiest(all) /\ an.code \in all
        /\ all \subseteq SuccessCodes
    BY <2>3, SumsCode
  <2>7. CASE sc = {} /\ value.info = None
    <3>1. Report(value) = NoReport
      BY <2>2, <2>3, <2>4, <2>7, ReportIs
    <3>2. DocumentedCode(value) = None
      BY <1>1, <2>7 DEF DocumentedCode
    <3>3. NoReport.code = None
      BY DEF NoReport
    <3>4. success_code(value) = None /\ strict_success_code(value) = None
      BY <3>1, <3>3 DEF success_code, strict_success_code
    <3>5. QED
      BY <1>4, <3>2, <3>4
  <2>8. CASE ~(sc = {} /\ value.info = None)
    <3>1. PICK code : code = NamedCode(value)
      OBVIOUS
    <3>2. code = IF sc # {} THEN Worthiest(sc) ELSE IF own # {} THEN Worthiest(own) ELSE None
      BY <2>2, <2>4, <2>5, <3>1 DEF NamedCode
    <3>3. PICK told : told = IF code = None THEN "Success" ELSE code
      OBVIOUS
    <3>4. PICK mixed : mixed = IF code = "NoOperation" THEN an.code # "NoOperation" ELSE an.no_operation
      OBVIOUS
    <3>5. PICK q : q = (code = None \/ an.other \/ mixed)
      OBVIOUS
    <3>6. Report(value) = [code |-> told, qualified |-> q]
      BY <1>3, <1>6, <2>2, <2>3, <2>4, <2>8, <3>1, <3>3, <3>4, <3>5, ReportIs
    <3>7. Report(value).code = told /\ Report(value).qualified = q
      BY <3>6
    <3>8. success_code(value) = told /\ strict_success_code(value) = IF q THEN None ELSE told
      BY <3>7 DEF success_code, strict_success_code
    <3>9. own \subseteq all
      <4>1. Said(value.info) \subseteq AllMessages(value)
        BY SaidIsAll DEF Infos
      <4>2. QED
        BY <1>1, <4>1 DEF MessageCodes
    <3>10. code = None => sc = {} /\ own = {}
      BY <2>4, <2>5, <2>6, <3>2, <3>9, AbsentAssumption
    <3>11. code # None => code \in all /\ code \in SuccessCodes
      BY <1>1, <2>4, <2>5, <2>6, <3>2, <3>9
    <3>12. DocumentedCode(value) = told
      <4>1. DocumentedCode(value) =
              LET mine == MessageCodes({value.info[i] : i \in DOMAIN value.info}) IN
              IF sc # {} THEN Worthiest(sc) ELSE IF mine # {} THEN Worthiest(mine) ELSE "Success"
        BY <1>1, <1>6, <2>8 DEF DocumentedCode, Spoiled, Spoils
      <4>2. CASE sc # {}
        <5>1. code # None
          BY <3>10, <4>2
        <5>2. QED
          BY <3>2, <3>3, <4>1, <4>2, <5>1
      <4>3. CASE sc = {}
        <5>1. value.info # None /\ value.info # NotArray
          BY <1>6, <2>8, <4>3 DEF Spoiled, Infos
        <5>2. own = MessageCodes({value.info[i] : i \in DOMAIN value.info})
          BY <1>1, <5>1 DEF Said
        <5>3. QED
          BY <3>2, <3>3, <3>10, <4>1, <4>3, <5>2
      <4>4. QED
        BY <4>2, <4>3
    <3>13. an.other <=> said
      BY <2>3 DEF Sums
    <3>14. an.no_operation <=> "NoOperation" \in all
      BY <2>3 DEF Sums
    <3>15. told # None
      <4>1. "Success" # None
        BY AbsentAssumption DEF SuccessCodes
      <4>2. QED
        BY <3>3, <4>1
    <3>16. CASE code = None
      <4>1. q
        BY <3>5, <3>16
      <4>2. all = own
        <5>1. Statuses(value) = {}
          BY <1>1, <3>10, <3>16 DEF StatusCodes, Statuses
        <5>2. Infos(value) = {value.info}
          BY <5>1 DEF Infos, Statuses
        <5>3. AllMessages(value) = Said(value.info)
          BY <5>2, SaidIsAll
        <5>4. QED
          BY <1>1, <3>10, <3>16, <5>3
      <4>3. told \notin all
        BY <3>10, <3>16, <4>2
      <4>4. QED
        BY <1>4, <3>8, <3>12, <4>1, <4>3
    <3>17. CASE code # None
      <4>1. told = code /\ code \in all
        BY <3>3, <3>11, <3>17
      <4>2. mixed <=> ~("NoOperation" \in all => all = {"NoOperation"})
        <5>1. CASE code = "NoOperation"
          <6>1. mixed <=> an.code # "NoOperation"
            BY <3>4, <5>1
          <6>2. ASSUME an.code = "NoOperation" PROVE all = {"NoOperation"}
            <7>1. IsWorthiest(an.code, all)
              BY <2>3, <4>1 DEF Sums
            <7>2. \A d \in all : precedence[d] <= precedence["NoOperation"]
              BY <6>2, <7>1 DEF IsWorthiest
            <7>3. \A d \in all : d = "NoOperation"
              BY <2>6, <7>2, PrecedenceApart
            <7>4. QED
              BY <4>1, <5>1, <7>3
          <6>3. ASSUME all = {"NoOperation"} PROVE an.code = "NoOperation"
            BY <2>6, <6>3
          <6>4. QED
            BY <4>1, <5>1, <6>1, <6>2, <6>3
        <5>2. CASE code # "NoOperation"
          <6>1. mixed <=> "NoOperation" \in all
            BY <3>4, <3>14, <5>2
          <6>2. all # {"NoOperation"}
            BY <4>1, <5>2
          <6>3. QED
            BY <6>1, <6>2
        <5>3. QED
          BY <5>1, <5>2
      <4>3. q <=> said \/ ~("NoOperation" \in all => all = {"NoOperation"})
        BY <3>5, <3>13, <3>17, <4>2
      <4>4. QED
        BY <1>4, <3>8, <3>12, <3>15, <4>1, <4>3
    <3>18. QED
      BY <3>16, <3>17
  <2>9. QED
    BY <2>7, <2>8
<1>7. QED
  BY <1>5, <1>6

\* An outcome whose URIs are of the BMC's origin, or the representation that was
\* sent, and a success only of a success.
Sound(outc, a) ==
  /\ outc.is = "Task" => outc.location \notin BadLocations \cup {None}
  /\ outc.is = "Entity" => outc.of \notin BadLocations \/ IsRepresentation(a, outc.of)
  /\ outc.is # "Err" => IsSuccess(a.status)

\* The outcomes, one by one: an error leads nowhere.
LEMMA FailedIsSound ==
  ASSUME NEW e, NEW a
  PROVE  Sound(Failed(e), a) /\ Failed(e).is = "Err"
  BY DEF Failed, Sound

\* A task is at a usable URI.
LEMMA TaskIsSound ==
  ASSUME NEW location, location \notin BadLocations \cup {None}, NEW a, IsSuccess(a.status)
  PROVE  Sound(Task(location, a), a) /\ Task(location, a).is = "Task"
<1>1. Task(location, a).is = "Task" /\ Task(location, a).location = location
  BY DEF Task
<1>2. QED
  BY <1>1 DEF Sound

\* So is a reference to a resource.
LEMMA ReferenceIsSound ==
  ASSUME NEW location, location \notin BadLocations, NEW a, IsSuccess(a.status)
  PROVE  Sound(EntityReference(location), a)
<1>1. EntityReference(location).is = "Entity" /\ EntityReference(location).of = location
  BY DEF EntityReference
<1>2. QED
  BY <1>1 DEF Sound

\* An empty outcome has no URI.
LEMMA EmptyIsSound ==
  ASSUME NEW a, IsSuccess(a.status)
  PROVE  Sound([is |-> "Empty"], a)
  BY DEF Sound

\* A 202 names its monitor, or the Task of its body, on this origin.
LEMMA AcceptedIsSound ==
  ASSUME NEW a, IsSuccess(a.status)
  PROVE  Sound(Accepted(a), a)
<1>1. PICK location, task : location = LocationOf(a) /\ task = TaskFromBody(a.body)
  OBVIOUS
<1>2. task \notin BadLocations
  BY <1>1, AnswerAssumption DEF TaskFromBody
<1>3. CASE IsBad(location) \/ (location = None /\ task = None)
  <2>1. Accepted(a) = Failed("InvalidResponse")
    BY <1>1, <1>3 DEF Accepted
  <2>2. QED
    BY <2>1, FailedIsSound
<1>4. CASE ~(IsBad(location) \/ (location = None /\ task = None))
  <2>1. PICK l : l = IF location # None THEN location ELSE task
    OBVIOUS
  <2>2. Accepted(a) = Task(l, a)
    BY <1>1, <1>4, <2>1 DEF Accepted
  <2>3. l \notin BadLocations \cup {None}
    BY <1>2, <1>4, <2>1 DEF IsBad
  <2>4. QED
    BY <2>2, <2>3, TaskIsSound
<1>5. QED
  BY <1>3, <1>4

\* An answer without content refers to a resource of this origin.
LEMMA ReferredIsSound ==
  ASSUME NEW a, NEW takes, IsSuccess(a.status)
  PROVE  Sound(Referred(a, takes), a)
<1>1. PICK location : location = LocationOf(a)
  OBVIOUS
<1>2. \/ Referred(a, takes) \in {Failed("InvalidResponse"), Failed("JsonError"), [is |-> "Empty"]}
      \/ Referred(a, takes) = EntityReference(location) /\ location \notin BadLocations
  <2>1. CASE IsBad(location)
    <3>1. location # None
      BY <2>1, AnswerAssumption DEF IsBad
    <3>2. QED
      BY <1>1, <2>1, <3>1 DEF Referred
  <2>2. CASE ~IsBad(location) /\ location = None
    BY <1>1, <2>2 DEF Referred
  <2>3. CASE ~IsBad(location) /\ location # None
    <3>1. location \notin BadLocations
      BY <2>3 DEF IsBad
    <3>2. Referred(a, takes) = IF takes THEN EntityReference(location) ELSE Failed("JsonError")
      BY <1>1, <2>3 DEF Referred
    <3>3. QED
      BY <3>1, <3>2
  <2>4. QED
    BY <2>1, <2>2, <2>3
<1>3. QED
  BY <1>2, FailedIsSound, EmptyIsSound, ReferenceIsSound

\* A document that fits is an entity, whatever its Location.
LEMMA RepresentationIsSound ==
  ASSUME NEW a, a.body \notin {Empty, NotJson}, IsValue(a.body), NEW takes,
         a.status \in {200, 201}, IsSuccess(a.status)
  PROVE  /\ Sound(Representation(a, takes), a)
         /\ a.body.fits => Representation(a, takes).is = "Entity"
<1>1. PICK v : v = IF a.body.id = None THEN a.body ELSE InjectEtag(EtagFromHeaders(a), a.body)
  OBVIOUS
<1>2. v.id = a.body.id /\ v.fits = a.body.fits
  <2>1. PICK b : b = a.body
    OBVIOUS
  <2>2. PICK f, d, e, t, r, s, i :
          b = [fits |-> f, id |-> d, etag |-> e, task |-> t, error |-> r, success |-> s, info |-> i]
    <3>1. b = [fits |-> b.fits, id |-> b.id, etag |-> b.etag, task |-> b.task, error |-> b.error,
               success |-> b.success, info |-> b.info]
      BY <2>1 DEF IsValue
    <3>2. QED
      BY <3>1
  <2>3. v = b \/ \E etag : v = [b EXCEPT !.etag = etag]
    BY <1>1, <2>1 DEF InjectEtag
  <2>4. QED
    BY <2>1, <2>2, <2>3
<1>3. v.fits => IsRepresentation(a, v.id)
  BY <1>2 DEF IsRepresentation
<1>4. PICK location : location = LocationOf(a)
  OBVIOUS
<1>5. CASE v.fits
  <2>1. Representation(a, takes) = Entity(v)
    BY <1>1, <1>5 DEF Representation
  <2>2. Entity(v).is = "Entity" /\ Entity(v).of = v.id
    BY DEF Entity
  <2>3. QED
    BY <1>3, <1>5, <2>1, <2>2 DEF Sound
<1>6. CASE ~v.fits
  <2>1. PICK m : m = [is |-> "Message", report |-> Report(v)]
    OBVIOUS
  <2>2. \/ Representation(a, takes) \in {Failed("InvalidResponse"), Failed("JsonError"), m}
        \/ Representation(a, takes) = EntityReference(location) /\ location \notin BadLocations
    <3>1. CASE success_code(v) # None /\ IsBad(location)
      <4>1. location # None
        BY <3>1, AnswerAssumption DEF IsBad
      <4>2. QED
        BY <1>1, <1>4, <1>6, <3>1, <4>1 DEF Representation
    <3>2. CASE success_code(v) # None /\ ~IsBad(location)
      <4>1. location \notin BadLocations
        BY <3>2 DEF IsBad
      <4>2. Representation(a, takes) =
              IF location = None \/ ~takes THEN m ELSE EntityReference(location)
        BY <1>1, <1>4, <1>6, <2>1, <3>2 DEF Representation
      <4>3. QED
        BY <4>1, <4>2
    <3>3. CASE success_code(v) = None
      <4>1. CASE IsMessageEnvelope(v)
        BY <1>1, <1>6, <3>3, <4>1 DEF Representation
      <4>2. CASE ~IsMessageEnvelope(v)
        BY <1>1, <1>6, <3>3, <4>2 DEF Representation
      <4>3. QED
        BY <4>1, <4>2
    <3>4. QED
      BY <3>1, <3>2, <3>3
  <2>3. Sound(m, a)
    BY <2>1 DEF Sound
  <2>4. QED
    BY <1>2, <1>6, <2>2, <2>3, FailedIsSound, ReferenceIsSound
<1>7. QED
  BY <1>5, <1>6

\* decode_modification, for every status.
LEMMA ModificationIsSound ==
  ASSUME NEW a, a.body \in {Empty, NotJson} \/ IsValue(a.body), NEW takes
  PROVE  /\ Sound(decode_modification(a, takes), a)
         /\ a.status \in {200, 201} /\ a.body \notin {Empty, NotJson} /\ a.body.fits
              => decode_modification(a, takes).is = "Entity"
<1>1. PICK d : d = decode_modification(a, takes)
  OBVIOUS
<1>2. CASE ~IsSuccess(a.status)
  <2>1. a.status \notin {200, 201, 202, 204}
    BY <1>2 DEF IsSuccess
  <2>2. d = Failed("InvalidResponse")
    BY <1>1, <1>2, <2>1 DEF decode_modification
  <2>3. QED
    BY <1>1, <2>1, <2>2, FailedIsSound
<1>3. CASE IsSuccess(a.status) /\ a.status = 204
  <2>1. d = [is |-> "Empty"]
    BY <1>1, <1>3 DEF decode_modification
  <2>2. QED
    BY <1>1, <1>3, <2>1, EmptyIsSound
<1>4. CASE IsSuccess(a.status) /\ a.status = 202
  <2>1. d = Accepted(a)
    BY <1>1, <1>4 DEF decode_modification
  <2>2. QED
    BY <1>1, <1>4, <2>1, AcceptedIsSound
<1>5. CASE a.status \in {200, 201}
  <2>1. IsSuccess(a.status) /\ a.status # 202 /\ a.status # 204
    BY <1>5 DEF IsSuccess
  <2>2. CASE a.body \in {Empty, NotJson}
    <3>1. d \in {Referred(a, takes), Failed("DecodeError")}
      BY <1>1, <1>5, <2>1, <2>2 DEF decode_modification
    <3>2. QED
      BY <1>1, <2>1, <2>2, <3>1, FailedIsSound, ReferredIsSound
  <2>3. CASE a.body \notin {Empty, NotJson}
    <3>1. d = Representation(a, takes)
      BY <1>1, <1>5, <2>1, <2>3 DEF decode_modification
    <3>2. QED
      BY <1>1, <1>5, <2>1, <2>3, <3>1, RepresentationIsSound
  <2>4. QED
    BY <2>2, <2>3
<1>6. CASE IsSuccess(a.status) /\ a.status \notin {200, 201, 202, 204}
  <2>1. d = Failed("InvalidResponse")
    BY <1>1, <1>6 DEF decode_modification
  <2>2. QED
    BY <1>1, <1>6, <2>1, FailedIsSound
<1>7. QED
  BY <1>2, <1>3, <1>4, <1>5, <1>6

\* decode_poll, which stays at the polled URI.
LEMMA PollIsSound ==
  ASSUME NEW a, a.body \in {Empty, NotJson} \/ IsValue(a.body), IsSuccess(a.status), NEW takes,
         NEW polled, polled \notin BadLocations \cup {None}
  PROVE  /\ Sound(decode_poll(a, takes, polled), a)
         /\ a.status \in {200, 201} /\ a.body \notin {Empty, NotJson} /\ a.body.fits
              => decode_poll(a, takes, polled).is = "Entity"
         /\ a.status = 202 /\ a.location = None => decode_poll(a, takes, polled).is = "Task"
<1>1. PICK d : d = decode_poll(a, takes, polled)
  OBVIOUS
<1>2. CASE a.status = 202
  <2>1. PICK l : l = IF LocationOf(a) = None THEN polled ELSE LocationOf(a)
    OBVIOUS
  <2>2. d = IF IsBad(LocationOf(a)) THEN Failed("InvalidResponse") ELSE Task(l, a)
    BY <1>1, <1>2, <2>1 DEF decode_poll
  <2>3. ~IsBad(LocationOf(a)) => l \notin BadLocations \cup {None}
    BY <2>1 DEF IsBad
  <2>4. Sound(d, a) /\ (~IsBad(LocationOf(a)) => d.is = "Task")
    BY <2>2, <2>3, FailedIsSound, TaskIsSound
  <2>5. a.location = None => ~IsBad(LocationOf(a))
    BY AnswerAssumption DEF IsBad, LocationOf
  <2>6. a.status \notin {200, 201}
    BY <1>2
  <2>7. QED
    BY <1>1, <2>4, <2>5, <2>6
<1>3. CASE a.status = 204
  <2>1. d = Referred(a, takes)
    BY <1>1, <1>3 DEF decode_poll
  <2>2. a.status \notin {200, 201, 202}
    BY <1>3
  <2>3. Sound(d, a)
    BY <2>1, ReferredIsSound
  <2>4. QED
    BY <1>1, <2>2, <2>3
<1>4. CASE a.status # 202 /\ a.status # 204
  <2>1. d = decode_modification(a, takes)
    BY <1>1, <1>4 DEF decode_poll
  <2>2. QED
    BY <1>1, <1>4, <2>1, ModificationIsSound
<1>5. QED
  BY <1>2, <1>3, <1>4

\* What Followable asks of the outcome of an answer.
Follows(op, a, outc) ==
  /\ Sound(outc, a)
  /\ (a.status = 202 /\ a.location = None /\ op = "poll" /\ outc # Failed("ReqwestError"))
       => outc.is = "Task"
  /\ (a.status \in {200, 201} /\ a.body \notin {Empty, NotJson} /\ outc # Failed("ReqwestError")
        /\ a.body.fits) => outc.is = "Entity"

Polled == Modifications \cup {"poll"}

\* Followable, said of the outcome alone.
LEMMA FollowableIs ==
  Followable <=> (phase = "done" /\ response # None /\ request.op \in Polled
                    => Follows(request.op, response, outcome))
  BY DEF Followable, Follows, Sound, Polled

\* Dropping the body of a 204, or of a 202 that broke off, changes nothing else.
LEMMA ReadAnswer ==
  ASSUME NEW a, IsAnswer(a), NEW b,
         b = successful_response(a) \/ (a.status = 202 /\ b = successful_response([a EXCEPT !.body = Empty]))
  PROVE  /\ b.status = a.status /\ b.location = a.location
         /\ a.status \in {200, 201} => b.body = a.body
         /\ b.body \in {Empty, NotJson} \/ IsValue(b.body)
<1>1. PICK s, l, e, t, r, d : /\ a = [status |-> s, location |-> l, etag |-> e, token |-> t,
                                     retryAfter |-> r, body |-> d]
                              /\ d \in {Empty, NotJson} \/ IsValue(d)
  BY DEF IsAnswer
<1>2. a.status = s /\ a.location = l /\ a.body = d
  BY <1>1
<1>3. (b = a /\ a.status # 204) \/ (a.status \in {202, 204} /\ b = [a EXCEPT !.body = Empty])
  BY <1>1 DEF successful_response
<1>4. CASE b = a
  BY <1>1, <1>2, <1>4
<1>5. CASE a.status \in {202, 204} /\ b = [a EXCEPT !.body = Empty]
  <2>1. b.status = s /\ b.location = l /\ b.body = Empty
    BY <1>1, <1>5
  <2>2. a.status \notin {200, 201}
    BY <1>5
  <2>3. QED
    BY <1>2, <2>1, <2>2
<1>6. QED
  BY <1>3, <1>4, <1>5

\* What the handlers make of an answer can be followed.
LEMMA DecodedFollows ==
  ASSUME request.op \in Polled, request \in Requests, NEW a, IsAnswer(a), NEW b,
         b = a \/ (a.status = 202 /\ b = [a EXCEPT !.body = Empty])
  PROVE  Follows(request.op, a, Decoded(b))
<1>1. PICK c, takes, polled : /\ c = successful_response(b)
                              /\ takes = request.takesReference /\ polled = request.polled
  OBVIOUS
<1>2. /\ c.status = a.status /\ c.location = a.location
      /\ a.status \in {200, 201} => c.body = a.body
      /\ c.body \in {Empty, NotJson} \/ IsValue(c.body)
  <2>1. c = successful_response(a) \/ (a.status = 202 /\ c = successful_response([a EXCEPT !.body = Empty]))
    BY <1>1
  <2>2. QED
    BY <2>1, ReadAnswer
<1>3. b.status = a.status
  BY DEF IsAnswer
<1>4. polled \notin BadLocations \cup {None}
  BY <1>1, AnswerAssumption
<1>5. PICK d : d = Decoded(b)
  OBVIOUS
<1>6. CASE request.op = "poll"
  <2>1. d = IF IsSuccess(a.status) THEN decode_poll(c, takes, polled) ELSE Failed("InvalidResponse")
    BY <1>1, <1>3, <1>5, <1>6 DEF Decoded
  <2>2. CASE IsSuccess(a.status)
    <3>1. d = decode_poll(c, takes, polled)
      BY <2>1, <2>2
    <3>2. /\ Sound(d, c)
          /\ c.status \in {200, 201} /\ c.body \notin {Empty, NotJson} /\ c.body.fits => d.is = "Entity"
          /\ c.status = 202 /\ c.location = None => d.is = "Task"
      BY <1>2, <1>4, <2>2, <3>1, PollIsSound
    <3>3. QED
      BY <1>2, <1>5, <3>2 DEF Follows, Sound, IsRepresentation
  <2>3. CASE ~IsSuccess(a.status)
    <3>1. a.status \notin {200, 201, 202}
      BY <2>3 DEF IsSuccess
    <3>2. d = Failed("InvalidResponse")
      BY <2>1, <2>3
    <3>3. Sound(d, a)
      BY <3>2, FailedIsSound
    <3>4. QED
      BY <1>5, <3>1, <3>3 DEF Follows
  <2>4. QED
    BY <2>2, <2>3
<1>7. CASE request.op # "poll"
  <2>1. request.op \notin {"get", "poll", "session"}
    BY <1>7 DEF Polled, Modifications
  <2>2. d = decode_modification(c, takes)
    BY <1>1, <1>5, <2>1 DEF Decoded
  <2>3. /\ Sound(d, c)
        /\ c.status \in {200, 201} /\ c.body \notin {Empty, NotJson} /\ c.body.fits => d.is = "Entity"
    BY <1>2, <2>2, ModificationIsSound
  <2>4. QED
    BY <1>2, <1>5, <1>7, <2>3 DEF Follows, Sound, IsRepresentation
<1>8. QED
  BY <1>6, <1>7

\* The response is one of those to this request, and there is none before an answer.
AnswerInv ==
  /\ request \in Requests
  /\ phase \in {"build", "send", "sleep"} => response = None
  /\ response # None => response \in Responses[request.op]

\* Initially there is no response.
LEMMA AnswerStart == TransportInit => AnswerInv /\ Followable
  BY DEF TransportInit, AnswerInv, Followable

\* Every step keeps the response one of those to the request.
LEMMA AnswerStep == AnswerInv /\ [TransportNext]_transportVars => AnswerInv'
<1> SUFFICES ASSUME AnswerInv, [TransportNext]_transportVars PROVE AnswerInv'
  OBVIOUS
<1>1. CASE Build \/ ExecuteFails \/ Wake \/ \E origin \in {Home, Foreign} : Redirected(origin)
  <2>1. UNCHANGED <<request, response>> /\ response = None
    BY <1>1 DEF Build, ExecuteFails, Wake, Redirected, AnswerInv
  <2>2. QED
    BY <2>1 DEF AnswerInv
<1>2. CASE \E answer \in Responses[request.op] : Answered(answer)
  BY <1>2 DEF Answered, AnswerInv
<1>3. CASE \E delayed \in BOOLEAN : Retry(delayed)
  <2>1. response' = None /\ request' = request
    BY <1>3 DEF Retry
  <2>2. QED
    BY <2>1 DEF AnswerInv
<1>4. CASE Finish \/ BodyFails \/ AcceptedBodyFails \/ OpenStream
  <2>1. UNCHANGED <<request, response>> /\ phase' \in {"done", "stream"}
    BY <1>4 DEF Finish, BodyFails, AcceptedBodyFails, OpenStream, Done
  <2>2. QED
    BY <2>1 DEF AnswerInv
<1>5. CASE UNCHANGED transportVars
  BY <1>5 DEF transportVars, AnswerInv
<1>6. QED
  BY <1>1, <1>2, <1>3, <1>4, <1>5 DEF TransportNext

\* Every step that ends a request leaves an outcome that can be followed.
LEMMA FollowStep == AnswerInv /\ Followable /\ [TransportNext]_transportVars => Followable'
<1> SUFFICES ASSUME AnswerInv, Followable, [TransportNext]_transportVars PROVE Followable'
  OBVIOUS
<1>1. Followable' <=> (phase' = "done" /\ response' # None /\ request'.op \in Polled
                         => Follows(request'.op, response', outcome'))
  BY DEF Followable, Follows, Sound, Polled
<1>2. CASE Build \/ ExecuteFails \/ Wake \/ \E origin \in {Home, Foreign} : Redirected(origin)
  <2>1. response' = None
    BY <1>2 DEF Build, ExecuteFails, Wake, Redirected, AnswerInv
  <2>2. QED
    BY <1>1, <2>1
<1>3. CASE (\E answer \in Responses[request.op] : Answered(answer))
           \/ (\E delayed \in BOOLEAN : Retry(delayed))
  <2>1. phase' # "done"
    BY <1>3 DEF Answered, Retry
  <2>2. QED
    BY <1>1, <2>1
<1>4. CASE Finish \/ AcceptedBodyFails
  <2>1. SUFFICES ASSUME response # None, request.op \in Polled
                 PROVE  Follows(request.op, response, outcome')
    BY <1>1, <1>4 DEF Finish, AcceptedBodyFails
  <2>2. request \in Requests /\ IsAnswer(response)
    BY <2>1, AnswerAssumption DEF AnswerInv
  <2>3. PICK a : a = response
    OBVIOUS
  <2>4. PICK b : /\ b = a \/ (a.status = 202 /\ b = [a EXCEPT !.body = Empty])
                 /\ outcome' = Decoded(b)
    BY <1>4, <2>3 DEF Finish, AcceptedBodyFails, Done
  <2>5. Follows(request.op, a, Decoded(b))
    BY <2>1, <2>2, <2>3, <2>4, DecodedFollows
  <2>6. QED
    BY <2>3, <2>4, <2>5
<1>5. CASE BodyFails
  <2>1. outcome' = Failed("ReqwestError")
    BY <1>5 DEF BodyFails, Done
  <2>2. PICK d, a, op : d = outcome' /\ a = response' /\ op = request'.op
    OBVIOUS
  <2>3. Sound(d, a)
    BY <2>1, <2>2, FailedIsSound
  <2>4. Follows(op, a, d)
    BY <2>1, <2>2, <2>3 DEF Follows
  <2>5. QED
    BY <1>1, <2>2, <2>4
<1>6. CASE OpenStream
  <2>1. request'.op = "sse"
    BY <1>6 DEF OpenStream
  <2>2. "sse" \notin Polled
    BY DEF Polled, Modifications
  <2>3. QED
    BY <1>1, <2>1, <2>2
<1>7. CASE UNCHANGED transportVars
  BY <1>7 DEF transportVars, Followable
<1>8. QED
  BY <1>2, <1>3, <1>4, <1>5, <1>6, <1>7 DEF TransportNext

\* Whatever response is looked at, its body reads as documented.
LEMMA AnswersRead == AnswerInv => MessagesReadAsDocumented
<1> SUFFICES ASSUME AnswerInv, response # None, response.body \notin {Empty, NotJson}
             PROVE  /\ success_code(response.body) = DocumentedCode(response.body)
                    /\ strict_success_code(response.body) =
                         IF AsksResetForNothing(response.body) THEN None
                         ELSE DocumentedStrict(response.body)
  BY DEF MessagesReadAsDocumented, HasDocument
<1>1. IsAnswer(response)
  BY AnswerAssumption DEF AnswerInv
<1>2. PICK value : value = response.body
  OBVIOUS
<1>3. IsValue(value)
  BY <1>1, <1>2 DEF IsAnswer
<1>4. QED
  BY <1>2, <1>3, ReadAsDocumented

\* DecodedFaithfully: for every service that answers with messages, status
\* objects and locations of any kind and in any order, success_code and
\* strict_success_code say what their documentation says of the set of what a
\* body contains, but for NoOperation beside ResetRequired; and what a
\* modification or a poll gives its caller to follow is a URI of the BMC or the
\* representation as it was sent (report, decode_modification and decode_poll
\* of response.rs).
THEOREM AnswersAreDecodedFaithfully == TransportSpec => []DecodedFaithfully
<1>1. TransportInit => AnswerInv /\ Followable
  BY AnswerStart
<1>2. AnswerInv /\ Followable /\ [TransportNext]_transportVars => AnswerInv' /\ Followable'
  BY AnswerStep, FollowStep
<1>3. AnswerInv /\ Followable => DecodedFaithfully
  BY AnswersRead DEF DecodedFaithfully
<1>4. QED
  BY <1>1, <1>2, <1>3, PTL DEF TransportSpec
-----------------------------------------------------------------------------
(***************************************************************************)
(* EventStream, the frames: the id to resume after.                        *)
(***************************************************************************)
FrameSpec == FrameInit /\ [][FrameNext]_frameVars

\* The events of S that set or clear the id, and those up to the k-th.
Deciding(S) == {n \in S : log[n].id \in {"own", "empty"}}
UpTo(S, k) == {n \in S : n <= k}

\* x is the id in effect after the events of S: the last of them that decides
\* sets x, or, where x is 0, none does or the last one clears it.
Decides(S, x) ==
  IF x # 0 THEN x \in S /\ log[x].id = "own" /\ \A m \in Deciding(S) : m <= x
  ELSE \A n \in Deciding(S) : log[n].id = "own" => \E m \in Deciding(S) : n < m

FrameTypeOK ==
  /\ log \in Seq(Frames) /\ stream \in {"closed", "open", "fatal"}
  /\ pos \in 0 .. Len(log) /\ (\A m \in received : m \in 1 .. pos)
  /\ lastItem \in 0 .. Len(log) /\ resume \in 0 .. lastItem
  /\ last \in Nat

\* The id in effect on an open stream is decided by what it has received; the
\* id to resume after by what came up to the last item, and it names an event
\* that was received.
FrameInv ==
  /\ FrameTypeOK
  /\ lastItem # 0 => log[lastItem].data = "ok"
  /\ stream # "closed" => Decides(received, last)
  /\ resume # 0 => resume \in received /\ log[resume].id = "own"
  /\ lastItem \in received => Decides(UpTo(received, lastItem), resume)

\* A new event of the service does not change what the earlier ones decide.
LEMMA DecidesKept ==
  ASSUME FrameTypeOK, NEW frame \in Frames, log' = Append(log, frame),
         NEW S, \A m \in S : m \in 1 .. Len(log), NEW x, Decides(S, x)
  PROVE  Decides(S, x)'
<1>1. \A n \in S : log'[n] = log[n]
  BY DEF FrameTypeOK
<1>2. Deciding(S)' = Deciding(S)
  BY <1>1 DEF Deciding
<1>3. QED
  BY <1>1, <1>2 DEF Decides, Deciding

\* One more event, behind all of S.
LEMMA DecidesNext ==
  ASSUME FrameTypeOK, NEW S, \A m \in S : m \in 1 .. pos, Decides(S, last), pos < Len(log)
  PROVE  Decides(S \cup {pos + 1}, IdAfter(log[pos + 1], pos + 1))
<1> DEFINE n == pos + 1
           T == S \cup {n}
<1>1. /\ n \in Nat /\ n # 0 /\ pos \in Nat /\ last \in Nat /\ log[n] \in Frames
      /\ \A m \in S : m \in Nat /\ m < n
  BY DEF FrameTypeOK
<1>2. log[n].id \in {"own", "none", "nul", "empty"}
  BY <1>1 DEF Frames
<1> HIDE DEF n
<1>3. CASE log[n].id = "own"
  <2>1. IdAfter(log[n], n) = n
    BY <1>3 DEF IdAfter
  <2>2. n \in T /\ \A m \in Deciding(T) : m <= n
    BY <1>1 DEF Deciding
  <2>3. QED
    BY <1>1, <1>3, <2>1, <2>2 DEF Decides, n
<1>4. CASE log[n].id = "empty"
  <2>1. IdAfter(log[n], n) = 0
    BY <1>4 DEF IdAfter
  <2>2. n \in Deciding(T) /\ \A m \in Deciding(T) : m = n \/ m < n
    BY <1>1, <1>4 DEF Deciding
  <2>3. QED
    BY <1>4, <2>1, <2>2 DEF Decides, n
<1>5. CASE log[n].id \in {"none", "nul"}
  <2>1. IdAfter(log[n], n) = last
    BY <1>5 DEF IdAfter
  <2>2. Deciding(T) = Deciding(S)
    BY <1>5 DEF Deciding
  <2>3. QED
    BY <2>1, <2>2 DEF Decides, n
<1>6. QED
  BY <1>2, <1>3, <1>4, <1>5

LEMMA ProduceInv ==
  ASSUME FrameInv, NEW frame \in Frames, Produce(frame)
  PROVE  FrameInv'
<1>1. /\ log' = Append(log, frame)
      /\ UNCHANGED <<stream, pos, last, resume, lastItem, received>>
      /\ FrameTypeOK
  BY DEF Produce, FrameInv
<1>2. log' \in Seq(Frames) /\ Len(log') = Len(log) + 1 /\ Len(log) \in Nat
      /\ \A n \in 1 .. Len(log) : log'[n] = log[n]
  BY <1>1 DEF FrameTypeOK
<1>3. /\ FrameTypeOK'
      /\ (\A m \in received : m \in 1 .. Len(log))
      /\ (\A m \in UpTo(received, lastItem) : m \in 1 .. Len(log))
      /\ resume \in 0 .. Len(log) /\ lastItem \in 0 .. Len(log)
  <2>1. pos \in 0 .. Len(log') /\ lastItem \in 0 .. Len(log')
    BY <1>1, <1>2 DEF FrameTypeOK
  <2>2. FrameTypeOK'
    BY <1>1, <1>2, <2>1 DEF FrameTypeOK
  <2>3. (\A m \in received : m \in 1 .. Len(log))
      /\ (\A m \in UpTo(received, lastItem) : m \in 1 .. Len(log))
    BY <1>1, <1>2 DEF FrameTypeOK, UpTo
  <2>4. resume \in 0 .. Len(log) /\ lastItem \in 0 .. Len(log)
    BY <1>1, <1>2 DEF FrameTypeOK
  <2>5. QED
    BY <2>2, <2>3, <2>4
<1>4. stream # "closed" => Decides(received, last)'
  BY <1>1, <1>3, DecidesKept DEF FrameInv
<1>5. lastItem \in received => Decides(UpTo(received, lastItem), resume)'
  BY <1>1, <1>3, DecidesKept DEF FrameInv
<1>6. QED
  BY <1>1, <1>2, <1>3, <1>4, <1>5 DEF FrameInv, UpTo

\* A stream is opened again: with an id the events up to that one are still
\* the ones that decide; without one nothing is known of earlier events.
LEMMA SseEventsInv ==
  ASSUME FrameInv, SseEvents
  PROVE  FrameInv'
<1>1. /\ stream' = "open" /\ last' = resume /\ UNCHANGED <<log, resume, lastItem>>
      /\ pos' = (IF resume # 0 THEN resume ELSE Len(log))
      /\ received' = UpTo(received, resume)
      /\ FrameTypeOK
  BY DEF SseEvents, InEffectOnOpen, FrameInv, UpTo
<1>2. /\ Len(log) \in Nat /\ resume \in Nat /\ lastItem \in Nat /\ resume <= lastItem
      /\ lastItem <= Len(log) /\ \A m \in received : m \in 1 .. Len(log)
  BY <1>1 DEF FrameTypeOK
<1>3. FrameTypeOK'
  <2>1. pos' \in 0 .. Len(log) /\ \A m \in received' : m \in 1 .. pos'
    BY <1>1, <1>2 DEF UpTo
  <2>2. QED
    BY <1>1, <1>2, <2>1 DEF FrameTypeOK
<1>4. CASE resume = 0
  <2>1. received' = {}
    BY <1>1, <1>2, <1>4 DEF UpTo
  <2>2. Decides(received, last)'
    BY <1>1, <1>4, <2>1 DEF Decides, Deciding
  <2>3. QED
    BY <1>1, <1>3, <1>4, <2>1, <2>2 DEF FrameInv
<1>5. CASE resume # 0
  <2>1. resume \in received' /\ log[resume].id = "own"
    BY <1>1, <1>2, <1>5 DEF FrameInv, UpTo
  <2>2. \A m \in received' : m \in Nat /\ m <= resume
    BY <1>1, <1>2 DEF UpTo
  <2>3. Decides(received, last)'
    BY <1>1, <1>5, <2>1, <2>2 DEF Decides, Deciding
  <2>4. UpTo(received', lastItem) = received'
    <3>1. \A m \in received' : m <= lastItem
      BY <1>2, <2>2
    <3>2. QED
      BY <3>1, Zenon DEF UpTo
  <2>5. lastItem' \in received' => Decides(UpTo(received, lastItem), resume)'
    BY <1>1, <2>3, <2>4 DEF Decides, Deciding, UpTo
  <2>6. QED
    BY <1>1, <1>3, <2>1, <2>3, <2>5 DEF FrameInv
<1>6. QED
  BY <1>4, <1>5

\* A frame: it may decide the id in effect, and if it is an item, the id to
\* resume after; one that is no item is behind the last item or before it.
LEMMA EventToItemInv ==
  ASSUME FrameInv, EventToItem
  PROVE  FrameInv'
<1>1. PICK n, id : n = pos + 1 /\ id = IdAfter(log[n], n)
  OBVIOUS
<1>2. /\ stream = "open" /\ pos < Len(log) /\ pos' = n /\ last' = id
      /\ received' = received \cup {n} /\ UNCHANGED <<log, stream>>
      /\ \/ log[n].data = "ok" /\ resume' = id /\ lastItem' = n
         \/ log[n].data # "ok" /\ UNCHANGED <<resume, lastItem>>
      /\ FrameTypeOK
  BY <1>1 DEF EventToItem, FrameInv
<1>3. /\ n \in 1 .. Len(log) /\ \A m \in received : m \in Nat /\ m < n
      /\ Len(log) \in Nat /\ lastItem \in 0 .. Len(log) /\ resume \in 0 .. lastItem
      /\ \A m \in received' : m \in 1 .. n
  BY <1>1, <1>2 DEF FrameTypeOK
<1>4. Decides(received', id)
  BY <1>1, <1>2, DecidesNext DEF FrameInv, FrameTypeOK
<1>5. id = 0 \/ (id \in received' /\ log[id].id = "own")
  BY <1>4 DEF Decides
<1>6. id \in 0 .. n
  BY <1>3, <1>5
<1>7. FrameTypeOK'
  BY <1>2, <1>3, <1>6 DEF FrameTypeOK
<1>8. Decides(received, last)'
  BY <1>2, <1>4 DEF Decides, Deciding
<1>9. CASE log[n].data = "ok" /\ resume' = id /\ lastItem' = n
  <2>1. UpTo(received', n) = received'
    BY <1>3 DEF UpTo
  <2>2. Decides(UpTo(received, lastItem), resume)'
    BY <1>2, <1>4, <1>9, <2>1 DEF Decides, Deciding, UpTo
  <2>3. QED
    BY <1>2, <1>5, <1>7, <1>8, <1>9, <2>2 DEF FrameInv
<1>10. CASE log[n].data # "ok" /\ UNCHANGED <<resume, lastItem>>
  <2>1. n # lastItem
    BY <1>3, <1>10 DEF FrameInv
  <2>2. lastItem \in received' => lastItem \in received /\ lastItem < n
    BY <1>2, <1>3, <2>1
  <2>3. lastItem \in received' => UpTo(received', lastItem) = UpTo(received, lastItem)
    BY <1>2, <1>3, <2>2 DEF UpTo
  <2>4. lastItem' \in received' => Decides(UpTo(received, lastItem), resume)'
    BY <1>2, <1>10, <2>2, <2>3 DEF Decides, Deciding, UpTo, FrameInv
  <2>5. resume # 0 => resume \in received' /\ log[resume].id = "own"
    BY <1>2 DEF FrameInv
  <2>6. QED
    BY <1>2, <1>7, <1>8, <1>10, <2>4, <2>5 DEF FrameInv
<1>11. QED
  BY <1>2, <1>9, <1>10

LEMMA FrameNextInv == FrameInv /\ [FrameNext]_frameVars => FrameInv'
<1> SUFFICES ASSUME FrameInv, [FrameNext]_frameVars PROVE FrameInv'
  OBVIOUS
<1>1. ASSUME UNCHANGED <<log, pos, last, resume, lastItem, received>>,
             stream' \in {"open", "closed", "fatal"}, stream' = stream \/ stream # "closed" \/ stream' = "closed"
      PROVE  FrameInv'
  BY <1>1 DEF FrameInv, FrameTypeOK, Decides, Deciding, UpTo
<1>2. CASE StreamBreaks \/ SseIdleTimeout \/ StreamEnds
  BY <1>1, <1>2 DEF StreamBreaks, SseIdleTimeout, StreamEnds
<1>3. CASE UNCHANGED frameVars
  BY <1>1, <1>3 DEF frameVars, FrameInv, FrameTypeOK
<1>4. QED
  BY <1>2, <1>3, ProduceInv, SseEventsInv, EventToItemInv DEF FrameNext

\* The invariant of the frames holds of every stream of events.
THEOREM FrameInvariance == FrameSpec => []FrameInv
<1>1. FrameInit => FrameInv
  BY DEF FrameInit, FrameInv, FrameTypeOK
<1>2. QED
  BY <1>1, FrameNextInv, PTL DEF FrameSpec

\* The id to resume after is the one that the frames up to the last item left
\* in effect, over any number of broken and reopened streams (event_to_item,
\* sse_events).
THEOREM ResumeCorrect == FrameSpec => []ResumesAfterLastItem
<1>1. FrameInv => ResumesAfterLastItem
  <2> DEFINE deciding == {n \in received : n <= lastItem /\ log[n].id \in {"own", "empty"}}
             latest == CHOOSE n \in deciding : \A m \in deciding : m <= n
  <2> SUFFICES ASSUME FrameInv, stream # "closed", lastItem \in received
               PROVE  resume = IF deciding = {} \/ log[latest].id = "empty" THEN 0 ELSE latest
    BY Zenon DEF ResumesAfterLastItem
  <2>1. deciding = Deciding(UpTo(received, lastItem))
    BY DEF Deciding, UpTo
  <2>2. Decides(UpTo(received, lastItem), resume)
    BY DEF FrameInv
  <2>3. \A n \in deciding : n \in Nat /\ n # 0 /\ log[n].id \in {"own", "empty"}
    BY DEF FrameInv, FrameTypeOK
  <2>4. CASE resume # 0
    <3>1. resume \in deciding /\ log[resume].id = "own" /\ \A m \in deciding : m <= resume
      BY <2>1, <2>2, <2>4 DEF Decides, Deciding
    <3>2. latest \in deciding /\ \A m \in deciding : m <= latest
      BY <3>1
    <3> HIDE DEF latest
    <3>3. latest = resume
      BY <2>3, <3>1, <3>2
    <3>4. QED
      BY <3>1, <3>3
  <2>5. CASE resume = 0
    <3> SUFFICES ASSUME deciding # {} PROVE log[latest].id = "empty"
      BY <2>5
    <3>1. \A n \in deciding : log[n].id = "own" => \E m \in deciding : n < m
      BY <2>1, <2>2, <2>5 DEF Decides
    <3>2. PICK n \in deciding : \A m \in deciding : m <= n
      <4>1. (\A m \in deciding : m \in 0 .. lastItem) /\ lastItem \in Nat
        BY <2>3 DEF FrameInv, FrameTypeOK
      <4> HIDE DEF deciding
      <4>2. PICK n \in deciding : \A m \in deciding : m <= n
        BY <4>1, GreatestOfNaturals
      <4>3. QED
        BY <4>2
    <3>3. latest \in deciding /\ \A m \in deciding : m <= latest
      BY <3>2
    <3> HIDE DEF latest
    <3>4. QED
      BY <2>3, <3>1, <3>3
  <2>6. QED
    BY <2>4, <2>5
<1>2. QED
  BY <1>1, FrameInvariance, PTL
-----------------------------------------------------------------------------
(***************************************************************************)
(* EventStream, the bytes: the size of a record.                           *)
(***************************************************************************)
ByteSpec == ByteInit /\ [][ByteNext]_byteVars

\* t is s and one more byte b, the one after n bytes.
Longer(t, s, b, n) ==
  /\ n \in Nat /\ Len(s) = n /\ Len(t) = n + 1
  /\ DOMAIN s = 1 .. n /\ DOMAIN t = 1 .. n + 1
  /\ t[n + 1] = b /\ b \in Bytes
  /\ \A i \in 1 .. n : t[i] = s[i] /\ s[i] \in Bytes

LEMMA OneMore ==
  ASSUME NEW s \in Seq(Bytes), NEW b \in Bytes, NEW t, t = Append(s, b)
  PROVE  Longer(t, s, b, Len(s))
  BY DEF Longer

\* It only decides whether a CR before it was a terminator of its own.
LEMMA LineEndsKept ==
  ASSUME NEW s, NEW b, NEW t, NEW n, Longer(t, s, b, n), NEW i \in 1 .. n
  PROVE  /\ i < n => (i \in LineEnds(t) <=> i \in LineEnds(s))
         /\ i = n => (i \in LineEnds(t) <=> s[i] = "lf" \/ (s[i] = "cr" /\ b # "lf"))
         /\ i = n => (i \in LineEnds(s) <=> s[i] = "lf" \/ s[i] = "cr")
         /\ StartOfTerminator(t, i) = StartOfTerminator(s, i)
<1>1. /\ i \in DOMAIN t /\ i \in DOMAIN s /\ Len(t) # i /\ (Len(s) = i <=> i = n)
      /\ t[i] = s[i] /\ i \in Nat /\ n \in Nat /\ t[n + 1] = b
  BY DEF Longer
<1>2. i \in LineEnds(t) <=> t[i] = "lf" \/ (t[i] = "cr" /\ t[i + 1] # "lf")
  BY <1>1 DEF LineEnds
<1>3. i \in LineEnds(s) <=> s[i] = "lf" \/ (s[i] = "cr" /\ (i = n \/ s[i + 1] # "lf"))
  BY <1>1 DEF LineEnds
<1>4. i < n => t[i + 1] = s[i + 1]
  BY <1>1 DEF Longer
<1>5. i > 1 => t[i - 1] = s[i - 1]
  BY <1>1 DEF Longer
<1>6. StartOfTerminator(t, i) = StartOfTerminator(s, i)
  BY <1>1, <1>5 DEF StartOfTerminator
<1>7. i < n => i # n
  BY <1>1
<1>8. QED
  BY <1>1, <1>2, <1>3, <1>4, <1>6, <1>7

LEMMA StartsBefore ==
  ASSUME NEW s, NEW i \in Nat, i # 0
  PROVE  StartOfTerminator(s, i) \in 1 .. i
  BY DEF StartOfTerminator

\* So of the records that had ended only one that ended with a CR goes on.
LEMMA RecordEndsKept ==
  ASSUME NEW s, NEW b, NEW t, NEW n, Longer(t, s, b, n), NEW e \in 1 .. n
  PROVE  e \in RecordEnds(t) <=>
           e \in RecordEnds(s) /\ ~(e = n /\ s[e] = "cr" /\ b = "lf")
<1>1. PICK a : a = StartOfTerminator(s, e)
  OBVIOUS
<1>2. n \in Nat /\ e \in Nat /\ e # 0 /\ e <= n /\ s[e] \in Bytes
  BY DEF Longer
<1>3. a \in 1 .. e /\ a = StartOfTerminator(t, e)
  BY <1>1, <1>2, StartsBefore, LineEndsKept
<1>4. e \in LineEnds(t) <=> e \in LineEnds(s) /\ ~(e = n /\ s[e] = "cr" /\ b = "lf")
  <2>1. CASE e < n
    BY <1>2, <2>1, LineEndsKept
  <2>2. CASE e = n
    <3>1. /\ e \in LineEnds(t) <=> s[e] = "lf" \/ (s[e] = "cr" /\ b # "lf")
          /\ e \in LineEnds(s) <=> s[e] = "lf" \/ s[e] = "cr"
      BY <2>2, LineEndsKept
    <3>2. QED
      BY <2>2, <3>1
  <2>3. QED
    BY <1>2, <2>1, <2>2
<1>5. a = 1 \/ (a - 1 \in 1 .. n /\ a - 1 < n)
  BY <1>2, <1>3
<1>6. a = 1 \/ (a - 1 \in LineEnds(t) <=> a - 1 \in LineEnds(s))
  <2>1. PICK k : k = a - 1
    OBVIOUS
  <2>2. a = 1 \/ (k \in LineEnds(t) <=> k \in LineEnds(s))
    BY <1>5, <2>1, LineEndsKept
  <2>3. QED
    BY <2>1, <2>2
<1>7. QED
  BY <1>1, <1>3, <1>4, <1>6 DEF RecordEnds

\* When the new byte ends a record.
LEMMA RecordEndsHere ==
  ASSUME NEW s, NEW b, NEW t, NEW n, Longer(t, s, b, n)
  PROVE  n + 1 \in RecordEnds(t) <=>
           \/ b = "cr" /\ (n = 0 \/ s[n] # "x")
           \/ b = "lf" /\ n # 0 /\ s[n] = "cr" /\ n \in RecordEnds(s)
           \/ b = "lf" /\ (n = 0 \/ s[n] = "lf")
<1>1. /\ Len(t) = n + 1 /\ n \in Nat /\ DOMAIN t = 1 .. n + 1 /\ t[n + 1] = b
      /\ \A j \in 1 .. n : t[j] = s[j]
  BY DEF Longer
<1>2. n + 1 \in LineEnds(t) <=> b \in {"cr", "lf"}
  BY <1>1 DEF LineEnds
<1>3. n # 0 => n \in 1 .. n /\ s[n] \in Bytes /\ t[n] = s[n]
  BY <1>1 DEF Longer
<1>4. CASE b = "lf" /\ n # 0 /\ s[n] = "cr"
  <2>1. StartOfTerminator(t, n + 1) = n
    BY <1>1, <1>3, <1>4 DEF StartOfTerminator
  <2>2. n + 1 \in RecordEnds(t) <=> n = 1 \/ n - 1 \in LineEnds(t)
    BY <1>2, <1>4, <2>1 DEF RecordEnds
  <2>3. StartOfTerminator(s, n) = n /\ n \in LineEnds(s)
    BY <1>1, <1>3, <1>4, LineEndsKept DEF StartOfTerminator
  <2>4. n \in RecordEnds(s) <=> n = 1 \/ n - 1 \in LineEnds(s)
    BY <2>3 DEF RecordEnds
  <2>5. n = 1 \/ (n - 1 \in 1 .. n /\ n - 1 < n)
    BY <1>1, <1>4
  <2>6. n = 1 \/ (n - 1 \in LineEnds(t) <=> n - 1 \in LineEnds(s))
    <3>1. PICK k : k = n - 1
      OBVIOUS
    <3>2. n = 1 \/ (k \in LineEnds(t) <=> k \in LineEnds(s))
      BY <2>5, <3>1, LineEndsKept
    <3>3. QED
      BY <3>1, <3>2
  <2>7. QED
    BY <1>4, <2>2, <2>4, <2>6
<1>5. CASE ~(b = "lf" /\ n # 0 /\ s[n] = "cr")
  <2>1. StartOfTerminator(t, n + 1) = n + 1
    BY <1>1, <1>3, <1>5 DEF StartOfTerminator
  <2>2. n + 1 \in RecordEnds(t) <=> b \in {"cr", "lf"} /\ (n = 0 \/ n \in LineEnds(t))
    <3>1. PICK m : m = n + 1
      OBVIOUS
    <3>2. m - 1 = n /\ (m = 1 <=> n = 0)
      BY <1>1, <3>1
    <3>3. m \in RecordEnds(t) <=> m \in LineEnds(t) /\ (m = 1 \/ m - 1 \in LineEnds(t))
      BY <2>1, <3>1 DEF RecordEnds
    <3>4. QED
      BY <1>2, <3>1, <3>2, <3>3
  <2>3. n # 0 => (n \in LineEnds(t) <=> s[n] = "lf" \/ (s[n] = "cr" /\ b # "lf"))
    BY <1>3, LineEndsKept
  <2>4. QED
    BY <1>3, <1>5, <2>2, <2>3 DEF Bytes
<1>6. QED
  BY <1>4, <1>5

\* The size of the record that the last byte belongs to.
LEMMA SizeFrom ==
  ASSUME NEW t \in Seq(Bytes), NEW m \in Nat, Len(t) = m, m # 0, NEW B \in 0 .. m - 1,
         B = 0 \/ B \in RecordEnds(t), \A e \in RecordEnds(t) : e < m => e <= B
  PROVE  RecordSize(t, m) = m - B
<1>1. SubSeq(t, 1, m) = t
  OBVIOUS
<1>2. \A e \in RecordEnds(t) : e \in Nat
  BY DEF RecordEnds, LineEnds
<1>3. {j \in 1 .. m : \A e \in RecordEnds(t) : e < m => j > e} = B + 1 .. m
  BY <1>2
<1>4. Cardinality(B + 1 .. m) = m - B
  BY FS_Interval
<1>5. QED
  BY <1>1, <1>3, <1>4 DEF RecordSize

LEMMA SizeKept ==
  ASSUME NEW s \in Seq(Bytes), NEW b \in Bytes, NEW t, t = Append(s, b),
         NEW i \in 1 .. Len(s)
  PROVE  RecordSize(t, i) = RecordSize(s, i)
<1>1. SubSeq(t, 1, i) = SubSeq(s, 1, i)
  OBVIOUS
<1>2. QED
  BY <1>1 DEF RecordSize

\* What the state of the adapter knows of the bytes s: how the last one ended,
\* and where, at B, the record began that they are counted from.  A record
\* that ended with a CR is still counted, as an LF may follow.
DelimiterOf(s, d) ==
  /\ d \in {"LineStart", "BoundaryCr", "Cr", "Data"}
  /\ d = "LineStart" <=> Len(s) = 0 \/ s[Len(s)] = "lf"
  /\ d = "Data" <=> Len(s) # 0 /\ s[Len(s)] = "x"
  /\ d = "BoundaryCr" <=> Len(s) # 0 /\ s[Len(s)] = "cr" /\ Len(s) \in RecordEnds(s)

CountedFrom(s, d, B) ==
  /\ B = 0 \/ B \in RecordEnds(s)
  /\ \A e \in RecordEnds(s) : e <= B \/ (d = "BoundaryCr" /\ e = Len(s))
  /\ d = "BoundaryCr" => B < Len(s)

ByteInv ==
  /\ raw \in Seq(Bytes) /\ CapExact
  /\ ~tooLarge => /\ DelimiterOf(raw, delim)
                  /\ \E B \in 0 .. Len(raw) : count = Len(raw) - B /\ CountedFrom(raw, delim, B)

\* Whether the new byte ends a record, as the adapter tells from its state.
LEMMA EndsSeen ==
  ASSUME NEW s, NEW b, NEW t, NEW n, Longer(t, s, b, n), NEW d, DelimiterOf(s, d)
  PROVE  n + 1 \in RecordEnds(t) <=>
           \/ b = "cr" /\ d # "Data"
           \/ b = "lf" /\ d \in {"BoundaryCr", "LineStart"}
<1>1. Len(s) = n
  BY DEF Longer
<1>2. /\ d \in {"LineStart", "BoundaryCr", "Cr", "Data"}
      /\ d = "LineStart" <=> n = 0 \/ s[n] = "lf"
      /\ d = "Data" <=> n # 0 /\ s[n] = "x"
      /\ d = "BoundaryCr" <=> n # 0 /\ s[n] = "cr" /\ n \in RecordEnds(s)
  BY <1>1 DEF DelimiterOf
<1>3. n + 1 \in RecordEnds(t) <=>
           \/ b = "cr" /\ (n = 0 \/ s[n] # "x")
           \/ b = "lf" /\ n # 0 /\ s[n] = "cr" /\ n \in RecordEnds(s)
           \/ b = "lf" /\ (n = 0 \/ s[n] = "lf")
  BY RecordEndsHere
<1>4. QED
  BY <1>2, <1>3

\* The bytes before the new one, in its record, are the ones that CountAt
\* counts: a record that a CR ended is over unless the new byte is an LF.
LEMMA CountedBefore ==
  ASSUME NEW s, NEW b, NEW t, NEW n, Longer(t, s, b, n), NEW d, DelimiterOf(s, d),
         NEW B \in 0 .. n, CountedFrom(s, d, B),
         NEW C, C = IF d = "BoundaryCr" /\ b # "lf" THEN n ELSE B
  PROVE  /\ C \in 0 .. n
         /\ C = 0 \/ C \in RecordEnds(t)
         /\ \A e \in RecordEnds(t) : e < n + 1 => e <= C
<1>1. n \in Nat /\ Len(s) = n /\ B \in Nat /\ B <= n
  BY DEF Longer
<1>2. d = "BoundaryCr" => n # 0 /\ s[n] = "cr" /\ n \in RecordEnds(s) /\ B < n
  BY <1>1 DEF DelimiterOf, CountedFrom
<1>3. C \in 0 .. n
  BY <1>1
<1>4. ASSUME NEW e \in RecordEnds(t), e < n + 1 PROVE e \in 1 .. n
  BY <1>1, <1>4 DEF RecordEnds, LineEnds, Longer
<1>5. CASE d = "BoundaryCr" /\ b # "lf"
  <2>1. n \in 1 .. n /\ C = n
    BY <1>1, <1>2, <1>5
  <2>2. n \in RecordEnds(t)
    BY <1>2, <1>5, <2>1, RecordEndsKept
  <2>3. QED
    BY <1>3, <1>4, <2>1, <2>2
<1>6. CASE ~(d = "BoundaryCr" /\ b # "lf")
  <2>1. C = B
    BY <1>6
  <2>2. ASSUME B # 0 PROVE B \in RecordEnds(t)
    <3>1. B \in RecordEnds(s) /\ B \in 1 .. n
      BY <1>1, <2>2 DEF CountedFrom
    <3>2. ~(B = n /\ s[B] = "cr" /\ b = "lf")
      <4> SUFFICES ASSUME B = n, s[n] = "cr" PROVE FALSE
        OBVIOUS
      <4>1. d = "BoundaryCr"
        BY <1>1, <2>2, <3>1 DEF DelimiterOf
      <4>2. QED
        BY <1>1, <1>2, <4>1
    <3>3. QED
      BY <3>1, <3>2, RecordEndsKept
  <2>3. ASSUME NEW e \in RecordEnds(t), e < n + 1 PROVE e <= B
    <3>1. e \in 1 .. n
      BY <1>4, <2>3
    <3>2. e \in RecordEnds(s) /\ ~(e = n /\ s[e] = "cr" /\ b = "lf")
      BY <2>3, <3>1, RecordEndsKept
    <3>3. e <= B \/ (d = "BoundaryCr" /\ e = n)
      BY <1>1, <3>2 DEF CountedFrom
    <3>4. ~(d = "BoundaryCr" /\ e = n)
      BY <1>2, <1>6, <3>2
    <3>5. QED
      BY <3>3, <3>4
  <2>4. QED
    BY <1>3, <2>1, <2>2, <2>3
<1>7. QED
  BY <1>5, <1>6

LEMMA CapEventBytesInv ==
  ASSUME ByteInv, NEW b \in Bytes, CapEventBytes(b)
  PROVE  ByteInv'
<1>1. PICK s, n, t, d : s = raw /\ n = Len(raw) /\ t = raw' /\ d = delim
  OBVIOUS
<1>2. /\ s \in Seq(Bytes) /\ t = Append(s, b) /\ ~tooLarge /\ DelimiterOf(s, d)
      /\ \A i \in 1 .. n : ~(RecordSize(s, i) > Limit)
  BY <1>1 DEF ByteInv, CapEventBytes, CapExact
<1>3. Longer(t, s, b, n) /\ t \in Seq(Bytes) /\ n \in Nat /\ Len(t) = n + 1
      /\ DOMAIN t = 1 .. n + 1
  BY <1>1, <1>2, OneMore DEF Longer
<1>4. PICK B \in 0 .. n : count = n - B /\ CountedFrom(s, d, B)
  BY <1>1, <1>2 DEF ByteInv
<1>5. PICK C : C = IF d = "BoundaryCr" /\ b # "lf" THEN n ELSE B
  OBVIOUS
<1>6. /\ C \in 0 .. n
      /\ C = 0 \/ C \in RecordEnds(t)
      /\ \A e \in RecordEnds(t) : e < n + 1 => e <= C
  BY <1>2, <1>3, <1>4, <1>5, CountedBefore
<1>7. CountAt(b) = n - C /\ CountAt(b) \in Nat
  BY <1>1, <1>3, <1>4, <1>5, <1>6 DEF CountAt, AtBoundary
<1>8. RecordSize(t, n + 1) = CountAt(b) + 1
  <2>1. PICK m : m = n + 1
    OBVIOUS
  <2>2. RecordSize(t, m) = m - C
    BY <1>3, <1>6, <2>1, SizeFrom
  <2>3. QED
    BY <1>3, <1>6, <1>7, <2>1, <2>2
<1>9. \A i \in 1 .. n : RecordSize(t, i) = RecordSize(s, i)
  BY <1>1, <1>2, SizeKept
<1>10. (\E i \in DOMAIN t : RecordSize(t, i) > Limit) <=> CountAt(b) >= Limit
  <2>1. \A i \in 1 .. n : ~(RecordSize(t, i) > Limit)
    BY <1>2, <1>9
  <2>2. RecordSize(t, n + 1) > Limit <=> CountAt(b) >= Limit
    BY <1>7, <1>8, EventStreamAssumption
  <2>3. \A i \in DOMAIN t : i \in 1 .. n \/ i = n + 1
    BY <1>3
  <2>4. n + 1 \in DOMAIN t
    BY <1>3
  <2>5. QED
    BY <2>1, <2>2, <2>3, <2>4
<1>11. CapExact'
  BY <1>1, <1>2, <1>10 DEF CapExact, CapEventBytes
<1>12. CASE CountAt(b) >= Limit
  BY <1>1, <1>3, <1>11, <1>12 DEF ByteInv, CapEventBytes
<1>13. CASE ~(CountAt(b) >= Limit)
  <2>1. PICK D, E : D = StateAt(b) /\ E = delim'
    OBVIOUS
  <2>2. /\ count' = (IF EndsRecord(D, b) THEN 0 ELSE CountAt(b) + 1)
        /\ E = NextDelimiter(D, b) /\ ~tooLarge'
    BY <1>2, <1>13, <2>1 DEF CapEventBytes
  <2>3. D = IF d = "BoundaryCr" /\ b # "lf" THEN "LineStart" ELSE d
    BY <1>1, <2>1 DEF StateAt, AtBoundary
  <2>4. /\ d \in {"LineStart", "BoundaryCr", "Cr", "Data"}
        /\ n + 1 \in RecordEnds(t) <=>
             \/ b = "cr" /\ d # "Data"
             \/ b = "lf" /\ d \in {"BoundaryCr", "LineStart"}
    BY <1>2, <1>3, EndsSeen DEF DelimiterOf
  <2>5. b = "cr" => E = IF d = "Data" THEN "Cr" ELSE "BoundaryCr"
    BY <2>2, <2>3, <2>4 DEF NextDelimiter
  <2>6. b = "lf" => E = "LineStart"
    BY <2>2, <2>3, <2>4 DEF NextDelimiter
  <2>7. b = "x" => E = "Data"
    BY <2>2, <2>3, <2>4 DEF NextDelimiter
  <2>8. t[n + 1] = b /\ Len(t) = n + 1 /\ n + 1 # 0
    BY <1>3 DEF Longer
  <2>9. DelimiterOf(t, E)
    <3>1. CASE b = "cr"
      BY <2>4, <2>5, <2>8, <3>1 DEF DelimiterOf
    <3>2. CASE b = "lf"
      BY <2>6, <2>8, <3>2 DEF DelimiterOf
    <3>3. CASE b = "x"
      BY <2>7, <2>8, <3>3 DEF DelimiterOf
    <3>4. QED
      BY <3>1, <3>2, <3>3 DEF Bytes
  <2>10. EndsRecord(D, b) <=> b = "lf" /\ n + 1 \in RecordEnds(t)
    BY <2>3, <2>4 DEF EndsRecord
  <2>11. ASSUME NEW e \in RecordEnds(t) PROVE e <= n + 1 /\ (e = n + 1 \/ e <= C)
    <3>1. e \in 1 .. n + 1
      BY <1>3, <2>11 DEF RecordEnds, LineEnds
    <3>2. QED
      BY <1>3, <1>6, <2>11, <3>1
  <2>12. \E A \in 0 .. n + 1 : count' = n + 1 - A /\ CountedFrom(t, E, A)
    <3>1. CASE EndsRecord(D, b)
      <4>1. PICK A : A = n + 1
        OBVIOUS
      <4>2. count' = n + 1 - A /\ A \in 0 .. n + 1
        BY <1>3, <2>2, <3>1, <4>1
      <4>3. A \in RecordEnds(t) /\ E = "LineStart" /\ \A e \in RecordEnds(t) : e <= A
        BY <2>6, <2>10, <2>11, <3>1, <4>1
      <4>4. CountedFrom(t, E, A)
        BY <4>3 DEF CountedFrom
      <4>5. QED
        BY <4>2, <4>4
    <3>2. CASE ~EndsRecord(D, b)
      <4>1. count' = n + 1 - C /\ C \in 0 .. n + 1 /\ C < n + 1
        BY <1>3, <1>6, <1>7, <2>2, <3>2
      <4>2. n + 1 \in RecordEnds(t) => E = "BoundaryCr"
        BY <2>4, <2>5, <2>10, <3>2
      <4>3. CountedFrom(t, E, C)
        BY <1>6, <2>8, <2>11, <4>1, <4>2 DEF CountedFrom
      <4>4. QED
        BY <4>1, <4>3
    <3>3. QED
      BY <3>1, <3>2
  <2>13. QED
    BY <1>1, <1>3, <1>11, <2>1, <2>9, <2>12 DEF ByteInv
<1>14. QED
  BY <1>12, <1>13

\* The adapter fails at the first byte that makes a record larger than the
\* limit, however the lines end, and never before, for every limit
\* (cap_event_bytes, DelimiterState).
THEOREM CapCorrect == ByteSpec => []CapExact
<1>1. ByteInit => ByteInv
  <2> SUFFICES ASSUME ByteInit PROVE ByteInv
    OBVIOUS
  <2>1. raw = <<>> /\ count = 0 /\ delim = "LineStart" /\ tooLarge = FALSE
    BY DEF ByteInit
  <2>2. raw \in Seq(Bytes) /\ Len(raw) = 0 /\ DOMAIN raw = {}
    BY <2>1
  <2>3. RecordEnds(raw) = {}
    BY <2>2 DEF RecordEnds, LineEnds
  <2>4. DelimiterOf(raw, delim) /\ CountedFrom(raw, delim, 0)
    BY <2>1, <2>2, <2>3 DEF DelimiterOf, CountedFrom
  <2>5. CapExact
    BY <2>1, <2>2 DEF CapExact
  <2>6. QED
    BY <2>1, <2>2, <2>4, <2>5 DEF ByteInv
<1>2. ByteInv /\ [ByteNext]_byteVars => ByteInv'
  <2>1. ASSUME ByteInv, UNCHANGED byteVars PROVE ByteInv'
    BY <2>1 DEF byteVars, ByteInv, CapExact
  <2>2. QED
    BY <2>1, CapEventBytesInv DEF ByteNext
<1>3. ByteInv => CapExact
  BY DEF ByteInv
<1>4. QED
  BY <1>1, <1>2, <1>3, PTL DEF ByteSpec
=============================================================================
