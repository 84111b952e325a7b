--------------------------- MODULE SequenceFacts ---------------------------
(***************************************************************************)
(* Facts about the operators of the sequence library that the models use   *)
(* to remove an element: RemoveAt and RemoveFirst.                         *)
(***************************************************************************)
EXTENDS Integers, SequencesExt, SequenceTheorems, WellFoundedInduction, TLAPS

\* A non-empty set of naturals contains its Min, the least of them: what the
\* position searches of the sequence library rest on.
LEMMA MinOfNaturals ==
  ASSUME NEW S \in SUBSET Nat, S # {}
  PROVE  Min(S) \in S /\ \A y \in S : Min(S) <= y
<1> DEFINE R == {ss \in Nat \X Nat : ss[1] < ss[2]}
<1>1. IsWellFoundedOn(R, Nat)
  BY NatLessThanWellFounded DEF OpToRel
<1>2. PICK x \in S : \A y \in S : <<y, x>> \notin R
  BY <1>1, WFMin
<1>3. ASSUME NEW y \in S PROVE x <= y
  <2>1. x \in Nat /\ y \in Nat
    OBVIOUS
  <2>2. <<y, x>> \notin R
    BY <1>2
  <2>3. QED
    BY <2>1, <2>2
<1>4. QED
  BY <1>3 DEF Min

\* A non-empty set of naturals up to k has a greatest element.
LEMMA GreatestOfNaturals ==
  ASSUME NEW k \in Nat, NEW S, \A x \in S : x \in 0 .. k, S # {}
  PROVE  \E x \in S : \A y \in S : y <= x
<1> DEFINE T == {k - x : x \in S}
<1>1. T \in SUBSET Nat /\ T # {}
  <2>1. \A x \in S : k - x \in Nat
    OBVIOUS
  <2>2. QED
    BY <2>1
<1>2. Min(T) \in T /\ \A y \in T : Min(T) <= y
  BY <1>1, MinOfNaturals
<1>3. PICK x \in S : Min(T) = k - x
  BY <1>2
<1>4. \A y \in S : k - x <= k - y
  BY <1>2, <1>3
<1>5. QED
  BY <1>4

\* Removing position k shortens the sequence by one and moves up what is
\* behind it.
LEMMA RemoveAtProperties ==
  ASSUME NEW S, NEW s \in Seq(S), NEW k \in 1 .. Len(s)
  PROVE  /\ RemoveAt(s, k) \in Seq(S)
         /\ Len(RemoveAt(s, k)) = Len(s) - 1
         /\ \A i \in 1 .. Len(s) - 1 :
              RemoveAt(s, k)[i] = IF i < k THEN s[i] ELSE s[i + 1]
<1> DEFINE front == SubSeq(s, 1, k - 1)
           rest  == SubSeq(s, k + 1, Len(s))
<1>1. /\ front \in Seq(S) /\ Len(front) = k - 1
      /\ \A i \in 1 .. k - 1 : front[i] = s[i]
  OBVIOUS
<1>2. /\ rest \in Seq(S) /\ Len(rest) = Len(s) - k
      /\ \A i \in 1 .. Len(s) - k : rest[i] = s[k + i]
  OBVIOUS
<1>3. RemoveAt(s, k) = front \o rest
  BY DEF RemoveAt
<1> HIDE DEF front, rest
<1>4. /\ front \o rest \in Seq(S)
      /\ Len(front \o rest) = Len(s) - 1
      /\ \A i \in 1 .. Len(s) - 1 :
           (front \o rest)[i] = IF i <= k - 1 THEN front[i] ELSE rest[i - (k - 1)]
  BY <1>1, <1>2, ConcatProperties
<1>5. ASSUME NEW i \in 1 .. Len(s) - 1
      PROVE  RemoveAt(s, k)[i] = IF i < k THEN s[i] ELSE s[i + 1]
  <2>1. CASE i < k
    BY <2>1, <1>1, <1>3, <1>4
  <2>2. CASE ~(i < k)
    <3>1. i - (k - 1) \in 1 .. Len(s) - k /\ k + (i - (k - 1)) = i + 1
      BY <2>2
    <3>2. QED
      BY <3>1, <2>2, <1>2, <1>3, <1>4
  <2>3. QED
    BY <2>1, <2>2
<1>6. QED
  BY <1>3, <1>4, <1>5

\* RemoveFirst removes one position that holds the element, if there is one.
LEMMA RemoveFirstPosition ==
  ASSUME NEW S, NEW s \in Seq(S), NEW e, Contains(s, e)
  PROVE  \E k \in 1 .. Len(s) : s[k] = e /\ RemoveFirst(s, e) = RemoveAt(s, k)
<1> DEFINE I == {i \in 1 .. Len(s) : s[i] = e}
           k == Min(I)
<1>1. I \in SUBSET Nat /\ I # {}
  BY DEF Contains
<1>2. k \in I
  BY <1>1, MinOfNaturals
<1>3. RemoveFirst(s, e) = RemoveAt(s, k)
  BY <1>1 DEF RemoveFirst, SelectInSeq, Contains
<1>4. k \in 1 .. Len(s) /\ s[k] = e
  BY <1>2
<1> HIDE DEF k
<1>5. QED
  BY <1>3, <1>4

\* Whether or not the element occurred, a sequence over S remains.
LEMMA RemoveFirstType ==
  ASSUME NEW S, NEW s \in Seq(S), NEW e
  PROVE  RemoveFirst(s, e) \in Seq(S)
<1>1. CASE Contains(s, e)
  <2>1. PICK k \in 1 .. Len(s) : RemoveFirst(s, e) = RemoveAt(s, k)
    BY <1>1, RemoveFirstPosition
  <2>2. QED
    BY <2>1, RemoveAtProperties
<1>2. CASE ~Contains(s, e)
  BY <1>2 DEF RemoveFirst, Contains
<1>3. QED
  BY <1>1, <1>2
=============================================================================
