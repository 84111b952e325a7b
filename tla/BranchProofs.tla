---------------------------- MODULE BranchProofs ----------------------------
(***************************************************************************)
(* Proofs about the two rotations of the dispatcher: the stochastic fair   *)
(* queue, for every number of buckets and every set of entries, and the    *)
(* round-robin branch, for every set of children and items.                *)
(***************************************************************************)
EXTENDS RoundRobin, StochasticFairQueue, FiniteSetTheorems, SequenceFacts, TLAPS

-----------------------------------------------------------------------------
(***************************************************************************)
(* Sequences without duplicates.                                           *)
(***************************************************************************)

\* x stands before y in s.
Before(s, x, y) == \E i, j \in DOMAIN s : s[i] = x /\ s[j] = y /\ i < j

\* What appending a new element does to the order of the elements.
LEMMA AppendOrder ==
  ASSUME NEW S, NEW s \in Seq(S), NEW e \in S, IsInjective(s), e \notin ToSet(s)
  PROVE  /\ Append(s, e) \in Seq(S) /\ IsInjective(Append(s, e))
         /\ ToSet(Append(s, e)) = ToSet(s) \cup {e}
         /\ \A x, y : Before(Append(s, e), x, y) => Before(s, x, y) \/ y = e
<1>1. PICK t : t = Append(s, e)
  OBVIOUS
<1>2. /\ t \in Seq(S) /\ Len(t) = Len(s) + 1 /\ t[Len(s) + 1] = e
      /\ \A i \in 1 .. Len(s) : t[i] = s[i]
  BY <1>1
<1>3. DOMAIN t = 1 .. Len(s) + 1 /\ DOMAIN s = 1 .. Len(s) /\ Len(s) \in Nat
  BY <1>2
<1>4. \A i \in DOMAIN t : i = Len(s) + 1 \/ i \in DOMAIN s
  BY <1>3
<1>5. \A i \in DOMAIN s : i \in DOMAIN t /\ t[i] = s[i] /\ s[i] # e
  BY <1>2, <1>3 DEF ToSet
<1>6. IsInjective(t)
  BY <1>2, <1>3, <1>4, <1>5 DEF IsInjective
<1>7. ToSet(t) = ToSet(s) \cup {e}
  <2>1. Len(s) + 1 \in DOMAIN t
    BY <1>3
  <2>2. QED
    BY <2>1, <1>2, <1>4, <1>5 DEF ToSet
<1>8. ASSUME NEW x, NEW y, Before(t, x, y) PROVE Before(s, x, y) \/ y = e
  <2>1. PICK i \in DOMAIN t, j \in DOMAIN t : t[i] = x /\ t[j] = y /\ i < j
    BY <1>8 DEF Before
  <2>2. j # Len(s) + 1 => i \in DOMAIN s /\ j \in DOMAIN s
    BY <1>3, <2>1
  <2>3. QED
    BY <2>1, <2>2, <1>2, <1>5 DEF Before
<1>9. QED
  BY <1>1, <1>2, <1>6, <1>7, <1>8

\* What removing one position does to the order of the elements.
LEMMA RemoveAtOrder ==
  ASSUME NEW S, NEW s \in Seq(S), NEW k \in 1 .. Len(s), IsInjective(s),
         NEW t, t \in Seq(S), Len(t) = Len(s) - 1,
         \A i \in 1 .. Len(s) - 1 : t[i] = IF i < k THEN s[i] ELSE s[i + 1]
  PROVE  /\ IsInjective(t) /\ ToSet(t) = ToSet(s) \ {s[k]}
         /\ \A x, y : Before(t, x, y) => Before(s, x, y)
<1> DEFINE f(i) == IF i < k THEN i ELSE i + 1
<1>1. DOMAIN t = 1 .. Len(s) - 1 /\ DOMAIN s = 1 .. Len(s) /\ Len(s) \in Nat
  OBVIOUS
<1>2. \A i \in DOMAIN t : f(i) \in DOMAIN s /\ f(i) # k /\ t[i] = s[f(i)]
  BY <1>1
<1>3. \A i, j \in DOMAIN t : /\ f(i) = f(j) => i = j
                             /\ i < j => f(i) < f(j)
  BY <1>1
<1>4. \A m \in DOMAIN s : m # k => \E i \in DOMAIN t : m = f(i)
  <2> SUFFICES ASSUME NEW m \in DOMAIN s, m # k PROVE \E i \in DOMAIN t : m = f(i)
    OBVIOUS
  <2>1. CASE m < k
    BY <1>1, <2>1
  <2>2. CASE ~(m < k)
    <3>1. m - 1 \in DOMAIN t /\ m = f(m - 1)
      BY <1>1, <2>2
    <3>2. QED
      BY <3>1
  <2>3. QED
    BY <2>1, <2>2
<1> HIDE DEF f
<1>5. IsInjective(t)
  BY <1>2, <1>3 DEF IsInjective
<1>6. ToSet(t) = ToSet(s) \ {s[k]}
  <2>1. \A m \in DOMAIN s : s[m] = s[k] => m = k
    BY <1>1 DEF IsInjective
  <2>2. ASSUME NEW x \in ToSet(t) PROVE x \in ToSet(s) \ {s[k]}
    BY <1>2, <2>1, <2>2 DEF ToSet
  <2>3. ASSUME NEW x \in ToSet(s) \ {s[k]} PROVE x \in ToSet(t)
    <3>1. PICK m \in DOMAIN s : s[m] = x
      BY DEF ToSet
    <3>2. PICK i \in DOMAIN t : m = f(i)
      BY <1>4, <3>1
    <3>3. QED
      BY <1>2, <3>1, <3>2 DEF ToSet
  <2>4. QED
    BY <2>2, <2>3
<1>7. ASSUME NEW x, NEW y, Before(t, x, y) PROVE Before(s, x, y)
  BY <1>2, <1>3, <1>7 DEF Before
<1>8. QED
  BY <1>5, <1>6, <1>7

\* The first element leaves.
LEMMA TailOrder ==
  ASSUME NEW S, NEW s \in Seq(S), s # <<>>, IsInjective(s)
  PROVE  /\ Tail(s) \in Seq(S) /\ IsInjective(Tail(s))
         /\ ToSet(Tail(s)) = ToSet(s) \ {Head(s)}
         /\ \A x, y : Before(Tail(s), x, y) => Before(s, x, y)
<1>1. PICK t : t = Tail(s)
  OBVIOUS
<1>2. /\ t \in Seq(S) /\ Len(t) = Len(s) - 1 /\ 1 \in 1 .. Len(s) /\ Head(s) = s[1]
      /\ \A i \in 1 .. Len(s) - 1 : t[i] = s[i + 1]
  BY <1>1
<1>3. PICK k : k = 1
  OBVIOUS
<1>4. /\ k \in 1 .. Len(s)
      /\ \A i \in 1 .. Len(s) - 1 : t[i] = IF i < k THEN s[i] ELSE s[i + 1]
  BY <1>2, <1>3
<1>5. /\ IsInjective(t) /\ ToSet(t) = ToSet(s) \ {s[k]}
      /\ \A x, y : Before(t, x, y) => Before(s, x, y)
  BY <1>2, <1>4, RemoveAtOrder
<1>6. QED
  BY <1>1, <1>2, <1>3, <1>5

\* The last element leaves.
LEMMA FrontOrder ==
  ASSUME NEW S, NEW s \in Seq(S), s # <<>>, IsInjective(s)
  PROVE  /\ Front(s) \in Seq(S) /\ IsInjective(Front(s))
         /\ ToSet(Front(s)) = ToSet(s) \ {Last(s)}
<1>1. PICK t, k : t = Front(s) /\ k = Len(s)
  OBVIOUS
<1>2. /\ t \in Seq(S) /\ Len(t) = Len(s) - 1 /\ k \in 1 .. Len(s) /\ Last(s) = s[k]
      /\ \A i \in 1 .. Len(s) - 1 : t[i] = s[i]
  BY <1>1 DEF Front, Last
<1>3. \A i \in 1 .. Len(s) - 1 : t[i] = IF i < k THEN s[i] ELSE s[i + 1]
  BY <1>1, <1>2
<1>4. t \in Seq(S) /\ Len(t) = Len(s) - 1 /\ k \in 1 .. Len(s)
  BY <1>2
<1>5. /\ IsInjective(t) /\ ToSet(t) = ToSet(s) \ {s[k]}
      /\ \A x, y : Before(t, x, y) => Before(s, x, y)
  BY <1>3, <1>4, RemoveAtOrder
<1>6. QED
  BY <1>1, <1>2, <1>5

\* An element leaves.
LEMMA RemoveOrder ==
  ASSUME NEW S, NEW s \in Seq(S), NEW e \in ToSet(s), IsInjective(s)
  PROVE  /\ RemoveFirst(s, e) \in Seq(S) /\ IsInjective(RemoveFirst(s, e))
         /\ ToSet(RemoveFirst(s, e)) = ToSet(s) \ {e}
         /\ \A x, y : Before(RemoveFirst(s, e), x, y) => Before(s, x, y)
<1>1. Contains(s, e)
  BY DEF Contains, ToSet
<1>2. PICK k \in 1 .. Len(s) : s[k] = e /\ RemoveFirst(s, e) = RemoveAt(s, k)
  BY <1>1, RemoveFirstPosition
<1>3. QED
  BY SMTT(60), <1>2, RemoveAtProperties, RemoveAtOrder
-----------------------------------------------------------------------------
(***************************************************************************)
(* The stochastic fair queue.                                              *)
(***************************************************************************)

\* The inductive invariant: the types, the agreement of the indexes, and that
\* only a bucket in the rotation waits, behind none that was served meanwhile.
FairQueueInv ==
  /\ buckets \in [Buckets -> Seq(Entries)]
  /\ active \in Seq(Buckets)
  /\ DOMAIN membership \subseteq Entries
  /\ \A e \in DOMAIN membership : membership[e] \in Buckets
  /\ BucketsExact
  /\ \A o \in overtaken : o[1] \in ToSet(active) /\ ~Before(active, o[2], o[1])

LEMMA FairQueueInitInv == ASSUME FairQueueInit PROVE FairQueueInv
<1>1. /\ buckets = [b \in Buckets |-> <<>>] /\ active = <<>>
      /\ DOMAIN membership = {} /\ overtaken = {}
  BY DEF FairQueueInit
<1>2. IsInjective(<<>>) /\ ToSet(<<>>) = {}
  BY DEF IsInjective, ToSet
<1>3. \A b \in Buckets : buckets[b] = <<>>
  BY <1>1
<1>4. BucketsExact
  BY <1>1, <1>2, <1>3 DEF BucketsExact
<1>5. buckets \in [Buckets -> Seq(Entries)] /\ active \in Seq(Buckets)
  BY <1>1
<1>6. QED
  BY <1>1, <1>4, <1>5 DEF FairQueueInv

\* An empty sequence has no elements, another one has.
LEMMA Emptiness == ASSUME NEW S, NEW s \in Seq(S) PROVE s = <<>> <=> ToSet(s) = {}
<1>1. CASE s = <<>>
  BY <1>1 DEF ToSet
<1>2. CASE s # <<>>
  <2>1. 1 \in DOMAIN s
    BY <1>2
  <2>2. QED
    BY <1>2, <2>1 DEF ToSet
<1>3. QED
  BY <1>1, <1>2

\* push.
LEMMA FairPushInv ==
  ASSUME FairQueueInv, NEW id \in Entries, NEW b \in Buckets, FairPush(id, b)
  PROVE  FairQueueInv'
<1>1. /\ id \notin DOMAIN membership
      /\ active' = IF buckets[b] = <<>> THEN Append(active, b) ELSE active
      /\ buckets' = [buckets EXCEPT ![b] = Append(@, id)]
      /\ membership' = [e \in DOMAIN membership \cup {id} |->
                          IF e = id THEN b ELSE membership[e]]
      /\ overtaken' = overtaken
  BY DEF FairPush
<1>2. /\ buckets \in [Buckets -> Seq(Entries)] /\ active \in Seq(Buckets)
      /\ DOMAIN membership \subseteq Entries
      /\ \A e \in DOMAIN membership : membership[e] \in Buckets
      /\ \A c \in Buckets : buckets[c] \in Seq(Entries) /\ IsInjective(buckets[c])
      /\ \A e \in Entries, c \in Buckets :
           e \in ToSet(buckets[c]) <=> e \in DOMAIN membership /\ membership[e] = c
      /\ IsInjective(active)
      /\ ToSet(active) = {c \in Buckets : buckets[c] # <<>>}
      /\ \A o \in overtaken : o[1] \in ToSet(active) /\ ~Before(active, o[2], o[1])
  BY DEF FairQueueInv, BucketsExact
<1>3. PICK s, t : s = buckets[b] /\ t = buckets'[b]
  OBVIOUS
<1>4. s \in Seq(Entries) /\ IsInjective(s) /\ id \notin ToSet(s) /\ t = Append(s, id)
  BY <1>1, <1>2, <1>3
<1>5. /\ t \in Seq(Entries) /\ IsInjective(t) /\ ToSet(t) = ToSet(s) \cup {id} /\ t # <<>>
  BY <1>4, AppendOrder
<1>6. /\ buckets' \in [Buckets -> Seq(Entries)]
      /\ \A c \in Buckets : c # b => buckets'[c] = buckets[c]
  BY <1>1, <1>2, <1>3, <1>5
<1>7. /\ DOMAIN membership' = DOMAIN membership \cup {id} /\ membership'[id] = b
      /\ \A e \in DOMAIN membership : membership'[e] = membership[e]
  BY <1>1
<1>8. \A e \in Entries, c \in Buckets :
         e \in ToSet(buckets'[c]) <=> e \in DOMAIN membership' /\ membership'[e] = c
  BY <1>1, <1>2, <1>3, <1>5, <1>6, <1>7
<1>9. {c \in Buckets : buckets'[c] # <<>>} = {c \in Buckets : buckets[c] # <<>>} \cup {b}
  BY <1>3, <1>5, <1>6
<1>10. /\ active' \in Seq(Buckets) /\ IsInjective(active')
       /\ ToSet(active') = ToSet(active) \cup {b}
       /\ \A o \in overtaken : o[1] \in ToSet(active') /\ ~Before(active', o[2], o[1])
  <2>1. CASE b \in ToSet(active)
    BY <1>1, <1>2, <2>1
  <2>2. CASE b \notin ToSet(active)
    <3>1. active' = Append(active, b)
      BY <1>1, <1>2, <2>2
    <3>2. /\ active' \in Seq(Buckets) /\ IsInjective(active')
          /\ ToSet(active') = ToSet(active) \cup {b}
          /\ \A x, y : Before(active', x, y) => Before(active, x, y) \/ y = b
      BY <1>2, <2>2, <3>1, AppendOrder
    <3>3. QED
      BY <1>2, <2>2, <3>2
  <2>3. QED
    BY <2>1, <2>2
<1>11. BucketsExact'
  <2>1. \A c \in Buckets : IsInjective(buckets'[c])
    BY <1>2, <1>3, <1>5, <1>6
  <2>2. QED
    BY <1>2, <1>8, <1>9, <1>10, <2>1 DEF BucketsExact
<1>12. QED
  <2>1. \A e \in DOMAIN membership' : membership'[e] \in Buckets
    BY <1>2, <1>7
  <2>2. QED
    BY <1>1, <1>2, <1>6, <1>7, <1>10, <1>11, <2>1 DEF FairQueueInv

\* An id leaves bucket b, which keeps t: what take_next and remove share.
LEMMA LeavesBucket ==
  ASSUME FairQueueInv, NEW id \in Entries, NEW b \in Buckets, NEW t,
         id \in ToSet(buckets[b]), membership' = Forget(id),
         buckets' = [buckets EXCEPT ![b] = t],
         t \in Seq(Entries), IsInjective(t), ToSet(t) = ToSet(buckets[b]) \ {id}
  PROVE  /\ buckets' \in [Buckets -> Seq(Entries)] /\ buckets'[b] = t
         /\ DOMAIN membership' \subseteq Entries
         /\ \A e \in DOMAIN membership' : membership'[e] \in Buckets
         /\ \A c \in Buckets : IsInjective(buckets'[c])
         /\ \A e \in Entries, c \in Buckets :
              e \in ToSet(buckets'[c]) <=> e \in DOMAIN membership' /\ membership'[e] = c
         /\ {c \in Buckets : buckets'[c] # <<>>} =
              IF t = <<>> THEN ToSet(active) \ {b} ELSE ToSet(active)
         /\ b \in ToSet(active)
<1>2. /\ buckets \in [Buckets -> Seq(Entries)]
      /\ DOMAIN membership \subseteq Entries
      /\ \A e \in DOMAIN membership : membership[e] \in Buckets
      /\ \A c \in Buckets : buckets[c] \in Seq(Entries) /\ IsInjective(buckets[c])
      /\ \A e \in Entries, c \in Buckets :
           e \in ToSet(buckets[c]) <=> e \in DOMAIN membership /\ membership[e] = c
      /\ ToSet(active) = {c \in Buckets : buckets[c] # <<>>}
  BY DEF FairQueueInv, BucketsExact
<1>3. /\ buckets' \in [Buckets -> Seq(Entries)] /\ buckets'[b] = t
      /\ \A c \in Buckets : c # b => buckets'[c] = buckets[c]
  BY <1>2
<1>4. /\ DOMAIN membership' = DOMAIN membership \ {id}
      /\ \A e \in DOMAIN membership' : membership'[e] = membership[e]
  BY DEF Forget
<1>5. \A c \in Buckets : IsInjective(buckets'[c])
  BY <1>2, <1>3
<1>6. \A e \in Entries, c \in Buckets :
         e \in ToSet(buckets'[c]) <=> e \in DOMAIN membership' /\ membership'[e] = c
  BY <1>2, <1>3, <1>4
<1>7. b \in ToSet(active)
  BY <1>2, Emptiness
<1>8. {c \in Buckets : buckets'[c] # <<>>} =
        IF t = <<>> THEN ToSet(active) \ {b} ELSE ToSet(active)
  BY <1>2, <1>3, <1>7
<1>9. QED
  BY <1>2, <1>3, <1>4, <1>5, <1>6, <1>7, <1>8

\* take_next.
LEMMA FairTakeNextInv == ASSUME FairQueueInv, FairTakeNext PROVE FairQueueInv'
<1>1. PICK b, r : b = Head(active) /\ r = Tail(active)
  OBVIOUS
<1>2. /\ buckets \in [Buckets -> Seq(Entries)] /\ active \in Seq(Buckets) /\ IsInjective(active)
      /\ active # <<>> /\ ToSet(active) = {c \in Buckets : buckets[c] # <<>>}
      /\ \A c \in Buckets : buckets[c] \in Seq(Entries) /\ IsInjective(buckets[c])
      /\ \A o \in overtaken : o[1] \in ToSet(active) /\ ~Before(active, o[2], o[1])
  BY DEF FairQueueInv, BucketsExact, FairTakeNext
<1>3. /\ r \in Seq(Buckets) /\ IsInjective(r) /\ ToSet(r) = ToSet(active) \ {b}
      /\ \A x, y : Before(r, x, y) => Before(active, x, y)
  BY <1>1, <1>2, TailOrder
<1>4. b \in Buckets /\ b \in ToSet(active)
  <2>1. b = active[1] /\ 1 \in DOMAIN active
    BY <1>1, <1>2
  <2>2. QED
    BY <1>2, <2>1 DEF ToSet
<1>5. buckets[b] # <<>>
  BY <1>2, <1>4
<1>6. PICK id, t : id = Head(buckets[b]) /\ t = Tail(buckets[b])
  OBVIOUS
<1>7. /\ buckets' = [buckets EXCEPT ![b] = t] /\ membership' = Forget(id)
      /\ active' = TurnOver(b, r)
      /\ overtaken' = WaitOver(b) \cup {<<c, b>> : c \in ToSet(r)}
  BY <1>1, <1>5, <1>6 DEF FairTakeNext
<1>8. id \in Entries /\ id \in ToSet(buckets[b])
  <2>1. id = buckets[b][1] /\ 1 \in DOMAIN buckets[b]
    BY <1>2, <1>4, <1>5, <1>6
  <2>2. QED
    BY <1>2, <1>4, <2>1 DEF ToSet
<1>9. t \in Seq(Entries) /\ IsInjective(t) /\ ToSet(t) = ToSet(buckets[b]) \ {id}
  BY <1>2, <1>4, <1>5, <1>6, TailOrder
<1>10. /\ buckets' \in [Buckets -> Seq(Entries)] /\ buckets'[b] = t
       /\ DOMAIN membership' \subseteq Entries
       /\ \A e \in DOMAIN membership' : membership'[e] \in Buckets
       /\ \A c \in Buckets : IsInjective(buckets'[c])
       /\ \A e \in Entries, c \in Buckets :
            e \in ToSet(buckets'[c]) <=> e \in DOMAIN membership' /\ membership'[e] = c
       /\ {c \in Buckets : buckets'[c] # <<>>} =
            IF t = <<>> THEN ToSet(active) \ {b} ELSE ToSet(active)
  BY <1>4, <1>7, <1>8, <1>9, LeavesBucket
<1>11. active' = IF t = <<>> THEN r ELSE Append(r, b)
  BY <1>7, <1>10 DEF TurnOver
<1>12. /\ active' \in Seq(Buckets) /\ IsInjective(active')
       /\ ToSet(active') = {c \in Buckets : buckets'[c] # <<>>}
       /\ \A x, y : Before(active', x, y) => Before(r, x, y) \/ y = b
  <2>1. CASE t = <<>>
    BY <1>3, <1>10, <1>11, <2>1
  <2>2. CASE t # <<>>
    <3>1. b \notin ToSet(r)
      BY <1>3
    <3>2. /\ active' \in Seq(Buckets) /\ IsInjective(active')
          /\ ToSet(active') = ToSet(r) \cup {b}
          /\ \A x, y : Before(active', x, y) => Before(r, x, y) \/ y = b
      BY <1>3, <1>4, <1>11, <2>2, <3>1, AppendOrder
    <3>3. QED
      BY <1>3, <1>4, <1>10, <2>2, <3>2
  <2>3. QED
    BY <2>1, <2>2
<1>13. ToSet(r) \subseteq ToSet(active') /\ b \notin ToSet(r)
  BY <1>3, <1>4, <1>10, <1>12
<1>14. ASSUME NEW x PROVE ~Before(r, b, x)
  BY <1>13 DEF Before, ToSet
<1>15. ASSUME NEW o \in overtaken' PROVE o[1] \in ToSet(active') /\ ~Before(active', o[2], o[1])
  <2>1. CASE o \in overtaken /\ o[1] # b
    BY <1>2, <1>3, <1>12, <1>13, <2>1
  <2>2. CASE \E c \in ToSet(r) : o = <<c, b>>
    <3>1. o[1] \in ToSet(r) /\ o[2] = b
      BY <2>2
    <3>2. QED
      BY <3>1, <1>12, <1>13, <1>14
  <2>3. QED
    BY <1>7, <2>1, <2>2 DEF WaitOver
<1>16. BucketsExact'
  BY <1>10, <1>12 DEF BucketsExact
<1>17. QED
  BY <1>10, <1>12, <1>15, <1>16 DEF FairQueueInv

\* remove.
LEMMA FairRemoveInv ==
  ASSUME FairQueueInv, NEW id \in Entries, FairRemove(id)
  PROVE  FairQueueInv'
<1>1. PICK b, t : b = membership[id] /\ t = RemoveFirst(buckets[b], id)
  OBVIOUS
<1>2. /\ buckets \in [Buckets -> Seq(Entries)] /\ active \in Seq(Buckets) /\ IsInjective(active)
      /\ ToSet(active) = {c \in Buckets : buckets[c] # <<>>}
      /\ \A c \in Buckets : buckets[c] \in Seq(Entries) /\ IsInjective(buckets[c])
      /\ \A e \in Entries, c \in Buckets :
           e \in ToSet(buckets[c]) <=> e \in DOMAIN membership /\ membership[e] = c
      /\ \A e \in DOMAIN membership : membership[e] \in Buckets
      /\ \A o \in overtaken : o[1] \in ToSet(active) /\ ~Before(active, o[2], o[1])
  BY DEF FairQueueInv, BucketsExact
<1>3. /\ id \in DOMAIN membership /\ membership' = Forget(id)
      /\ buckets' = [buckets EXCEPT ![b] = t]
      /\ active' = IF buckets'[b] = <<>> THEN RemoveFirst(active, b) ELSE active
      /\ overtaken' = IF buckets'[b] = <<>> THEN WaitOver(b) ELSE overtaken
  BY <1>1 DEF FairRemove
<1>4. b \in Buckets /\ id \in ToSet(buckets[b])
  BY <1>1, <1>2, <1>3
<1>5. t \in Seq(Entries) /\ IsInjective(t) /\ ToSet(t) = ToSet(buckets[b]) \ {id}
  BY <1>1, <1>2, <1>4, RemoveOrder
<1>6. /\ buckets' \in [Buckets -> Seq(Entries)] /\ buckets'[b] = t
      /\ DOMAIN membership' \subseteq Entries
      /\ \A e \in DOMAIN membership' : membership'[e] \in Buckets
      /\ \A c \in Buckets : IsInjective(buckets'[c])
      /\ \A e \in Entries, c \in Buckets :
           e \in ToSet(buckets'[c]) <=> e \in DOMAIN membership' /\ membership'[e] = c
      /\ {c \in Buckets : buckets'[c] # <<>>} =
           IF t = <<>> THEN ToSet(active) \ {b} ELSE ToSet(active)
      /\ b \in ToSet(active)
  BY <1>3, <1>4, <1>5, LeavesBucket
<1>7. /\ active' \in Seq(Buckets) /\ IsInjective(active')
      /\ ToSet(active') = {c \in Buckets : buckets'[c] # <<>>}
      /\ \A x, y : Before(active', x, y) => Before(active, x, y)
  <2>1. CASE t = <<>>
    BY <1>2, <1>3, <1>6, <2>1, RemoveOrder
  <2>2. CASE t # <<>>
    BY <1>2, <1>3, <1>6, <2>2
  <2>3. QED
    BY <2>1, <2>2
<1>8. \A o \in overtaken' : o[1] \in ToSet(active') /\ ~Before(active', o[2], o[1])
  <2>1. CASE t = <<>>
    BY <1>2, <1>3, <1>6, <1>7, <2>1 DEF WaitOver
  <2>2. CASE t # <<>>
    BY <1>2, <1>3, <1>6, <1>7, <2>2
  <2>3. QED
    BY <2>1, <2>2
<1>9. BucketsExact'
  BY <1>6, <1>7 DEF BucketsExact
<1>10. QED
  BY <1>6, <1>7, <1>8, <1>9 DEF FairQueueInv

\* The inductive invariant of the fair queue holds for every number of
\* buckets, every set of entries and every hash (push, take_next, remove).
THEOREM FairQueueInvariance == FairQueueSpec => []FairQueueInv
<1>1. FairQueueInv /\ [FairQueueNext]_fairQueueVars => FairQueueInv'
  <2> SUFFICES ASSUME FairQueueInv, [FairQueueNext]_fairQueueVars PROVE FairQueueInv'
    OBVIOUS
  <2>1. CASE UNCHANGED fairQueueVars
    BY <2>1 DEF FairQueueInv, BucketsExact, fairQueueVars
  <2>2. ASSUME NEW id \in Entries, NEW b \in Buckets, FairPush(id, b) PROVE FairQueueInv'
    BY <2>2, FairPushInv
  <2>3. CASE FairTakeNext
    BY <2>3, FairTakeNextInv
  <2>4. ASSUME NEW id \in Entries, FairRemove(id) PROVE FairQueueInv'
    BY <2>4, FairRemoveInv
  <2>5. QED
    BY <2>1, <2>2, <2>3, <2>4 DEF FairQueueNext
<1>2. QED
  BY <1>1, FairQueueInitInv, PTL DEF FairQueueSpec

\* Flows are served in turn: the indexes agree after every call, and a bucket
\* that was served while another waits is behind it from then on.
THEOREM FairQueueCorrect == FairQueueSpec => []ServedInTurn
<1>1. FairQueueInv => ServedInTurn
  <2> SUFFICES ASSUME FairQueueInv PROVE ServedInTurn
    OBVIOUS
  <2>1. \A x, y : x \in InFront(y) => Before(active, x, y)
    BY DEF InFront, Before
  <2>2. QED
    BY <2>1 DEF FairQueueInv, ServedInTurn
<1>2. QED
  BY <1>1, FairQueueInvariance, PTL

-----------------------------------------------------------------------------
(***************************************************************************)
(* The round-robin branch.                                                 *)
(***************************************************************************)

\* The slab: a slot that is free has nothing in flight, the others hold
\* different children, and only live children are asked.
SlotsInv ==
  /\ slots \in Seq(Slot) /\ live_ids \in Seq(Ids) /\ free \in Seq(Ids)
  /\ \A i \in Ids : IF slots[i].entry = "Free" THEN slots[i].in_flight = 0
                                               ELSE slots[i].child \in Children
  /\ \A i, j \in Ids : /\ slots[i].entry # "Free" /\ slots[j].entry # "Free"
                       /\ slots[i].child = slots[j].child
                       => i = j
  /\ ready \subseteq LiveChildren

\* The items in flight.
ItemsInv ==
  /\ DOMAIN outstanding \subseteq Items
  /\ outstanding \in [DOMAIN outstanding -> [child : Children, id : Ids]]
  /\ RoutesHome

\* In slab sl the entry at position k of the rotation q is ages[k]
\* generations old: of one slot the older entries are in front and no age is
\* missing among them, and a live slot has an entry of age 0.
Aged(sl, q, ages) ==
  /\ \A k \in DOMAIN q :
       /\ q[k][1] \in DOMAIN sl /\ ages[k] \in 0 .. U32Span - 1
       /\ LET g == sl[q[k][1]].generation
          IN  q[k][2] = IF ages[k] <= g THEN g - ages[k] ELSE g - ages[k] + U32Span
  /\ \A j, k \in DOMAIN q : q[j][1] = q[k][1] /\ j < k => ages[k] < ages[j]
  /\ \A k \in DOMAIN q, n \in Nat :
       n < ages[k] => \E m \in DOMAIN q : q[m][1] = q[k][1] /\ ages[m] = n
  /\ \A i \in DOMAIN sl : sl[i].entry = "Live" => \E k \in DOMAIN q : q[k][1] = i /\ ages[k] = 0

\* The rotation: every entry has an age, and the stale ones are counted.
RotationInv ==
  /\ queue \in Seq(Ids \X (0 .. U32Span - 1))
  /\ \E ages \in [DOMAIN queue -> Nat] : Aged(slots, queue, ages)
  /\ stale \in Nat /\ stale = StaleIn(Len(queue))
  /\ stale <= Len(live_ids) /\ stale < U32Span

\* The inductive invariant of the round-robin branch.
RoundRobinInv == SlotsInv /\ SlabExact /\ ItemsInv /\ RotationInv

\* remove_child, by its effects.
LEMMA RemoveChildEffect ==
  ASSUME SlotsInv, SlabExact, NEW id \in Ids, RemoveChild(id),
         NEW pos, pos = slots[id].live_pos
  PROVE  /\ IsLive(id) /\ pos \in 1 .. Len(live_ids) /\ live_ids[pos] = id
         /\ live_ids' \in Seq(Ids) /\ Len(live_ids') = Len(live_ids) - 1
         /\ \A i \in 1 .. Len(live_ids) - 1 :
              live_ids'[i] = IF i = pos THEN live_ids[Len(live_ids)] ELSE live_ids[i]
         /\ free' = IF slots[id].in_flight > 0 THEN free ELSE Append(free, id)
         /\ DOMAIN slots' = DOMAIN slots /\ slots' \in Seq(Slot)
         /\ slots'[id].entry = IF slots[id].in_flight > 0 THEN "Draining" ELSE "Free"
         /\ slots'[id].child = IF slots[id].in_flight > 0 THEN slots[id].child ELSE NoChild
         /\ \A i \in Ids : /\ slots'[i].generation = slots[i].generation
                           /\ slots'[i].in_flight = slots[i].in_flight
                           /\ i # id => /\ slots'[i].entry = slots[i].entry
                                        /\ slots'[i].child = slots[i].child
                           /\ slots'[i].live_pos = IF pos < Len(live_ids) /\ i = live_ids[Len(live_ids)]
                                                   THEN pos ELSE slots[i].live_pos
<1> DEFINE busy == slots[id].in_flight > 0
           gone == [slots EXCEPT ![id].entry = IF busy THEN "Draining" ELSE "Free",
                                 ![id].child = IF busy THEN @ ELSE NoChild]
<1>2. /\ slots \in Seq(Slot) /\ live_ids \in Seq(Ids) /\ IsLive(id) /\ Len(live_ids) \in Nat
      /\ DOMAIN slots = 1 .. Len(slots) /\ \A i \in Ids : slots[i] \in Slot
  BY DEF SlotsInv, RemoveChild, Ids
<1>3. PICK p \in DOMAIN live_ids : live_ids[p] = id /\ pos = p
  BY <1>2 DEF SlabExact, ToSet, Ids
<1>4. pos \in 1 .. Len(live_ids) /\ live_ids[pos] = id
  BY <1>2, <1>3
<1>5. /\ free' = FreeAfter(id, Busy(id)) /\ live_ids' = SwapRemove(pos)
      /\ slots' = IF pos \in DOMAIN live_ids'
                  THEN [gone EXCEPT ![live_ids'[pos]].live_pos = pos]
                  ELSE gone
  BY DEF RemoveChild, Busy
<1>6. /\ live_ids' \in Seq(Ids) /\ Len(live_ids') = Len(live_ids) - 1
      /\ \A i \in 1 .. Len(live_ids) - 1 :
              live_ids'[i] = IF i = pos THEN live_ids[Len(live_ids)] ELSE live_ids[i]
  <2>1. PICK L, S, x, n : L = live_ids /\ S = Ids /\ x = pos /\ n = Len(live_ids)
    OBVIOUS
  <2>2. /\ L \in Seq(S) /\ n \in Nat /\ n = Len(L) /\ x \in 1 .. n
        /\ live_ids' = [i \in 1 .. n - 1 |-> IF i = x THEN L[n] ELSE L[i]]
    BY <1>2, <1>4, <1>5, <2>1 DEF SwapRemove, Last
  <2>3. \A i \in 1 .. n : L[i] \in S
    BY <2>2
  <2>4. n - 1 \in Nat /\ n \in 1 .. n /\ \A i \in 1 .. n - 1 : i \in 1 .. n
    BY <2>2
  <2>5. \A i \in 1 .. n - 1 : (IF i = x THEN L[n] ELSE L[i]) \in S
    BY <2>3, <2>4
  <2>6. live_ids' \in Seq(S) /\ Len(live_ids') = n - 1
    BY <2>2, <2>4, <2>5
  <2>7. QED
    BY <2>1, <2>2, <2>6
<1>7. /\ DOMAIN gone = DOMAIN slots
      /\ gone[id].entry = IF busy THEN "Draining" ELSE "Free"
      /\ gone[id].child = IF busy THEN slots[id].child ELSE NoChild
      /\ gone[id].generation = slots[id].generation /\ gone[id].in_flight = slots[id].in_flight
      /\ gone[id].live_pos = slots[id].live_pos
      /\ \A i \in Ids : i # id => gone[i] = slots[i]
      /\ \A i \in Ids : gone[i] \in Slot
  BY <1>2 DEF Slot, Ids
<1> HIDE DEF gone
<1>8. PICK last : last = live_ids[Len(live_ids)]
  OBVIOUS
<1>9. last \in Ids /\ (pos \in DOMAIN live_ids' <=> pos < Len(live_ids))
      /\ (pos < Len(live_ids) => live_ids'[pos] = last)
  <2>1. PICK n \in Nat : n = Len(live_ids)
    BY <1>2
  <2>2. n \in 1 .. n /\ DOMAIN live_ids = 1 .. n /\ DOMAIN live_ids' = 1 .. n - 1
    BY <1>2, <1>4, <1>6, <2>1
  <2>3. last \in Ids
    BY <1>2, <1>8, <2>1, <2>2
  <2>4. pos \in 1 .. n /\ (pos \in 1 .. n - 1 <=> pos < n)
    BY <1>4, <2>1
  <2>5. QED
    BY <1>6, <1>8, <2>1, <2>2, <2>3, <2>4
<1>10. /\ DOMAIN slots' = DOMAIN slots
       /\ slots'[id].entry = gone[id].entry /\ slots'[id].child = gone[id].child
       /\ \A i \in Ids : /\ slots'[i].generation = gone[i].generation
                         /\ slots'[i].in_flight = gone[i].in_flight
                         /\ slots'[i].entry = gone[i].entry
                         /\ slots'[i].child = gone[i].child
                         /\ slots'[i].live_pos = IF pos < Len(live_ids) /\ i = last
                                                 THEN pos ELSE gone[i].live_pos
                         /\ slots'[i] \in Slot
  <2>1. CASE pos < Len(live_ids)
    <3>1. pos \in Nat \ {0}
      BY <1>2, <1>4
    <3>2. slots' = [gone EXCEPT ![last].live_pos = pos]
      <4>1. pos \in DOMAIN live_ids' /\ live_ids'[pos] = last
        BY <1>9, <2>1
      <4>2. QED
        BY <1>5, <4>1
    <3>3. QED
      BY ZenonT(60), <1>7, <1>9, <2>1, <3>1, <3>2 DEF Slot, Ids
  <2>2. CASE ~(pos < Len(live_ids))
    <3>1. slots' = gone
      BY <1>5, <1>9, <2>2
    <3>2. QED
      BY <1>7, <2>2, <3>1 DEF Ids
  <2>3. QED
    BY <2>1, <2>2
<1>11. slots' \in Seq(Slot)
  <2>1. gone \in [1 .. Len(slots) -> Slot]
    BY <1>2, <1>7 DEF gone, Ids
  <2>2. slots' \in [1 .. Len(slots) -> Slot]
    <3>1. CASE pos \in DOMAIN live_ids'
      <4>1. slots' = [gone EXCEPT ![live_ids'[pos]].live_pos = pos]
        BY <1>5, <3>1
      <4>2. \A i \in 1 .. Len(slots) : slots'[i] \in Slot
        BY <1>2, <1>10 DEF Ids
      <4>3. QED
        BY <2>1, <4>1, <4>2
    <3>2. CASE pos \notin DOMAIN live_ids'
      BY <1>5, <2>1, <3>2
    <3>3. QED
      BY <3>1, <3>2
  <2>3. QED
    BY <1>2, <2>2
<1>12. free' = IF busy THEN free ELSE Append(free, id)
  BY <1>5 DEF FreeAfter, Busy
<1>13. QED
  BY <1>2, <1>4, <1>6, <1>7, <1>8, <1>10, <1>11, <1>12

\* The elements of a sequence after swap_remove.
LEMMA SwapRemoved ==
  ASSUME NEW S, NEW s \in Seq(S), NEW t \in Seq(S), IsInjective(s), NEW pos \in 1 .. Len(s),
         Len(t) = Len(s) - 1,
         \A i \in 1 .. Len(s) - 1 : t[i] = IF i = pos THEN s[Len(s)] ELSE s[i]
  PROVE  ToSet(t) = ToSet(s) \ {s[pos]}
<1>1. DOMAIN s = 1 .. Len(s) /\ DOMAIN t = 1 .. Len(s) - 1 /\ Len(s) \in Nat
  OBVIOUS
<1>2. ASSUME NEW x \in ToSet(t) PROVE x \in ToSet(s) \ {s[pos]}
  <2>1. PICK i \in DOMAIN t : t[i] = x
    BY DEF ToSet
  <2>2. PICK j \in DOMAIN s : x = s[j] /\ j # pos
    BY <1>1, <2>1
  <2>3. QED
    BY <1>1, <2>2 DEF ToSet, IsInjective
<1>3. ASSUME NEW x \in ToSet(s) \ {s[pos]} PROVE x \in ToSet(t)
  <2>1. PICK j \in DOMAIN s : s[j] = x /\ j # pos
    BY DEF ToSet
  <2>2. PICK i \in DOMAIN t : t[i] = x
    <3>1. CASE j = Len(s)
      BY <1>1, <2>1, <3>1
    <3>2. CASE j # Len(s)
      BY <1>1, <2>1, <3>2
    <3>3. QED
      BY <3>1, <3>2
  <2>3. QED
    BY <2>2 DEF ToSet
<1>4. QED
  BY <1>2, <1>3

\* The invariant of the slab, in the terms its proofs use.
LEMMA SlabFacts ==
  ASSUME SlotsInv, SlabExact
  PROVE  /\ slots \in Seq(Slot) /\ live_ids \in Seq(Ids) /\ free \in Seq(Ids)
         /\ \A i \in Ids : slots[i] \in Slot
         /\ IsInjective(live_ids) /\ IsInjective(free)
         /\ \A i \in Ids : i \in ToSet(live_ids) <=> slots[i].entry = "Live"
         /\ \A i \in Ids : i \in ToSet(free) <=> slots[i].entry = "Free"
<1>1. /\ slots \in Seq(Slot) /\ live_ids \in Seq(Ids) /\ free \in Seq(Ids)
      /\ \A i \in Ids : slots[i] \in Slot
  BY DEF SlotsInv, Ids
<1>2. IsInjective(live_ids)
  <2> SUFFICES ASSUME NEW i \in DOMAIN live_ids, NEW j \in DOMAIN live_ids,
                      live_ids[i] = live_ids[j]
               PROVE  i = j
    BY DEF IsInjective
  <2>1. slots[live_ids[i]].live_pos = i /\ slots[live_ids[j]].live_pos = j
    BY DEF SlabExact
  <2>2. QED
    BY <2>1
<1>3. IsInjective(free)
  BY DEF SlabExact, IsInjective
<1>4. QED
  BY <1>1, <1>2, <1>3 DEF SlabExact, IsLive

\* remove_child keeps the slab.
LEMMA RemoveChildSlab ==
  ASSUME SlotsInv, SlabExact, NEW id \in Ids, RemoveChild(id)
  PROVE  SlotsInv' /\ SlabExact'
<1>1. PICK pos, last, n : pos = slots[id].live_pos /\ last = live_ids[Len(live_ids)] /\ n = Len(live_ids)
  OBVIOUS
<1>2. /\ IsLive(id) /\ pos \in 1 .. n /\ live_ids[pos] = id
      /\ live_ids' \in Seq(Ids) /\ Len(live_ids') = n - 1
      /\ \A i \in 1 .. n - 1 : live_ids'[i] = IF i = pos THEN last ELSE live_ids[i]
      /\ free' = IF slots[id].in_flight > 0 THEN free ELSE Append(free, id)
      /\ DOMAIN slots' = DOMAIN slots /\ slots' \in Seq(Slot)
      /\ slots'[id].entry = IF slots[id].in_flight > 0 THEN "Draining" ELSE "Free"
      /\ slots'[id].child = IF slots[id].in_flight > 0 THEN slots[id].child ELSE NoChild
  BY <1>1, RemoveChildEffect
<1>3. \A i \in Ids : /\ slots'[i].in_flight = slots[i].in_flight
                     /\ i # id => /\ slots'[i].entry = slots[i].entry
                                  /\ slots'[i].child = slots[i].child
                     /\ slots'[i].live_pos = IF pos < n /\ i = last
                                             THEN pos ELSE slots[i].live_pos
  BY <1>1, RemoveChildEffect
<1>4. /\ slots \in Seq(Slot) /\ live_ids \in Seq(Ids) /\ free \in Seq(Ids)
      /\ \A i \in Ids : slots[i] \in Slot
      /\ IsInjective(live_ids) /\ IsInjective(free)
      /\ \A i \in Ids : i \in ToSet(live_ids) <=> slots[i].entry = "Live"
      /\ \A i \in Ids : i \in ToSet(free) <=> slots[i].entry = "Free"
  BY SlabFacts
<1>5. Ids' = Ids
  BY <1>2 DEF Ids
<1>6. n \in Nat /\ n >= 1 /\ DOMAIN live_ids = 1 .. n /\ DOMAIN live_ids' = 1 .. n - 1
  BY <1>1, <1>2, <1>4
<1>7. ToSet(live_ids') = ToSet(live_ids) \ {id}
  <2>1. PICK s, t : s = live_ids /\ t = live_ids'
    OBVIOUS
  <2>2. /\ s \in Seq(Ids) /\ t \in Seq(Ids) /\ IsInjective(s) /\ pos \in 1 .. Len(s)
        /\ Len(t) = Len(s) - 1 /\ s[pos] = id
        /\ \A i \in 1 .. Len(s) - 1 : t[i] = IF i = pos THEN s[Len(s)] ELSE s[i]
    BY <1>1, <1>2, <1>4, <2>1
  <2>3. ToSet(t) = ToSet(s) \ {s[pos]}
    BY <2>2, SwapRemoved
  <2>4. QED
    BY <2>1, <2>2, <2>3
<1>8. ToSet(live_ids') = {i \in Ids' : IsLive(i)'}
  <2>1. \A i \in ToSet(live_ids') : i \in Ids
    BY <1>2, <1>6 DEF ToSet
  <2>2. slots'[id].entry # "Live"
    BY <1>2
  <2>3. QED
    BY <1>3, <1>4, <1>5, <1>7, <2>1, <2>2 DEF IsLive
<1>9. \A p \in DOMAIN live_ids' : slots'[live_ids'[p]].live_pos = p
  <2> SUFFICES ASSUME NEW p \in 1 .. n - 1 PROVE slots'[live_ids'[p]].live_pos = p
    BY <1>6
  <2>1. last \in Ids /\ live_ids[p] \in Ids /\ p \in DOMAIN live_ids /\ p # n /\ n \in DOMAIN live_ids
    BY <1>1, <1>4, <1>6
  <2>2. CASE p = pos
    <3>1. live_ids'[p] = last /\ pos < n
      BY <1>2, <1>6, <2>2
    <3>2. QED
      BY <1>3, <2>1, <2>2, <3>1
  <2>3. CASE p # pos
    <3>1. live_ids'[p] = live_ids[p] /\ live_ids[p] # last
      BY <1>1, <1>2, <1>4, <2>1, <2>3 DEF IsInjective
    <3>2. slots[live_ids[p]].live_pos = p
      BY <2>1 DEF SlabExact
    <3>3. QED
      BY <1>3, <2>1, <3>1, <3>2
  <2>4. QED
    BY <2>2, <2>3
<1>10. /\ free' \in Seq(Ids) /\ IsInjective(free')
       /\ ToSet(free') = {i \in Ids' : slots'[i].entry = "Free"}
  <2>0. ToSet(free) \subseteq Ids /\ slots[id].entry = "Live" /\ id \notin ToSet(free)
    BY <1>2, <1>4 DEF ToSet, IsLive
  <2>1. /\ free' \in Seq(Ids) /\ IsInjective(free')
        /\ ToSet(free') = IF slots[id].in_flight > 0 THEN ToSet(free) ELSE ToSet(free) \cup {id}
    <3>1. CASE slots[id].in_flight > 0
      BY <1>2, <1>4, <3>1
    <3>2. CASE ~(slots[id].in_flight > 0)
      <4>1. free' = Append(free, id)
        BY <1>2, <3>2
      <4>2. QED
        BY <1>4, <2>0, <3>2, <4>1, AppendOrder
    <3>3. QED
      BY <3>1, <3>2
  <2>2. \A i \in Ids : i \in ToSet(free') <=> slots'[i].entry = "Free"
    BY ZenonT(60), <1>2, <1>3, <1>4, <2>0, <2>1
  <2>3. ToSet(free') \subseteq Ids
    BY <2>0, <2>1
  <2>4. QED
    BY <1>5, <2>1, <2>2, <2>3
<1>11. SlabExact'
  BY <1>8, <1>9, <1>10 DEF SlabExact, IsInjective
<1>12. \A i \in Ids : IF slots'[i].entry = "Free" THEN slots'[i].in_flight = 0
                                               ELSE slots'[i].child \in Children
  <2>1. slots[id].in_flight \in Nat /\ slots[id].child \in Children
    BY <1>2, <1>4, RoundRobinAssumption DEF Slot, SlotsInv, IsLive
  <2>2. IF slots'[id].entry = "Free" THEN slots'[id].in_flight = 0
                                     ELSE slots'[id].child \in Children
    BY <1>2, <1>3, <2>1
  <2>3. QED
    BY <1>3, <2>2 DEF SlotsInv
<1>13. \A i \in Ids : slots'[i].entry # "Free" =>
           slots[i].entry # "Free" /\ slots'[i].child = slots[i].child
  BY <1>2, <1>3 DEF IsLive
<1>14. \A i, j \in Ids : /\ slots'[i].entry # "Free" /\ slots'[j].entry # "Free"
                         /\ slots'[i].child = slots'[j].child
                         => i = j
  BY <1>13 DEF SlotsInv
<1>15. ready' \subseteq LiveChildren'
  <2>1. ready' = ready \ {slots[id].child}
    BY DEF RemoveChild
  <2>2. ASSUME NEW c \in ready' PROVE c \in LiveChildren'
    <3>1. PICK i \in Ids : IsLive(i) /\ slots[i].child = c
      BY <2>1 DEF SlotsInv, LiveChildren
    <3>2. i # id
      BY <2>1, <3>1
    <3>3. QED
      BY <1>3, <1>5, <3>1, <3>2 DEF LiveChildren, IsLive
  <2>3. QED
    BY <2>2
<1>16. SlotsInv'
  BY <1>2, <1>5, <1>10, <1>12, <1>14, <1>15 DEF SlotsInv
<1>17. QED
  BY <1>11, <1>16

\* A generation is followed by the next one, the last one by 0.
LEMMA NextGenerationWraps ==
  ASSUME NEW g \in 0 .. U32Span - 1
  PROVE  NextGeneration(g) = IF g + 1 = U32Span THEN 0 ELSE g + 1
<1>1. U32Span \in Nat /\ U32Span > 0
  BY RoundRobinAssumption
<1>2. CASE g + 1 = U32Span
  BY <1>1, <1>2 DEF NextGeneration
<1>3. CASE g + 1 # U32Span
  BY <1>1, <1>3 DEF NextGeneration
<1>4. QED
  BY <1>2, <1>3

\* A sequence over a set is one over every larger set.
LEMMA SeqWidens ==
  ASSUME NEW S, NEW T, S \subseteq T, NEW s \in Seq(S)
  PROVE  s \in Seq(T)
OBVIOUS

\* add_child, by its effects.
LEMMA AddChildEffect ==
  ASSUME SlotsInv, SlabExact, NEW c \in Children, AddChild(c)
  PROVE  \E id, gen :
         /\ gen \in 0 .. U32Span - 1
         /\ IF id \in Ids THEN /\ slots[id].entry = "Free"
                              /\ gen = NextGeneration(slots[id].generation)
                         ELSE gen = 0
         /\ DOMAIN slots' = Ids \cup {id} /\ slots' \in Seq(Slot)
         /\ slots'[id] = [entry |-> "Live", child |-> c, generation |-> gen,
                          in_flight |-> 0, live_pos |-> Len(live_ids) + 1]
         /\ \A i \in Ids : i # id => slots'[i] = slots[i]
         /\ free' \in Seq(Ids) /\ IsInjective(free') /\ ToSet(free') = ToSet(free) \ {id}
         /\ live_ids' = Append(live_ids, id) /\ queue' = Append(queue, <<id, gen>>)
<1> DEFINE id == IF free # <<>> THEN Last(free) ELSE Len(slots) + 1
           gen == IF free # <<>> THEN NextGeneration(slots[id].generation) ELSE 0
           slot == [entry |-> "Live", child |-> c, generation |-> gen,
                    in_flight |-> 0, live_pos |-> Len(live_ids) + 1]
<1>1. /\ slots' = IF free # <<>> THEN [slots EXCEPT ![id] = slot] ELSE Append(slots, slot)
      /\ free' = IF free # <<>> THEN Front(free) ELSE free
      /\ live_ids' = Append(live_ids, id) /\ queue' = Append(queue, <<id, gen>>)
  BY DEF AddChild
<1>2. /\ slots \in Seq(Slot) /\ live_ids \in Seq(Ids) /\ free \in Seq(Ids)
      /\ \A i \in Ids : slots[i] \in Slot
      /\ IsInjective(free)
      /\ \A i \in Ids : i \in ToSet(free) <=> slots[i].entry = "Free"
  BY SlabFacts
<1>3. U32Span \in Nat /\ U32Span > 0 /\ Ids = 1 .. Len(slots) /\ Len(slots) \in Nat /\ Len(live_ids) \in Nat
  BY <1>2, RoundRobinAssumption DEF Ids
<1>4. CASE free # <<>>
  <2>1. PICK n : n = Len(free)
    OBVIOUS
  <2>2. n \in DOMAIN free /\ id = free[n] /\ id \in Ids
    BY <1>2, <1>4, <2>1 DEF Last
  <2>3. slots[id].entry = "Free" /\ slots[id].generation \in 0 .. U32Span - 1
    <3>1. id \in ToSet(free)
      BY <2>2 DEF ToSet
    <3>2. QED
      BY <1>2, <2>2, <3>1 DEF Slot
  <2>4. gen \in 0 .. U32Span - 1 /\ gen = NextGeneration(slots[id].generation)
    <3>1. gen = NextGeneration(slots[id].generation)
      BY <1>4
    <3>2. PICK g \in 0 .. U32Span - 1 : g = slots[id].generation
      BY <2>3
    <3>3. NextGeneration(g) = IF g + 1 = U32Span THEN 0 ELSE g + 1
      BY NextGenerationWraps
    <3>4. NextGeneration(g) \in 0 .. U32Span - 1
      BY <1>3, <3>2, <3>3
    <3>5. QED
      BY <3>1, <3>2, <3>4
  <2>5. slots' = [slots EXCEPT ![id] = slot] /\ free' = Front(free)
    BY <1>1, <1>4
  <2> HIDE DEF id, gen
  <2>6. slot \in Slot
    BY <1>3, <2>4 DEF Slot
  <2> HIDE DEF slot
  <2>7. /\ slots' \in Seq(Slot) /\ DOMAIN slots' = Ids \cup {id} /\ slots'[id] = slot
        /\ \A i \in Ids : i # id => slots'[i] = slots[i]
    BY <1>2, <1>3, <2>2, <2>5, <2>6 DEF Ids
  <2>8. id = Last(free)
    BY <1>4 DEF id
  <2>9. free' \in Seq(Ids) /\ IsInjective(free') /\ ToSet(free') = ToSet(free) \ {id}
    BY <1>2, <1>4, <2>5, <2>8, FrontOrder
  <2>10. QED
    BY <1>1, <2>2, <2>3, <2>4, <2>7, <2>9 DEF slot
<1>5. CASE free = <<>>
  <2>1. id = Len(slots) + 1 /\ gen = 0 /\ slots' = Append(slots, slot) /\ free' = free
    BY <1>1, <1>5
  <2>2. id \notin Ids /\ gen \in 0 .. U32Span - 1
    BY <1>3, <2>1
  <2> HIDE DEF id, gen
  <2>3. slot \in Slot
    BY <1>3, <2>2 DEF Slot
  <2> HIDE DEF slot
  <2>4. /\ slots' \in Seq(Slot) /\ DOMAIN slots' = 1 .. Len(slots) + 1 /\ slots'[id] = slot
        /\ \A i \in 1 .. Len(slots) : slots'[i] = slots[i]
    BY <1>2, <2>1, <2>3
  <2>5. DOMAIN slots' = Ids \cup {id} /\ \A i \in Ids : i # id => slots'[i] = slots[i]
    BY <1>3, <2>1, <2>4
  <2>6. ToSet(free') = ToSet(free) \ {id}
    BY <1>5, <2>1 DEF ToSet
  <2>7. QED
    BY <1>1, <1>2, <2>1, <2>2, <2>4, <2>5, <2>6 DEF slot
<1>6. QED
  BY <1>4, <1>5

\* add_child keeps the slab.
LEMMA AddChildSlab ==
  ASSUME SlotsInv, SlabExact, NEW c \in Children, AddChild(c)
  PROVE  SlotsInv' /\ SlabExact'
<1>1. PICK id, gen :
         /\ IF id \in Ids THEN slots[id].entry = "Free" ELSE TRUE
         /\ DOMAIN slots' = Ids \cup {id} /\ slots' \in Seq(Slot)
         /\ slots'[id] = [entry |-> "Live", child |-> c, generation |-> gen,
                          in_flight |-> 0, live_pos |-> Len(live_ids) + 1]
         /\ \A i \in Ids : i # id => slots'[i] = slots[i]
         /\ free' \in Seq(Ids) /\ IsInjective(free') /\ ToSet(free') = ToSet(free) \ {id}
         /\ live_ids' = Append(live_ids, id)
  BY AddChildEffect
<1>2. /\ slots'[id].entry = "Live" /\ slots'[id].child = c
      /\ slots'[id].live_pos = Len(live_ids) + 1
  BY <1>1
<1>3. /\ live_ids \in Seq(Ids) /\ free \in Seq(Ids)
      /\ IsInjective(live_ids) /\ IsInjective(free)
      /\ \A i \in Ids : i \in ToSet(live_ids) <=> slots[i].entry = "Live"
      /\ \A i \in Ids : i \in ToSet(free) <=> slots[i].entry = "Free"
      /\ ToSet(live_ids) \subseteq Ids /\ ToSet(free) \subseteq Ids
  BY SlabFacts DEF ToSet
<1>4. Ids' = Ids \cup {id} /\ Ids \subseteq Ids'
  BY <1>1 DEF Ids
<1>5. live_ids \in Seq(Ids') /\ free' \in Seq(Ids') /\ id \in Ids'
  BY <1>1, <1>3, <1>4, SeqWidens
<1>6. id \notin ToSet(live_ids)
  BY <1>1, <1>3
<1>7. /\ live_ids' \in Seq(Ids') /\ ToSet(live_ids') = ToSet(live_ids) \cup {id}
  BY <1>1, <1>3, <1>5, <1>6, AppendOrder
<1>8. ToSet(live_ids') = {i \in Ids' : IsLive(i)'}
  <2>1. \A i \in Ids' : i \in ToSet(live_ids') <=> slots'[i].entry = "Live"
    BY <1>1, <1>2, <1>3, <1>4, <1>7
  <2>2. QED
    BY <1>3, <1>4, <1>7, <2>1 DEF IsLive
<1>9. \A p \in DOMAIN live_ids' : slots'[live_ids'[p]].live_pos = p
  <2>1. /\ DOMAIN live_ids' = 1 .. Len(live_ids) + 1 /\ Len(live_ids) \in Nat
        /\ live_ids'[Len(live_ids) + 1] = id /\ DOMAIN live_ids = 1 .. Len(live_ids)
        /\ \A p \in 1 .. Len(live_ids) : live_ids'[p] = live_ids[p]
    BY <1>1, <1>3
  <2>2. ASSUME NEW p \in DOMAIN live_ids PROVE slots'[live_ids'[p]].live_pos = p
    <3>1. live_ids'[p] = live_ids[p] /\ live_ids[p] \in Ids /\ live_ids[p] # id
      BY <1>3, <1>6, <2>1 DEF ToSet
    <3>2. slots[live_ids[p]].live_pos = p
      BY DEF SlabExact
    <3>3. QED
      BY <1>1, <3>1, <3>2
  <2>3. QED
    BY <1>2, <2>1, <2>2
<1>10. ToSet(free') = {i \in Ids' : slots'[i].entry = "Free"}
  <2>1. \A i \in Ids' : i \in ToSet(free') <=> slots'[i].entry = "Free"
    BY <1>1, <1>2, <1>3, <1>4
  <2>2. QED
    BY <1>1, <1>3, <1>4, <2>1
<1>11. SlabExact'
  BY <1>1, <1>8, <1>9, <1>10 DEF SlabExact, IsInjective
<1>12. slots'[id].in_flight = 0 /\ c \notin Held
  BY <1>1 DEF AddChild
<1>13. \A i \in Ids' : IF slots'[i].entry = "Free" THEN slots'[i].in_flight = 0
                                                ELSE slots'[i].child \in Children
  BY <1>1, <1>2, <1>4, <1>12 DEF SlotsInv
<1>14. \A i \in Ids : i # id /\ slots'[i].entry # "Free" => slots'[i].child # c
  BY <1>1, <1>12 DEF Held
<1>15. \A i, j \in Ids' : /\ slots'[i].entry # "Free" /\ slots'[j].entry # "Free"
                          /\ slots'[i].child = slots'[j].child
                          => i = j
  <2>1. \A i, j \in Ids : /\ slots[i].entry # "Free" /\ slots[j].entry # "Free"
                          /\ slots[i].child = slots[j].child
                          => i = j
    BY DEF SlotsInv
  <2>2. QED
    BY <1>1, <1>2, <1>4, <1>14, <2>1
<1>16. ready' \subseteq LiveChildren'
  <2>1. ready' = ready
    BY DEF AddChild
  <2>2. ASSUME NEW d \in ready PROVE d \in LiveChildren'
    <3>1. PICK i \in Ids : IsLive(i) /\ slots[i].child = d
      BY DEF SlotsInv, LiveChildren
    <3>2. i # id
      BY <1>1, <3>1 DEF IsLive
    <3>3. QED
      BY <1>1, <1>4, <3>1, <3>2 DEF LiveChildren, IsLive
  <2>3. QED
    BY <2>1, <2>2
<1>17. SlotsInv'
  BY <1>1, <1>5, <1>7, <1>13, <1>15, <1>16 DEF SlotsInv
<1>18. QED
  BY <1>11, <1>17

\* The items of slot i that are in flight.
ItemsOf(i) == {item \in DOMAIN outstanding : outstanding[item].id = i}

\* They are finitely many, fewer than a u32 counts.
LEMMA ItemsCounted ==
  ASSUME ItemsInv, NEW i
  PROVE  /\ IsFiniteSet(ItemsOf(i)) /\ Cardinality(ItemsOf(i)) \in Nat
         /\ \A item \in Items \ DOMAIN outstanding :
              Cardinality(ItemsOf(i)) + 1 < U32Span
         /\ i \in Ids => slots[i].in_flight = Cardinality(ItemsOf(i))
         /\ i \in Ids /\ slots[i].in_flight = 0 => ItemsOf(i) = {}
<1>1. IsFiniteSet(Items) /\ Cardinality(Items) < U32Span /\ U32Span \in Nat
  BY RoundRobinAssumption
<1>2. ItemsOf(i) \subseteq Items
  BY DEF ItemsInv, ItemsOf
<1>3. IsFiniteSet(ItemsOf(i)) /\ Cardinality(ItemsOf(i)) \in Nat
  BY <1>1, <1>2, FS_Subset, FS_CardinalityType
<1>4. ASSUME NEW item \in Items \ DOMAIN outstanding
      PROVE  Cardinality(ItemsOf(i)) + 1 < U32Span
  <2>1. item \notin ItemsOf(i) /\ ItemsOf(i) \cup {item} \subseteq Items
    BY <1>2 DEF ItemsOf
  <2>2. Cardinality(ItemsOf(i) \cup {item}) = Cardinality(ItemsOf(i)) + 1
    BY <1>3, <2>1, FS_AddElement
  <2>3. Cardinality(ItemsOf(i) \cup {item}) <= Cardinality(Items) /\ Cardinality(Items) \in Nat
    BY <1>1, <2>1, FS_Subset, FS_CardinalityType
  <2>4. QED
    BY <1>1, <1>3, <2>2, <2>3
<1>5. i \in Ids => slots[i].in_flight = Cardinality(ItemsOf(i))
  BY DEF ItemsInv, RoutesHome, ItemsOf
<1>6. i \in Ids /\ slots[i].in_flight = 0 => ItemsOf(i) = {}
  BY <1>3, <1>5, FS_EmptySet
<1>7. QED
  BY <1>3, <1>4, <1>5, <1>6

\* An item in flight belongs to a slot that is not free.
LEMMA ItemsHome ==
  ASSUME SlotsInv, ItemsInv, NEW item \in DOMAIN outstanding
  PROVE  /\ outstanding[item].id \in Ids /\ outstanding[item].child \in Children
         /\ slots[outstanding[item].id].entry # "Free"
         /\ slots[outstanding[item].id].child = outstanding[item].child
<1>1. outstanding[item].id \in Ids /\ outstanding[item].child \in Children
  BY DEF ItemsInv
<1>2. item \in ItemsOf(outstanding[item].id)
  BY DEF ItemsOf
<1>3. slots[outstanding[item].id].in_flight # 0
  BY <1>1, <1>2, ItemsCounted
<1>4. QED
  BY <1>1, <1>3 DEF SlotsInv, ItemsInv, RoutesHome

\* A step that leaves the items alone, and the counts and children of their

\* slots, keeps them home; a new slot has none.
LEMMA ItemsKept ==
  ASSUME SlotsInv, ItemsInv, UNCHANGED outstanding, Ids \subseteq Ids',
         \A i \in Ids : slots'[i].in_flight = slots[i].in_flight,
         \A i \in Ids' \ Ids : slots'[i].in_flight = 0,
         \A i \in Ids : slots[i].entry # "Free" /\ slots[i].in_flight > 0 => slots'[i].child = slots[i].child
  PROVE  ItemsInv'
<1>1. /\ DOMAIN outstanding \subseteq Items
      /\ outstanding \in [DOMAIN outstanding -> [child : Children, id : Ids]]
  BY DEF ItemsInv
<1>2. outstanding \in [DOMAIN outstanding -> [child : Children, id : Ids']]
  BY <1>1
<1>3. ASSUME NEW item \in DOMAIN outstanding
      PROVE  slots'[outstanding[item].id].child = outstanding[item].child
  <2>1. PICK i : i = outstanding[item].id
    OBVIOUS
  <2>2. /\ i \in Ids /\ slots[i].entry # "Free" /\ slots[i].child = outstanding[item].child
    BY <2>1, ItemsHome
  <2>3. item \in ItemsOf(i) /\ Cardinality(ItemsOf(i)) \in Nat /\ slots[i].in_flight = Cardinality(ItemsOf(i))
        /\ slots[i].in_flight # 0
    BY ZenonT(60), <2>1, <2>2, ItemsCounted DEF ItemsOf
  <2>4. slots'[i].child = slots[i].child
    BY <2>2, <2>3
  <2>5. QED
    BY <2>1, <2>2, <2>4
<1>4. ASSUME NEW i \in Ids' PROVE slots'[i].in_flight = Cardinality(ItemsOf(i))
  <2>1. CASE i \in Ids
    BY <2>1, ItemsCounted
  <2>2. CASE i \notin Ids
    <3>1. ItemsOf(i) = {}
      BY <1>1, <2>2 DEF ItemsOf
    <3>2. QED
      BY <2>2, <3>1, FS_EmptySet
  <2>3. QED
    BY <2>1, <2>2
<1>5. RoutesHome'
  BY <1>3, <1>4 DEF RoutesHome, ItemsOf
<1>6. QED
  BY <1>1, <1>2, <1>5 DEF ItemsInv

\* add_child and remove_child leave the items alone.
LEMMA MembersItems ==
  ASSUME SlotsInv, SlabExact, ItemsInv,
         \/ \E c \in Children : AddChild(c)
         \/ \E id \in Ids : RemoveChild(id)
  PROVE  ItemsInv'
<1>1. ASSUME NEW c \in Children, AddChild(c) PROVE ItemsInv'
  <2>1. PICK id, gen :
           /\ IF id \in Ids THEN slots[id].entry = "Free" ELSE TRUE
           /\ DOMAIN slots' = Ids \cup {id}
           /\ slots'[id] = [entry |-> "Live", child |-> c, generation |-> gen,
                            in_flight |-> 0, live_pos |-> Len(live_ids) + 1]
           /\ \A i \in Ids : i # id => slots'[i] = slots[i]
    BY <1>1, AddChildEffect
  <2>2. slots'[id].in_flight = 0 /\ (id \in Ids => slots[id].in_flight = 0)
    BY <2>1 DEF SlotsInv
  <2>3. Ids' = Ids \cup {id} /\ outstanding' = outstanding
    BY <1>1, <2>1 DEF Ids, AddChild
  <2>4. \A i \in Ids : slots'[i].in_flight = slots[i].in_flight
    BY <2>1, <2>2
  <2>5. \A i \in Ids : slots[i].entry # "Free" => slots'[i].child = slots[i].child
    BY <2>1
  <2>6. QED
    BY <2>2, <2>3, <2>4, <2>5, ItemsKept
<1>2. ASSUME NEW id \in Ids, RemoveChild(id) PROVE ItemsInv'
  <2>1. /\ DOMAIN slots' = DOMAIN slots
        /\ slots'[id].child = IF slots[id].in_flight > 0 THEN slots[id].child ELSE NoChild
        /\ \A i \in Ids : /\ slots'[i].in_flight = slots[i].in_flight
                          /\ i # id => slots'[i].child = slots[i].child
    BY <1>2, RemoveChildEffect
  <2>2. Ids' = Ids /\ outstanding' = outstanding
    BY <1>2, <2>1 DEF Ids, RemoveChild
  <2>3. \A i \in Ids : slots[i].in_flight > 0 => slots'[i].child = slots[i].child
    BY <2>1
  <2>4. QED
    BY <2>1, <2>2, <2>3, ItemsKept
<1>3. QED
  BY <1>1, <1>2

\* A step that changes no slot but the counter of one keeps the slab.
LEMMA SlabKept ==
  ASSUME SlotsInv, SlabExact, UNCHANGED <<live_ids, free>>, ready' \subseteq ready,
         slots' \in Seq(Slot), DOMAIN slots' = DOMAIN slots,
         \A i \in Ids : /\ slots'[i].entry = slots[i].entry /\ slots'[i].child = slots[i].child
                        /\ slots'[i].live_pos = slots[i].live_pos
                        /\ slots[i].entry = "Free" => slots'[i].in_flight = slots[i].in_flight
  PROVE  SlotsInv' /\ SlabExact' /\ LiveChildren' = LiveChildren
<1>1. Ids' = Ids
  BY DEF Ids
<1>2. \A i \in Ids : IsLive(i)' <=> IsLive(i)
  BY DEF IsLive
<1>3. LiveChildren' = LiveChildren
  BY <1>1, <1>2 DEF LiveChildren
<1>4. SlabExact'
  <2>1. \A p \in DOMAIN live_ids : live_ids[p] \in Ids
    BY DEF SlotsInv
  <2>2. ToSet(live_ids') = {i \in Ids' : IsLive(i)'}
    BY <1>1, <1>2 DEF SlabExact
  <2>3. ToSet(free') = {i \in Ids' : slots'[i].entry = "Free"}
    BY <1>1 DEF SlabExact
  <2>4. \A p \in DOMAIN live_ids' : slots'[live_ids'[p]].live_pos = p
    BY <2>1 DEF SlabExact
  <2>5. QED
    BY <2>2, <2>3, <2>4 DEF SlabExact
<1>5. SlotsInv'
  <2>1. live_ids' \in Seq(Ids') /\ free' \in Seq(Ids')
    BY <1>1 DEF SlotsInv
  <2>2. \A i \in Ids : IF slots'[i].entry = "Free" THEN slots'[i].in_flight = 0
                                                 ELSE slots'[i].child \in Children
    BY DEF SlotsInv
  <2>3. \A i, j \in Ids : /\ slots'[i].entry # "Free" /\ slots'[j].entry # "Free"
                          /\ slots'[i].child = slots'[j].child
                          => i = j
    <3>1. \A i, j \in Ids : /\ slots[i].entry # "Free" /\ slots[j].entry # "Free"
                            /\ slots[i].child = slots[j].child
                            => i = j
      BY DEF SlotsInv
    <3>2. QED
      BY <3>1
  <2>4. ready' \subseteq LiveChildren'
    BY <1>3 DEF SlotsInv
  <2>5. QED
    BY <1>1, <2>1, <2>2, <2>3, <2>4 DEF SlotsInv
<1>6. QED
  BY <1>3, <1>4, <1>5

\* One counter of a slab is set.
LEMMA CounterSet ==
  ASSUME NEW sl \in Seq(Slot), NEW id \in DOMAIN sl, NEW m \in 0 .. U32Span - 1,
         NEW t, t = [sl EXCEPT ![id].in_flight = m]
  PROVE  /\ t \in Seq(Slot) /\ DOMAIN t = DOMAIN sl /\ t[id].in_flight = m
         /\ \A i \in DOMAIN sl : /\ t[i].entry = sl[i].entry /\ t[i].child = sl[i].child
                                 /\ t[i].live_pos = sl[i].live_pos
                                 /\ t[i].generation = sl[i].generation
                                 /\ i # id => t[i].in_flight = sl[i].in_flight
<1>1. \A i \in DOMAIN sl : sl[i] \in Slot
  OBVIOUS
<1>2. DOMAIN t = DOMAIN sl /\ \A i \in DOMAIN sl : i # id => t[i] = sl[i]
  OBVIOUS
<1>3. /\ t[id].entry = sl[id].entry /\ t[id].child = sl[id].child /\ t[id].live_pos = sl[id].live_pos
      /\ t[id].generation = sl[id].generation /\ t[id].in_flight = m /\ t[id] \in Slot
  BY <1>1 DEF Slot
<1>4. t \in [1 .. Len(sl) -> Slot]
  BY <1>1, <1>2, <1>3
<1>5. t \in Seq(Slot)
  BY <1>4
<1>6. QED
  BY <1>2, <1>3, <1>5

\* take_next with an item, by its effects.
LEMMA TakeNextEffect ==
  ASSUME SlotsInv, SlabExact, ItemsInv, NEW item \in Items, TakeNextSome(item)
  PROVE  \E k \in Willing, id \in Ids :
         /\ id = queue[k][1] /\ slots[id].entry = "Live" /\ slots[id].child \in Children
         /\ \A m \in Willing : k <= m
         /\ item \notin DOMAIN outstanding
         /\ queue' = Rotated(k) /\ stale' = SaturatingSub(stale, StaleIn(k))
         /\ ready' \subseteq ready /\ live_ids' = live_ids /\ free' = free
         /\ outstanding' = [i \in DOMAIN outstanding \cup {item} |->
                IF i = item THEN [child |-> slots[id].child, id |-> id] ELSE outstanding[i]]
         /\ slots' \in Seq(Slot) /\ DOMAIN slots' = DOMAIN slots
         /\ slots'[id].in_flight = slots[id].in_flight + 1
         /\ \A i \in Ids : /\ slots'[i].entry = slots[i].entry /\ slots'[i].child = slots[i].child
                           /\ slots'[i].live_pos = slots[i].live_pos
                           /\ slots'[i].generation = slots[i].generation
                           /\ i # id => slots'[i].in_flight = slots[i].in_flight
<1>0. PICK k \in Willing :
         /\ \A m \in Willing : k <= m
         /\ queue' = Rotated(k) /\ stale' = SaturatingSub(stale, StaleIn(k))
         /\ slots' = [slots EXCEPT ![queue[k][1]].in_flight = SaturatingAdd(@, 1)]
         /\ outstanding' = [i \in DOMAIN outstanding \cup {item} |->
                IF i = item THEN [child |-> slots[queue[k][1]].child, id |-> queue[k][1]]
                            ELSE outstanding[i]]
         /\ ready' \in {ready, ready \ {slots[queue[k][1]].child}}
  BY DEF TakeNextSome
<1>a. PICK id : id = queue[k][1]
  OBVIOUS
<1>b. /\ queue' = Rotated(k) /\ stale' = SaturatingSub(stale, StaleIn(k))
      /\ item \notin DOMAIN outstanding
      /\ ready' \subseteq ready /\ live_ids' = live_ids /\ free' = free
      /\ slots' = [slots EXCEPT ![id].in_flight = SaturatingAdd(@, 1)]
      /\ outstanding' = [i \in DOMAIN outstanding \cup {item} |->
                IF i = item THEN [child |-> slots[id].child, id |-> id] ELSE outstanding[i]]
  BY <1>0, <1>a DEF TakeNextSome
<1>1. id \in Ids /\ slots[id].entry = "Live"
  BY <1>a DEF Willing, CurrentIn, Current, Ids
<1>2. slots[id].child \in Children /\ slots \in Seq(Slot) /\ \A i \in Ids : slots[i] \in Slot
  BY <1>1 DEF SlotsInv, Ids
<1>3. PICK n : n = slots[id].in_flight
  OBVIOUS
<1>4. n \in Nat /\ n + 1 < U32Span /\ U32Span \in Nat
  BY <1>b, <1>1, <1>3, ItemsCounted, RoundRobinAssumption
<1>5. SaturatingAdd(n, 1) = n + 1 /\ n + 1 \in 0 .. U32Span - 1
  BY <1>4 DEF SaturatingAdd
<1>6. slots' = [slots EXCEPT ![id].in_flight = n + 1]
  BY <1>b, <1>3, <1>5
<1>7. PICK m, t : m = n + 1 /\ m \in 0 .. U32Span - 1 /\ t = slots' /\ t = [slots EXCEPT ![id].in_flight = m]
  BY <1>5, <1>6
<1>8. /\ t \in Seq(Slot) /\ DOMAIN t = DOMAIN slots /\ t[id].in_flight = m
      /\ \A i \in DOMAIN slots : /\ t[i].entry = slots[i].entry /\ t[i].child = slots[i].child
                                 /\ t[i].live_pos = slots[i].live_pos
                                 /\ t[i].generation = slots[i].generation
                                 /\ i # id => t[i].in_flight = slots[i].in_flight
  BY <1>1, <1>2, <1>7, CounterSet DEF Ids
<1>9. /\ slots' \in Seq(Slot) /\ DOMAIN slots' = DOMAIN slots
      /\ slots'[id].in_flight = slots[id].in_flight + 1
      /\ \A i \in Ids : /\ slots'[i].entry = slots[i].entry /\ slots'[i].child = slots[i].child
                        /\ slots'[i].live_pos = slots[i].live_pos
                        /\ slots'[i].generation = slots[i].generation
                        /\ i # id => slots'[i].in_flight = slots[i].in_flight
  BY <1>3, <1>7, <1>8 DEF Ids
<1>10. QED
  BY ZenonT(60), <1>0, <1>a, <1>b, <1>1, <1>2, <1>9

\* take_next with an item keeps the slab, and the item is home.
LEMMA TakeNextSomeSlab ==
  ASSUME SlotsInv, SlabExact, ItemsInv, NEW item \in Items, TakeNextSome(item)
  PROVE  SlotsInv' /\ SlabExact' /\ ItemsInv' /\ LiveChildren' = LiveChildren
<1>1. PICK k \in Willing, id \in Ids :
         /\ slots[id].entry = "Live" /\ slots[id].child \in Children
         /\ item \notin DOMAIN outstanding
         /\ ready' \subseteq ready /\ live_ids' = live_ids /\ free' = free
         /\ outstanding' = [i \in DOMAIN outstanding \cup {item} |->
                IF i = item THEN [child |-> slots[id].child, id |-> id] ELSE outstanding[i]]
         /\ slots' \in Seq(Slot) /\ DOMAIN slots' = DOMAIN slots
         /\ slots'[id].in_flight = slots[id].in_flight + 1
         /\ \A i \in Ids : /\ slots'[i].entry = slots[i].entry /\ slots'[i].child = slots[i].child
                           /\ slots'[i].live_pos = slots[i].live_pos
                           /\ i # id => slots'[i].in_flight = slots[i].in_flight
  BY ZenonT(60), TakeNextEffect
<1>3. PICK c : c = slots[id].child
  OBVIOUS
<1>5. SlotsInv' /\ SlabExact' /\ LiveChildren' = LiveChildren
  BY <1>1, SlabKept
<1>6. /\ DOMAIN outstanding' = DOMAIN outstanding \cup {item}
      /\ outstanding'[item] = [child |-> c, id |-> id]
      /\ \A i \in DOMAIN outstanding : outstanding'[i] = outstanding[i]
  BY <1>1, <1>3
<1>7. /\ DOMAIN outstanding \subseteq Items /\ Ids' = Ids
      /\ outstanding \in [DOMAIN outstanding -> [child : Children, id : Ids]]
  BY <1>1 DEF ItemsInv, Ids
<1>8. outstanding' \in [DOMAIN outstanding' -> [child : Children, id : Ids']]
  BY <1>1, <1>3, <1>6, <1>7
<1>9. outstanding'[item].child = c /\ outstanding'[item].id = id
  BY <1>6
<1>10. \A i \in DOMAIN outstanding' : slots'[outstanding'[i].id].child = outstanding'[i].child
  <2>1. ASSUME NEW i \in DOMAIN outstanding
        PROVE  slots'[outstanding'[i].id].child = outstanding'[i].child
    BY <1>1, <1>6, ItemsHome
  <2>2. QED
    BY <1>1, <1>3, <1>6, <1>9, <2>1
<1>11. ASSUME NEW i \in Ids PROVE slots'[i].in_flight = Cardinality(ItemsOf(i)')
  <2>1. /\ IsFiniteSet(ItemsOf(i)) /\ slots[i].in_flight = Cardinality(ItemsOf(i))
        /\ item \notin ItemsOf(i)
    BY <1>1, ItemsCounted DEF ItemsOf
  <2>2. CASE i = id
    <3>1. ItemsOf(i)' = ItemsOf(i) \cup {item}
      BY <1>6, <1>9, <2>2 DEF ItemsOf
    <3>2. QED
      BY ZenonT(60), <1>1, <2>1, <2>2, <3>1, FS_AddElement
  <2>3. CASE i # id
    <3>1. ItemsOf(i)' = ItemsOf(i)
      BY <1>1, <1>6, <1>9, <2>3 DEF ItemsOf
    <3>2. QED
      BY <1>1, <2>1, <2>3, <3>1
  <2>4. QED
    BY <2>2, <2>3
<1>12. RoutesHome'
  BY <1>7, <1>10, <1>11 DEF RoutesHome, ItemsOf
<1>13. QED
  BY <1>1, <1>5, <1>6, <1>7, <1>8, <1>12 DEF ItemsInv

\* on_complete, by its effects: the slot is not free, so it is counted down,

\* and freed with the last item if its child was removed.
LEMMA OnCompleteEffect ==
  ASSUME SlotsInv, SlabExact, ItemsInv, NEW item \in DOMAIN outstanding,
         OnComplete(item), NEW id, id = outstanding[item].id
  PROVE  \E drained \in BOOLEAN :
         /\ drained <=> slots[id].entry = "Draining" /\ slots[id].in_flight = 1
         /\ id \in Ids /\ slots[id].entry # "Free" /\ slots[id].child \in Children
         /\ slots[id].in_flight \in Nat /\ slots[id].in_flight # 0
         /\ slots' \in Seq(Slot) /\ DOMAIN slots' = DOMAIN slots
         /\ slots'[id].in_flight = slots[id].in_flight - 1
         /\ slots'[id].entry = (IF drained THEN "Free" ELSE slots[id].entry)
         /\ slots'[id].child = (IF drained THEN NoChild ELSE slots[id].child)
         /\ slots'[id].generation = slots[id].generation
         /\ slots'[id].live_pos = slots[id].live_pos
         /\ \A i \in Ids : i # id => slots'[i] = slots[i]
         /\ free' = IF drained THEN Append(free, id) ELSE free
<1> DEFINE left == SaturatingSub(slots[id].in_flight, 1)
           drained == slots[id].entry = "Draining" /\ left = 0
<1>1. id \in Ids /\ slots[id].entry # "Free" /\ slots[id].child \in Children
  BY ItemsHome
<1>2. /\ slots \in Seq(Slot) /\ \A i \in Ids : slots[i] \in Slot
      /\ slots[id] \in Slot
  BY <1>1 DEF SlotsInv, Ids
<1>3. slots[id].in_flight \in Nat /\ slots[id].in_flight # 0 /\ slots[id].in_flight \in 0 .. U32Span - 1
  <2>1. item \in ItemsOf(id)
    BY DEF ItemsOf
  <2>2. QED
    BY ZenonT(60), <1>1, <1>2, <2>1, ItemsCounted, RoundRobinAssumption DEF Slot
<1>4. left = slots[id].in_flight - 1 /\ left \in 0 .. U32Span - 1
  BY <1>3, RoundRobinAssumption DEF SaturatingSub
<1>5. /\ slots' = [slots EXCEPT ![id] =
                     IF drained
                     THEN [slots[id] EXCEPT !.in_flight = left, !.entry = "Free", !.child = NoChild]
                     ELSE [slots[id] EXCEPT !.in_flight = left]]
      /\ free' = IF drained THEN Append(free, id) ELSE free
  BY <1>1 DEF OnComplete
<1>6. drained \in BOOLEAN /\ (drained <=> slots[id].entry = "Draining" /\ slots[id].in_flight = 1)
  BY <1>3, <1>4
<1> HIDE DEF left, drained
<1>7. PICK slot : slot = IF drained
                         THEN [slots[id] EXCEPT !.in_flight = left, !.entry = "Free", !.child = NoChild]
                         ELSE [slots[id] EXCEPT !.in_flight = left]
  OBVIOUS
<1>8. /\ slot.in_flight = left /\ slot.entry = (IF drained THEN "Free" ELSE slots[id].entry)
      /\ slot.child = (IF drained THEN NoChild ELSE slots[id].child)
      /\ slot.generation = slots[id].generation /\ slot.live_pos = slots[id].live_pos
      /\ slot \in Slot
  <2>1. CASE drained
    BY <1>2, <1>4, <1>7, <2>1 DEF Slot
  <2>2. CASE ~drained
    BY <1>2, <1>4, <1>7, <2>2 DEF Slot
  <2>3. QED
    BY <2>1, <2>2
<1>9. slots' = [slots EXCEPT ![id] = slot]
  BY <1>5, <1>7
<1>10. /\ slots' \in Seq(Slot) /\ DOMAIN slots' = DOMAIN slots /\ slots'[id] = slot
       /\ \A i \in Ids : i # id => slots'[i] = slots[i]
  BY <1>1, <1>2, <1>8, <1>9 DEF Ids
<1>11. QED
  BY <1>1, <1>3, <1>4, <1>5, <1>6, <1>8, <1>10

\* on_complete keeps the slab and the other items.
LEMMA OnCompleteSlab ==
  ASSUME SlotsInv, SlabExact, ItemsInv, NEW item \in DOMAIN outstanding, OnComplete(item)
  PROVE  SlotsInv' /\ SlabExact' /\ ItemsInv'
<1>1. PICK id : id = outstanding[item].id
  OBVIOUS
<1>2. PICK drained \in BOOLEAN :
         /\ drained <=> slots[id].entry = "Draining" /\ slots[id].in_flight = 1
         /\ id \in Ids /\ slots[id].entry # "Free" /\ slots[id].child \in Children
         /\ slots[id].in_flight \in Nat /\ slots[id].in_flight # 0
         /\ slots' \in Seq(Slot) /\ DOMAIN slots' = DOMAIN slots
         /\ slots'[id].in_flight = slots[id].in_flight - 1
         /\ slots'[id].entry = (IF drained THEN "Free" ELSE slots[id].entry)
         /\ slots'[id].child = (IF drained THEN NoChild ELSE slots[id].child)
         /\ slots'[id].live_pos = slots[id].live_pos
         /\ \A i \in Ids : i # id => slots'[i] = slots[i]
         /\ free' = IF drained THEN Append(free, id) ELSE free
  BY <1>1, OnCompleteEffect
<1>3. /\ live_ids' = live_ids /\ ready' = ready
      /\ outstanding' = [i \in DOMAIN outstanding \ {item} |-> outstanding[i]]
  BY DEF OnComplete
<1>4. /\ live_ids \in Seq(Ids) /\ free \in Seq(Ids)
      /\ IsInjective(live_ids) /\ IsInjective(free)
      /\ \A i \in Ids : i \in ToSet(live_ids) <=> slots[i].entry = "Live"
      /\ \A i \in Ids : i \in ToSet(free) <=> slots[i].entry = "Free"
      /\ ToSet(live_ids) \subseteq Ids /\ ToSet(free) \subseteq Ids
  BY SlabFacts DEF ToSet
<1>5. Ids' = Ids
  BY <1>2 DEF Ids
<1>6. \A i \in Ids : /\ slots'[i].entry = "Live" <=> slots[i].entry = "Live"
                     /\ slots'[i].live_pos = slots[i].live_pos
                     /\ slots'[i].entry # "Free" => /\ slots[i].entry # "Free"
                                                    /\ slots'[i].child = slots[i].child
  BY <1>2
<1>7. ToSet(live_ids') = {i \in Ids' : IsLive(i)'}
  BY <1>3, <1>4, <1>5, <1>6 DEF IsLive
<1>8. \A p \in DOMAIN live_ids' : slots'[live_ids'[p]].live_pos = p
  <2>1. \A p \in DOMAIN live_ids : live_ids[p] \in Ids /\ slots[live_ids[p]].live_pos = p
    BY <1>4 DEF SlabExact
  <2>2. QED
    BY <1>3, <1>6, <2>1
<1>9. /\ free' \in Seq(Ids) /\ IsInjective(free')
      /\ ToSet(free') = IF drained THEN ToSet(free) \cup {id} ELSE ToSet(free)
  <2>1. CASE drained
    <3>1. free' = Append(free, id) /\ id \notin ToSet(free)
      BY <1>2, <1>4, <2>1
    <3>2. QED
      BY <1>2, <1>4, <2>1, <3>1, AppendOrder
  <2>2. CASE ~drained
    BY <1>2, <1>4, <2>2
  <2>3. QED
    BY <2>1, <2>2
<1>10. ToSet(free') = {i \in Ids' : slots'[i].entry = "Free"}
  <2>1. \A i \in Ids : i \in ToSet(free') <=> slots'[i].entry = "Free"
    BY <1>2, <1>4, <1>9
  <2>2. ToSet(free') \subseteq Ids
    BY <1>2, <1>4, <1>9
  <2>3. QED
    BY <1>5, <2>1, <2>2
<1>11. SlabExact'
  BY <1>7, <1>8, <1>9, <1>10 DEF SlabExact, IsInjective
<1>12. \A i \in Ids : IF slots'[i].entry = "Free" THEN slots'[i].in_flight = 0
                                               ELSE slots'[i].child \in Children
  <2>1. IF slots'[id].entry = "Free" THEN slots'[id].in_flight = 0
                                     ELSE slots'[id].child \in Children
    BY <1>2
  <2>2. QED
    BY <1>2, <2>1 DEF SlotsInv
<1>13. \A i, j \in Ids : /\ slots'[i].entry # "Free" /\ slots'[j].entry # "Free"
                         /\ slots'[i].child = slots'[j].child
                         => i = j
  <2>1. \A i, j \in Ids : /\ slots[i].entry # "Free" /\ slots[j].entry # "Free"
                          /\ slots[i].child = slots[j].child
                          => i = j
    BY DEF SlotsInv
  <2>2. QED
    BY <1>6, <2>1
<1>14. ready' \subseteq LiveChildren'
  <2>1. ASSUME NEW d \in ready PROVE d \in LiveChildren'
    <3>1. PICK i \in Ids : IsLive(i) /\ slots[i].child = d
      BY DEF SlotsInv, LiveChildren
    <3>2. slots'[i].entry = "Live" /\ slots'[i].child = d
      BY <1>6, <3>1 DEF IsLive
    <3>3. QED
      BY <1>5, <3>1, <3>2 DEF LiveChildren, IsLive
  <2>2. QED
    BY <1>3, <2>1
<1>15. SlotsInv'
  <2>1. live_ids' \in Seq(Ids') /\ free' \in Seq(Ids')
    BY <1>3, <1>4, <1>5, <1>9
  <2>2. QED
    BY <1>2, <1>5, <1>12, <1>13, <1>14, <2>1 DEF SlotsInv
<1>16. /\ DOMAIN outstanding' = DOMAIN outstanding \ {item}
       /\ \A i \in DOMAIN outstanding' : outstanding'[i] = outstanding[i]
  BY <1>3
<1>17. /\ DOMAIN outstanding \subseteq Items
       /\ outstanding' \in [DOMAIN outstanding' -> [child : Children, id : Ids']]
  BY <1>3, <1>5, <1>16 DEF ItemsInv
<1>18. ASSUME NEW i \in Ids PROVE slots'[i].in_flight = Cardinality(ItemsOf(i)')
  <2>1. /\ IsFiniteSet(ItemsOf(i)) /\ slots[i].in_flight = Cardinality(ItemsOf(i))
    BY ItemsCounted
  <2>2. CASE i = id
    <3>1. ItemsOf(i)' = ItemsOf(i) \ {item} /\ item \in ItemsOf(i)
      BY <1>1, <1>16, <2>2 DEF ItemsOf
    <3>2. QED
      BY ZenonT(60), <1>2, <2>1, <2>2, <3>1, FS_RemoveElement
  <2>3. CASE i # id
    <3>1. ItemsOf(i)' = ItemsOf(i)
      BY <1>1, <1>16, <2>3 DEF ItemsOf
    <3>2. QED
      BY <1>2, <2>1, <2>3, <3>1
  <2>4. QED
    BY <2>2, <2>3
<1>19. ASSUME NEW i \in DOMAIN outstanding'
       PROVE  slots'[outstanding'[i].id].child = outstanding'[i].child
  <2>1. PICK j : j = outstanding[i].id
    OBVIOUS
  <2>2. i \in DOMAIN outstanding /\ i # item /\ outstanding'[i] = outstanding[i]
    BY <1>16
  <2>3. j \in Ids /\ slots[j].entry # "Free" /\ slots[j].child = outstanding[i].child
    BY <2>1, <2>2, ItemsHome
  <2>4. slots'[j].entry # "Free"
    <3>1. CASE j = id
      <4>1. i \in ItemsOf(id) /\ item \in ItemsOf(id)
        BY <1>1, <2>1, <2>2, <3>1 DEF ItemsOf
      <4>2. IsFiniteSet(ItemsOf(id)) /\ slots[id].in_flight = Cardinality(ItemsOf(id))
        BY <1>2, ItemsCounted
      <4>3. slots[id].in_flight # 1
        <5>1. SUFFICES ASSUME Cardinality(ItemsOf(id)) = 1 PROVE FALSE
          BY <4>2
        <5>2. PICK x : ItemsOf(id) = {x}
          BY <4>2, <5>1, FS_Singleton
        <5>3. QED
          BY <2>2, <4>1, <5>2
      <4>4. QED
        BY <1>2, <3>1, <4>3
    <3>2. CASE j # id
      BY <1>2, <2>3, <3>2
    <3>3. QED
      BY <3>1, <3>2
  <2>5. QED
    BY <1>6, <2>1, <2>2, <2>3, <2>4
<1>20. RoutesHome'
  BY <1>5, <1>18, <1>19 DEF RoutesHome, ItemsOf
<1>21. QED
  BY <1>11, <1>15, <1>16, <1>17, <1>20 DEF ItemsInv

\* What the children do, and take_next without an item, leave the slab alone.
LEMMA OthersSlab ==
  ASSUME SlotsInv, SlabExact, ItemsInv,
         TakeNextNone \/ (\E c \in Children : ChildChanges(c)) \/ UNCHANGED roundRobinVars
  PROVE  SlotsInv' /\ SlabExact' /\ ItemsInv'
<1>1. UNCHANGED <<slots, live_ids, free, outstanding>>
  BY DEF TakeNextNone, ChildChanges, roundRobinVars
<1>2. Ids' = Ids /\ LiveChildren' = LiveChildren
  BY <1>1 DEF Ids, LiveChildren, IsLive
<1>3. ready' \subseteq LiveChildren
  BY DEF TakeNextNone, ChildChanges, roundRobinVars, SlotsInv
<1>4. SlotsInv'
  BY <1>1, <1>2, <1>3 DEF SlotsInv
<1>5. SlabExact' /\ ItemsInv'
  BY <1>1, <1>2 DEF SlabExact, ItemsInv, RoutesHome, IsLive
<1>6. QED
  BY <1>4, <1>5

-----------------------------------------------------------------------------
(***************************************************************************)
(* The rotation.                                                           *)
(***************************************************************************)

\* f lists the positions in pos in their order.
Lists(f, pos) ==
  /\ f \in [1 .. Cardinality(pos) -> pos]
  /\ \A i, j \in 1 .. Cardinality(pos) : i < j => f[i] < f[j]
  /\ \A p \in pos : \E i \in 1 .. Cardinality(pos) : f[i] = p

\* retain keeps the entries at the positions in pos, in their order.
LEMMA Retained ==
  ASSUME NEW S, NEW s \in Seq(S), NEW pos, \A p \in pos : p \in 1 .. Len(s)
  PROVE  /\ IsFiniteSet(pos) /\ Cardinality(pos) \in Nat
         /\ Retain(s, pos) \in Seq(S) /\ Len(Retain(s, pos)) = Cardinality(pos)
         /\ \E f : /\ Lists(f, pos)
                   /\ \A i \in 1 .. Cardinality(pos) : Retain(s, pos)[i] = s[f[i]]
<1> DEFINE Below(k) == {j \in pos : j < k}
           n == Cardinality(pos)
           r == [k \in pos |-> Cardinality(Below(k)) + 1]
           f == [i \in 1 .. n |-> CHOOSE k \in pos : Cardinality(Below(k)) = i - 1]
<1>1. Len(s) \in Nat /\ IsFiniteSet(1 .. Len(s)) /\ pos \in SUBSET (1 .. Len(s))
  BY FS_Interval
<1>0. \A p \in pos : p \in Int /\ s[p] \in S
  OBVIOUS
<1>2. IsFiniteSet(pos) /\ n \in Nat
  BY <1>1, FS_Subset, FS_CardinalityType
<1>3. ASSUME NEW k \in pos
      PROVE  /\ IsFiniteSet(Below(k)) /\ Cardinality(Below(k)) \in Nat
             /\ Cardinality(Below(k)) + 1 <= n
  <2>1. Below(k) \in SUBSET pos /\ k \notin Below(k)
    BY <1>1
  <2>2. IsFiniteSet(Below(k)) /\ Cardinality(Below(k)) \in Nat
    BY <1>2, <2>1, FS_Subset, FS_CardinalityType
  <2> HIDE DEF Below, n
  <2>3. Cardinality(Below(k) \cup {k}) = Cardinality(Below(k)) + 1
    BY <2>1, <2>2, FS_AddElement
  <2>4. Below(k) \cup {k} \in SUBSET pos
    BY <2>1
  <2>5. Cardinality(Below(k) \cup {k}) <= Cardinality(pos)
    BY <1>2, <2>4, FS_Subset
  <2>6. QED
    BY <2>2, <2>3, <2>5 DEF n
<1>4. ASSUME NEW j \in pos, NEW k \in pos, j < k
      PROVE  Cardinality(Below(j)) < Cardinality(Below(k))
  <2>0. j \in Int /\ k \in Int /\ \A x \in Below(j) : x \in Int /\ x < j /\ x \in pos
    BY <1>0
  <2>1. Below(j) \cup {j} \in SUBSET Below(k) /\ j \notin Below(j)
    <3>1. \A x \in Below(j) : x \in Below(k)
      BY <1>4, <2>0
    <3>2. j \in Below(k) /\ j \notin Below(j)
      BY <1>4, <2>0
    <3>3. QED
      BY <3>1, <3>2
  <2>2. /\ IsFiniteSet(Below(j)) /\ Cardinality(Below(j)) \in Nat
        /\ IsFiniteSet(Below(k)) /\ Cardinality(Below(k)) \in Nat
    BY <1>3
  <2> HIDE DEF Below
  <2>3. Cardinality(Below(j) \cup {j}) = Cardinality(Below(j)) + 1
    BY <2>1, <2>2, FS_AddElement
  <2>4. Cardinality(Below(j) \cup {j}) <= Cardinality(Below(k))
    BY <2>1, <2>2, FS_Subset
  <2>5. QED
    BY <2>2, <2>3, <2>4
<1> HIDE DEF Below
<1>5. r \in Injection(pos, 1 .. n)
  <2>1. \A k \in pos : r[k] \in 1 .. n
    BY <1>2, <1>3
  <2>2. ASSUME NEW j \in pos, NEW k \in pos, r[j] = r[k] PROVE j = k
    <3>1. j \in Int /\ k \in Int /\ Cardinality(Below(j)) \in Nat /\ Cardinality(Below(k)) \in Nat
      BY <1>1, <1>3
    <3>2. Cardinality(Below(j)) = Cardinality(Below(k))
      BY <2>2, <3>1
    <3>3. ~(j < k) /\ ~(k < j)
      BY <1>4, <3>1, <3>2
    <3>4. QED
      BY <3>1, <3>3
  <2>3. QED
    BY <2>1, <2>2 DEF Injection, IsInjective
<1>6. Cardinality(1 .. n) = n /\ IsFiniteSet(1 .. n)
  BY <1>2, FS_Interval
<1> HIDE DEF r
<1>7. r \in Surjection(pos, 1 .. n)
  BY <1>5, <1>6, FS_Injection
<1>8. ASSUME NEW i \in 1 .. n PROVE \E k \in pos : Cardinality(Below(k)) = i - 1
  <2>1. PICK k \in pos : r[k] = i
    BY <1>7 DEF Surjection
  <2>2. Cardinality(Below(k)) \in Nat /\ Cardinality(Below(k)) + 1 = i
    BY <1>3, <2>1 DEF r
  <2>3. QED
    BY <2>2
<1>9. ASSUME NEW i \in 1 .. n PROVE f[i] \in pos /\ Cardinality(Below(f[i])) = i - 1
  BY <1>8
<1>10. /\ f \in [1 .. n -> pos]
  BY <1>9
<1>11. Retain(s, pos) = [i \in 1 .. n |-> s[f[i]]]
  BY DEF Retain, Below
<1> HIDE DEF f
<1>12. ASSUME NEW i \in 1 .. n, NEW j \in 1 .. n, i < j PROVE f[i] < f[j]
  <2>1. f[i] \in pos /\ f[j] \in pos /\ f[i] \in Int /\ f[j] \in Int
    BY <1>0, <1>9
  <2>2. Cardinality(Below(f[i])) = i - 1 /\ Cardinality(Below(f[j])) = j - 1
    BY <1>9
  <2>3. ~(f[j] < f[i])
    <3>1. f[j] < f[i] => Cardinality(Below(f[j])) < Cardinality(Below(f[i]))
      BY <1>4, <2>1
    <3>2. QED
      BY <1>2, <1>12, <2>2, <3>1
  <2>4. f[i] # f[j]
    BY <1>2, <1>12, <2>2
  <2>5. QED
    BY <2>1, <2>3, <2>4
<1>13. ASSUME NEW p \in pos PROVE \E i \in 1 .. n : f[i] = p
  <2>1. PICK i : i = Cardinality(Below(p)) + 1
    OBVIOUS
  <2>2. i \in 1 .. n /\ Cardinality(Below(p)) = i - 1
    BY <1>2, <1>3, <2>1
  <2>3. f[i] \in pos /\ Cardinality(Below(f[i])) = i - 1
    BY <1>9, <2>2
  <2>4. f[i] \in Int /\ p \in Int /\ i \in Int
    BY <1>0, <2>2, <2>3
  <2>5. ~(f[i] < p) /\ ~(p < f[i])
    BY <1>4, <2>2, <2>3, <2>4
  <2>6. QED
    BY <2>2, <2>4, <2>5
<1>14. Lists(f, pos)
  BY <1>10, <1>12, <1>13 DEF Lists
<1>15. Retain(s, pos) \in Seq(S) /\ Len(Retain(s, pos)) = n
  <2>1. \A i \in 1 .. n : s[f[i]] \in S
    BY <1>0, <1>9
  <2>2. QED
    BY <1>2, <1>11, <2>1
<1>16. \A i \in 1 .. n : Retain(s, pos)[i] = s[f[i]]
  BY <1>11
<1>17. QED
  BY <1>2, <1>14, <1>15, <1>16

\* What an age says: current are the entries of age 0 of live slots.
LEMMA CurrentAges ==
  ASSUME NEW sl \in Seq(Slot), NEW q, NEW ages, Aged(sl, q, ages), NEW k \in DOMAIN q
  PROVE  Current(sl, q[k]) <=> sl[q[k][1]].entry = "Live" /\ ages[k] = 0
<1>1. PICK i, g, a : i = q[k][1] /\ g = sl[i].generation /\ a = ages[k]
  OBVIOUS
<1>2. /\ i \in DOMAIN sl /\ a \in 0 .. U32Span - 1
      /\ q[k][2] = IF a <= g THEN g - a ELSE g - a + U32Span
  BY <1>1 DEF Aged
<1>3. U32Span \in Nat /\ g \in 0 .. U32Span - 1
  <2>1. sl[i] \in Slot
    BY <1>2
  <2>2. QED
    BY <1>1, <2>1, RoundRobinAssumption DEF Slot
<1>4. q[k][2] = g <=> a = 0
  BY <1>2, <1>3
<1>5. QED
  BY <1>1, <1>2, <1>4 DEF Current

\* Ages outlive a removal: fewer slots are live, their generations stay.
LEMMA AgedFewer ==
  ASSUME NEW sl, NEW sm, NEW q, NEW ages, Aged(sl, q, ages), DOMAIN sm = DOMAIN sl,
         \A i \in DOMAIN sl : /\ sm[i].generation = sl[i].generation
                              /\ sm[i].entry = "Live" => sl[i].entry = "Live"
  PROVE  Aged(sm, q, ages)
<1>1. \A k \in DOMAIN q :
       /\ q[k][1] \in DOMAIN sm /\ ages[k] \in 0 .. U32Span - 1
       /\ LET g == sm[q[k][1]].generation
          IN  q[k][2] = IF ages[k] <= g THEN g - ages[k] ELSE g - ages[k] + U32Span
  BY DEF Aged
<1>2. \A i \in DOMAIN sm : sm[i].entry = "Live" => \E k \in DOMAIN q : q[k][1] = i /\ ages[k] = 0
  BY DEF Aged
<1>3. QED
  BY <1>1, <1>2 DEF Aged

\* t holds entries of the rotation q: the current ones, at the back, and with
\* another one everything behind it.
Reorders(f, sl, q, t) ==
  /\ f \in [DOMAIN t -> DOMAIN q]
  /\ \A i, j \in DOMAIN t : f[i] = f[j] => i = j
  /\ \A i \in DOMAIN t : t[i] = q[f[i]]
  /\ \A k \in DOMAIN q : Current(sl, q[k]) => \E i \in DOMAIN t : f[i] = k
  /\ \A i \in DOMAIN t : \/ Current(sl, q[f[i]])
                         \/ \A k \in DOMAIN q : k > f[i] => \E j \in DOMAIN t : f[j] = k
  /\ \A i, j \in DOMAIN t : i < j => f[i] < f[j] \/ Current(sl, q[f[j]])

\* Then the entries keep their ages.
LEMMA ReorderedAges ==
  ASSUME NEW sl \in Seq(Slot), NEW X, NEW q \in Seq(X), NEW t \in Seq(X),
         NEW ages, Aged(sl, q, ages),
         NEW f, Reorders(f, sl, q, t), NEW b, b = [i \in DOMAIN t |-> ages[f[i]]]
  PROVE  Aged(sl, t, b)
<1>1. \A i \in DOMAIN t : f[i] \in DOMAIN q /\ t[i] = q[f[i]] /\ b[i] = ages[f[i]]
  BY DEF Reorders
<1>2. \A k \in DOMAIN q :
       /\ q[k][1] \in DOMAIN sl /\ ages[k] \in 0 .. U32Span - 1
       /\ LET g == sl[q[k][1]].generation
          IN  q[k][2] = IF ages[k] <= g THEN g - ages[k] ELSE g - ages[k] + U32Span
  BY DEF Aged
<1>3. \A k \in DOMAIN q : k \in Nat /\ ages[k] \in Nat
  BY <1>2, RoundRobinAssumption
<1>4. \A k, m \in DOMAIN q : q[k][1] = q[m][1] /\ k < m => ages[m] < ages[k]
  BY DEF Aged
<1>5. \A k \in DOMAIN q : Current(sl, q[k]) <=> sl[q[k][1]].entry = "Live" /\ ages[k] = 0
  BY CurrentAges
<1>6. \A i \in DOMAIN t :
       /\ t[i][1] \in DOMAIN sl /\ b[i] \in 0 .. U32Span - 1
       /\ LET g == sl[t[i][1]].generation
          IN  t[i][2] = IF b[i] <= g THEN g - b[i] ELSE g - b[i] + U32Span
  BY <1>1, <1>2
<1>7. ASSUME NEW i \in DOMAIN t, NEW j \in DOMAIN t, t[i][1] = t[j][1], i < j
      PROVE  b[j] < b[i]
  <2>1. f[i] # f[j] /\ f[i] \in DOMAIN q /\ f[j] \in DOMAIN q /\ q[f[i]][1] = q[f[j]][1]
    <3>1. i \in Nat /\ j \in Nat
      OBVIOUS
    <3>2. QED
      BY <1>1, <1>7, <3>1 DEF Reorders
  <2>2. CASE f[i] < f[j]
    BY <1>1, <1>4, <2>1, <2>2
  <2>3. CASE ~(f[i] < f[j])
    <3>1. ages[f[j]] = 0
      BY <1>5, <1>7, <2>1, <2>3 DEF Reorders
    <3>2. f[j] < f[i]
      BY <1>3, <2>1, <2>3
    <3>3. ages[f[i]] < ages[f[j]]
      BY <1>4, <2>1, <3>2
    <3>4. QED
      BY <1>3, <2>1, <3>1, <3>3
  <2>4. QED
    BY <2>2, <2>3
<1>8. ASSUME NEW i \in DOMAIN t, NEW n \in Nat, n < b[i]
      PROVE  \E m \in DOMAIN t : t[m][1] = t[i][1] /\ b[m] = n
  <2>1. PICK k : k = f[i]
    OBVIOUS
  <2>2. k \in DOMAIN q /\ k \in Nat /\ ages[k] \in Nat /\ n < ages[k] /\ t[i] = q[k]
    BY <1>1, <1>3, <1>8, <2>1
  <2>3. PICK m \in DOMAIN q : q[m][1] = q[k][1] /\ ages[m] = n
    BY <2>2 DEF Aged
  <2>4. m > k
    <3>1. m \in Nat /\ m # k
      BY <1>3, <2>2, <2>3
    <3>2. ~(m < k)
      <4>1. m < k => ages[k] < ages[m]
        BY <1>4, <2>2, <2>3
      <4>2. QED
        BY <2>2, <2>3, <4>1
    <3>3. QED
      BY <2>2, <3>1, <3>2
  <2>5. ~Current(sl, q[k])
    BY <1>5, <2>2
  <2>6. PICK j \in DOMAIN t : f[j] = m
    BY <2>1, <2>3, <2>4, <2>5 DEF Reorders
  <2>7. QED
    BY <1>1, <2>2, <2>3, <2>6
<1>9. ASSUME NEW x \in DOMAIN sl, sl[x].entry = "Live"
      PROVE  \E i \in DOMAIN t : t[i][1] = x /\ b[i] = 0
  <2>1. PICK k \in DOMAIN q : q[k][1] = x /\ ages[k] = 0
    BY <1>9 DEF Aged
  <2>2. PICK i \in DOMAIN t : f[i] = k
    BY <1>5, <1>9, <2>1 DEF Reorders
  <2>3. QED
    BY <1>1, <2>1, <2>2
<1>10. QED
  BY <1>6, <1>7, <1>8, <1>9 DEF Aged

\* The rotation after its first n entries were asked: the rest as it was, and

\* the current ones of the n behind it.
LEMMA RotatedPlaces ==
  ASSUME NEW X, queue \in Seq(X), NEW n \in 0 .. Len(queue), NEW t, t = Rotated(n)
  PROVE  /\ t \in Seq(X)
         /\ \E f : /\ Reorders(f, slots, queue, t)
                   /\ \A i \in DOMAIN t : f[i] > n => f[i] = n + i
                   /\ \A i \in DOMAIN t : f[i] > n \/ Current(slots, queue[f[i]])
                   /\ \A k \in DOMAIN queue : k > n => \E i \in DOMAIN t : f[i] = k
<1>1. PICK q, L, C, m : q = queue /\ L = Len(q) /\ C = CurrentIn(n) /\ m = Cardinality(C)
  OBVIOUS
<1>2. q \in Seq(X) /\ L \in Nat /\ n \in 0 .. L /\ DOMAIN q = 1 .. L
  BY <1>1
<1>3. \A k : k \in C <=> k \in 1 .. n /\ Current(slots, q[k])
  BY <1>1 DEF CurrentIn
<1>4. PICK g : /\ Lists(g, C) /\ m \in Nat /\ Retain(q, C) \in Seq(X) /\ Len(Retain(q, C)) = m
               /\ \A i \in 1 .. m : Retain(q, C)[i] = q[g[i]]
  <2>1. \A k \in C : k \in 1 .. L
    BY <1>2, <1>3
  <2>2. QED
    BY <1>1, <1>2, <2>1, Retained
<1>5. /\ \A i \in 1 .. m : g[i] \in C
      /\ \A i, j \in 1 .. m : i < j => g[i] < g[j]
      /\ \A k \in C : \E i \in 1 .. m : g[i] = k
  BY <1>1, <1>4 DEF Lists
<1>6. PICK rest, kept : rest = SubSeq(q, n + 1, L) /\ kept = Retain(q, C)
  OBVIOUS
<1>7. /\ rest \in Seq(X) /\ Len(rest) = L - n
      /\ \A i \in 1 .. L - n : rest[i] = q[n + i]
  BY <1>1, <1>2, <1>6
<1>8. kept \in Seq(X) /\ Len(kept) = m /\ \A i \in 1 .. m : kept[i] = q[g[i]]
  BY <1>4, <1>6
<1>9. t = rest \o kept
  BY <1>1, <1>6 DEF Rotated
<1>10. /\ t \in Seq(X) /\ Len(t) = L - n + m /\ DOMAIN t = 1 .. L - n + m
       /\ \A i \in 1 .. L - n + m :
            t[i] = IF i <= L - n THEN rest[i] ELSE kept[i - (L - n)]
  <2>1. /\ t \in Seq(X) /\ Len(t) = Len(rest) + Len(kept)
        /\ \A i \in 1 .. Len(rest) + Len(kept) :
             t[i] = IF i <= Len(rest) THEN rest[i] ELSE kept[i - Len(rest)]
    BY <1>7, <1>8, <1>9, ConcatProperties
  <2>2. QED
    BY <1>2, <1>4, <1>7, <1>8, <2>1
<1> DEFINE f == [i \in DOMAIN t |-> IF i <= L - n THEN n + i ELSE g[i - (L - n)]]
<1>11. ASSUME NEW i \in DOMAIN t, i <= L - n
       PROVE  f[i] = n + i /\ f[i] > n /\ f[i] \in 1 .. L /\ t[i] = q[f[i]]
  <2>1. i \in 1 .. L - n
    BY <1>2, <1>4, <1>10, <1>11
  <2>2. f[i] = n + i /\ t[i] = q[n + i]
    BY <1>7, <1>10, <1>11, <2>1
  <2>3. QED
    BY <1>2, <2>1, <2>2
<1>12. ASSUME NEW i \in DOMAIN t, ~(i <= L - n)
       PROVE  /\ i - (L - n) \in 1 .. m /\ f[i] = g[i - (L - n)] /\ f[i] \in C
              /\ f[i] \in 1 .. n /\ f[i] \in 1 .. L /\ t[i] = q[f[i]]
  <2>1. PICK j : j = i - (L - n)
    OBVIOUS
  <2>2. j \in 1 .. m
    BY <1>2, <1>4, <1>10, <1>12, <2>1
  <2>3. f[i] = g[j] /\ t[i] = kept[j]
    BY <1>10, <1>12, <2>1
  <2>4. f[i] \in C /\ t[i] = q[f[i]]
    BY <1>5, <1>8, <2>2, <2>3
  <2>5. f[i] \in 1 .. n /\ f[i] \in 1 .. L
    BY <1>2, <1>3, <2>4
  <2>6. QED
    BY <2>1, <2>2, <2>3, <2>4, <2>5
<1>13. ASSUME NEW k \in 1 .. L, k > n PROVE \E i \in DOMAIN t : f[i] = k
  <2>1. k - n \in DOMAIN t /\ k - n <= L - n
    BY <1>2, <1>4, <1>10, <1>13
  <2>2. f[k - n] = k
    BY <1>2, <1>11, <2>1
  <2>3. QED
    BY <2>1, <2>2
<1>14. ASSUME NEW k \in C PROVE \E i \in DOMAIN t : f[i] = k
  <2>1. PICK j \in 1 .. m : g[j] = k
    BY <1>5
  <2>2. PICK i : i = L - n + j
    OBVIOUS
  <2>3. i \in DOMAIN t /\ ~(i <= L - n) /\ i - (L - n) = j
    BY <1>2, <1>4, <1>10, <2>2
  <2>4. QED
    BY <1>12, <2>1, <2>3
<1> HIDE DEF f
<1>15. \A i \in DOMAIN t : f[i] \in DOMAIN q /\ t[i] = q[f[i]] /\ (f[i] > n => f[i] = n + i)
                           /\ (f[i] > n \/ Current(slots, q[f[i]]))
  <2> SUFFICES ASSUME NEW i \in DOMAIN t
               PROVE  /\ f[i] \in 1 .. L /\ t[i] = q[f[i]] /\ (f[i] > n => f[i] = n + i)
                      /\ (f[i] > n \/ Current(slots, q[f[i]]))
    BY <1>2
  <2>1. CASE i <= L - n
    BY <1>11, <2>1
  <2>2. CASE ~(i <= L - n)
    <3>1. f[i] \in C /\ f[i] \in 1 .. n /\ f[i] \in 1 .. L /\ t[i] = q[f[i]]
      BY <1>12, <2>2
    <3>2. Current(slots, q[f[i]]) /\ ~(f[i] > n)
      BY <1>2, <1>3, <3>1
    <3>3. QED
      BY <3>1, <3>2
  <2>3. QED
    BY <2>1, <2>2
<1>16. ASSUME NEW i \in DOMAIN t, NEW j \in DOMAIN t, i < j
       PROVE  f[i] < f[j] \/ (f[i] # f[j] /\ Current(slots, q[f[j]]))
  <2>0. i \in Int /\ j \in Int /\ L - n \in Int
    BY <1>2, <1>10
  <2>1. CASE j <= L - n
    <3>1. i <= L - n
      BY <1>16, <2>0, <2>1
    <3>2. f[i] = n + i /\ f[j] = n + j
      BY <1>11, <2>1, <3>1
    <3>3. QED
      BY <1>2, <1>16, <2>0, <3>2
  <2>2. CASE ~(j <= L - n) /\ i <= L - n
    <3>1. f[i] > n /\ f[i] \in 1 .. L /\ f[j] \in C /\ f[j] \in 1 .. n
      BY <1>11, <1>12, <2>2
    <3>2. QED
      BY <1>2, <1>3, <3>1
  <2>3. CASE ~(j <= L - n) /\ ~(i <= L - n)
    <3>1. PICK x, y : x = i - (L - n) /\ y = j - (L - n)
      OBVIOUS
    <3>2. x \in 1 .. m /\ y \in 1 .. m /\ f[i] = g[x] /\ f[j] = g[y]
      BY <1>12, <2>3, <3>1
    <3>3. x < y
      BY <1>2, <1>16, <2>0, <3>1
    <3>4. QED
      BY <1>5, <3>2, <3>3
  <2>4. QED
    BY <2>1, <2>2, <2>3
<1>17. ASSUME NEW i \in DOMAIN t, NEW j \in DOMAIN t, f[i] = f[j] PROVE i = j
  <2>1. i \in Int /\ j \in Int /\ f[i] \in Int /\ f[j] \in Int
    BY <1>2, <1>10, <1>15
  <2>2. ~(i < j) /\ ~(j < i)
    BY <1>16, <1>17, <2>1
  <2>3. QED
    BY <2>1, <2>2
<1>18. ASSUME NEW k \in DOMAIN q, Current(slots, q[k]) PROVE \E i \in DOMAIN t : f[i] = k
  BY <1>2, <1>3, <1>13, <1>14, <1>18
<1>19. ASSUME NEW i \in DOMAIN t, ~Current(slots, q[f[i]]), NEW k \in DOMAIN q, k > f[i]
       PROVE  \E j \in DOMAIN t : f[j] = k
  <2>1. f[i] > n /\ f[i] \in 1 .. L
    BY <1>2, <1>15, <1>19
  <2>2. k > n
    BY <1>2, <1>19, <2>1
  <2>3. QED
    BY <1>2, <1>13, <2>2
<1>20. f \in [DOMAIN t -> DOMAIN q]
  BY <1>15 DEF f
<1>21. Reorders(f, slots, q, t)
  BY <1>15, <1>16, <1>17, <1>18, <1>19, <1>20 DEF Reorders
<1>22. \A k \in DOMAIN q : k > n => \E i \in DOMAIN t : f[i] = k
  BY <1>2, <1>13
<1>23. /\ \A i \in DOMAIN t : f[i] > n => f[i] = n + i
       /\ \A i \in DOMAIN t : f[i] > n \/ Current(slots, q[f[i]])
  BY <1>15
<1>24. queue = q /\ t \in Seq(X)
  BY <1>1, <1>10
<1>25. QED
  BY <1>21, <1>22, <1>23, <1>24

\* The positions of the stale entries.
StaleAt(sl, q) == {k \in DOMAIN q : ~Current(sl, q[k])}

LEMMA StaleFinite ==
  ASSUME NEW X, NEW q \in Seq(X), NEW sl
  PROVE  IsFiniteSet(StaleAt(sl, q)) /\ Cardinality(StaleAt(sl, q)) \in Nat
<1>1. IsFiniteSet(DOMAIN q)
  BY FS_Interval
<1>2. StaleAt(sl, q) \in SUBSET DOMAIN q
  BY DEF StaleAt
<1>3. QED
  BY <1>1, <1>2, FS_Subset, FS_CardinalityType

\* Among all entries, StaleIn counts these.
LEMMA StaleSet ==
  ASSUME NEW X, NEW q \in Seq(X), NEW sl
  PROVE  StaleAt(sl, q) = 1 .. Len(q) \ {k \in 1 .. Len(q) : Current(sl, q[k])}
<1>1. DOMAIN q = 1 .. Len(q)
  OBVIOUS
<1>2. QED
  BY <1>1 DEF StaleAt

\* The invariant of the rotation, in the terms its proofs use.
LEMMA RotationFacts ==
  ASSUME RotationInv
  PROVE  /\ queue \in Seq(Ids \X (0 .. U32Span - 1))
         /\ \E ages \in [DOMAIN queue -> Nat] : Aged(slots, queue, ages)
         /\ stale \in Nat /\ stale = Cardinality(StaleAt(slots, queue))
         /\ stale <= Len(live_ids) /\ stale < U32Span
<1>1. queue \in Seq(Ids \X (0 .. U32Span - 1))
  BY DEF RotationInv
<1>2. StaleAt(slots, queue) = 1 .. Len(queue) \ CurrentIn(Len(queue))
  BY <1>1, StaleSet DEF CurrentIn
<1>3. QED
  BY <1>2 DEF RotationInv, StaleIn

\* And what establishes it.
LEMMA RotationHolds ==
  ASSUME queue' \in Seq(Ids' \X (0 .. U32Span - 1)),
         NEW ages \in [DOMAIN queue' -> Nat], Aged(slots', queue', ages),
         stale' \in Nat, stale' = Cardinality(StaleAt(slots', queue')),
         stale' <= Len(live_ids'), stale' < U32Span
  PROVE  RotationInv'
<1>1. StaleAt(slots', queue') = 1 .. Len(queue') \ CurrentIn(Len(queue))'
  <2>1. PICK q, sl : q = queue' /\ sl = slots'
    OBVIOUS
  <2>2. StaleAt(sl, q) = 1 .. Len(q) \ {k \in 1 .. Len(q) : Current(sl, q[k])}
    BY <2>1, StaleSet
  <2>3. QED
    BY <2>1, <2>2 DEF CurrentIn
<1>2. stale' = StaleIn(Len(queue))'
  BY <1>1 DEF StaleIn
<1>3. QED
  BY <1>2 DEF RotationInv

\* Asking the first n entries drops the stale ones among them and no other.
LEMMA RotatedStale ==
  ASSUME NEW X, queue \in Seq(X), NEW n \in 0 .. Len(queue), NEW t, t = Rotated(n)
  PROVE  /\ StaleIn(n) \in Nat /\ StaleIn(n) <= Cardinality(StaleAt(slots, queue))
         /\ Cardinality(StaleAt(slots, t)) = Cardinality(StaleAt(slots, queue)) - StaleIn(n)
<1> DEFINE A == 1 .. n \ CurrentIn(n)
           B == {k \in DOMAIN queue : k > n /\ ~Current(slots, queue[k])}
           S == StaleAt(slots, t)
<1>1. PICK f : /\ Reorders(f, slots, queue, t) /\ t \in Seq(X)
               /\ \A i \in DOMAIN t : f[i] > n \/ Current(slots, queue[f[i]])
               /\ \A k \in DOMAIN queue : k > n => \E i \in DOMAIN t : f[i] = k
  BY RotatedPlaces
<1>2. DOMAIN queue = 1 .. Len(queue) /\ Len(queue) \in Nat
  OBVIOUS
<1>3. StaleAt(slots, queue) = A \cup B /\ A \cap B = {}
  <2>1. \A k \in A \cup B : k \in StaleAt(slots, queue)
    BY <1>2 DEF StaleAt, CurrentIn
  <2>2. \A k \in StaleAt(slots, queue) : k \in A \cup B
    BY <1>2 DEF StaleAt, CurrentIn
  <2>3. \A k \in A : k \notin B
    OBVIOUS
  <2>4. QED
    BY <2>1, <2>2, <2>3
<1>4. /\ IsFiniteSet(StaleAt(slots, queue)) /\ Cardinality(StaleAt(slots, queue)) \in Nat
      /\ IsFiniteSet(S) /\ Cardinality(S) \in Nat
  BY <1>1, StaleFinite
<1> HIDE DEF A, B
<1>5. IsFiniteSet(A) /\ IsFiniteSet(B) /\ Cardinality(A) \in Nat /\ Cardinality(B) \in Nat
  BY <1>3, <1>4, FS_Subset, FS_CardinalityType
<1>6. Cardinality(StaleAt(slots, queue)) = Cardinality(A) + Cardinality(B)
  <2>1. Cardinality(A \cup B) = Cardinality(A) + Cardinality(B) - Cardinality(A \cap B)
    BY <1>5, FS_Union
  <2>2. Cardinality(A \cap B) = 0
    BY <1>3, FS_EmptySet
  <2>3. QED
    BY <1>3, <1>5, <2>1, <2>2
<1>7. StaleIn(n) = Cardinality(A)
  BY DEF StaleIn, A
<1> DEFINE h == [i \in S |-> f[i]]
<1>8. ASSUME NEW i \in S PROVE h[i] = f[i] /\ f[i] \in B /\ i \in DOMAIN t
  <2>1. i \in DOMAIN t /\ ~Current(slots, t[i]) /\ t[i] = queue[f[i]] /\ f[i] \in DOMAIN queue
    BY <1>1 DEF StaleAt, Reorders
  <2>2. QED
    BY <1>1, <2>1 DEF B
<1>9. ASSUME NEW k \in B PROVE \E i \in S : f[i] = k
  <2>1. k \in DOMAIN queue /\ k > n /\ ~Current(slots, queue[k])
    BY DEF B
  <2>2. PICK i \in DOMAIN t : f[i] = k
    BY <1>1, <2>1
  <2>3. t[i] = queue[k]
    BY <1>1, <2>2 DEF Reorders
  <2>4. QED
    BY <2>1, <2>2, <2>3 DEF StaleAt
<1> HIDE DEF S
<1>10. h \in Bijection(S, B)
  <2>1. h \in [S -> B]
    BY <1>8
  <2>2. ASSUME NEW i \in S, NEW j \in S, h[i] = h[j] PROVE i = j
    BY <1>1, <1>8, <2>2 DEF Reorders
  <2>3. ASSUME NEW k \in B PROVE \E i \in S : h[i] = k
    BY <1>9
  <2> HIDE DEF h
  <2>4. h \in Injection(S, B)
    BY <2>1, <2>2 DEF Injection, IsInjective
  <2>5. h \in Surjection(S, B)
    BY <2>1, <2>3 DEF Surjection
  <2>6. QED
    BY <2>4, <2>5 DEF Bijection
<1>11. Cardinality(B) = Cardinality(S)
  BY <1>4, <1>10, FS_Bijection DEF ExistsBijection
<1>12. QED
  BY <1>4, <1>5, <1>6, <1>7, <1>11 DEF S

\* The purge keeps the current entries in their order, and no stale one.
LEMMA PurgedPlaces ==
  ASSUME NEW X, NEW q \in Seq(X), NEW sl, NEW t,
         t = Retain(q, {k \in DOMAIN q : Current(sl, q[k])})
  PROVE  /\ t \in Seq(X) /\ StaleAt(sl, t) = {}
         /\ \E f : Reorders(f, sl, q, t)
<1>1. PICK C, m : C = {k \in DOMAIN q : Current(sl, q[k])} /\ m = Cardinality(C)
  OBVIOUS
<1>2. DOMAIN q = 1 .. Len(q) /\ Len(q) \in Nat /\ \A k \in C : k \in 1 .. Len(q)
  BY <1>1
<1>3. PICK f : /\ Lists(f, C) /\ m \in Nat /\ t \in Seq(X) /\ Len(t) = m
               /\ \A i \in 1 .. m : t[i] = q[f[i]]
  <2>1. t = Retain(q, C)
    BY <1>1
  <2>2. /\ IsFiniteSet(C) /\ Cardinality(C) \in Nat
        /\ Retain(q, C) \in Seq(X) /\ Len(Retain(q, C)) = Cardinality(C)
        /\ \E f : /\ Lists(f, C)
                  /\ \A i \in 1 .. Cardinality(C) : Retain(q, C)[i] = q[f[i]]
    BY <1>2, Retained
  <2>3. m = Cardinality(C)
    BY <1>1
  <2>4. m \in Nat /\ t \in Seq(X) /\ Len(t) = m
    BY Zenon, <2>1, <2>2, <2>3
  <2>5. QED
    BY Zenon, <2>1, <2>2, <2>3, <2>4
<1>4. /\ DOMAIN t = 1 .. m
      /\ f \in [DOMAIN t -> C] /\ \A i \in DOMAIN t : f[i] \in C /\ t[i] = q[f[i]]
      /\ \A i, j \in DOMAIN t : i < j => f[i] < f[j]
      /\ \A k \in C : \E i \in DOMAIN t : f[i] = k
  <2>1. DOMAIN t = 1 .. m
    BY <1>3
  <2>2. QED
    BY <1>1, <1>3, <2>1 DEF Lists
<1>5. \A i \in DOMAIN t : f[i] \in DOMAIN q /\ Current(sl, q[f[i]])
  BY <1>1, <1>4
<1>6. \A i, j \in DOMAIN t : f[i] = f[j] => i = j
  <2>1. \A i \in DOMAIN t : i \in Int /\ f[i] \in Int
    BY <1>2, <1>3, <1>4
  <2>2. ASSUME NEW i \in DOMAIN t, NEW j \in DOMAIN t, f[i] = f[j] PROVE i = j
    <3>1. (i < j => f[i] < f[j]) /\ (j < i => f[j] < f[i])
      BY <1>4
    <3>2. i \in Int /\ j \in Int /\ f[i] \in Int /\ f[j] \in Int
      BY <2>1
    <3>3. QED
      BY <2>2, <3>1, <3>2
  <2>3. QED
    BY <2>2
<1>7. f \in [DOMAIN t -> DOMAIN q]
  BY <1>4, <1>5
<1>8. Reorders(f, sl, q, t)
  BY <1>1, <1>4, <1>5, <1>6, <1>7 DEF Reorders
<1>9. StaleAt(sl, t) = {}
  BY <1>4, <1>5 DEF StaleAt
<1>10. QED
  BY <1>3, <1>8, <1>9

\* Slots of the same generations of which the same are live have the same

\* current entries.
LEMMA SameCurrent ==
  ASSUME NEW sl, NEW sm, DOMAIN sm = DOMAIN sl, NEW q,
         \A i \in DOMAIN sl : /\ sm[i].generation = sl[i].generation
                              /\ sm[i].entry = "Live" <=> sl[i].entry = "Live"
  PROVE  /\ \A e : Current(sm, e) <=> Current(sl, e)
         /\ StaleAt(sm, q) = StaleAt(sl, q)
<1>1. \A e : Current(sm, e) <=> Current(sl, e)
  BY DEF Current
<1>2. QED
  BY <1>1 DEF StaleAt

\* take_next keeps the ages, and counts the entries it drops.
LEMMA TakeNextRotation ==
  ASSUME SlotsInv, SlabExact, ItemsInv, RotationInv,
         TakeNextNone \/ \E item \in Items : TakeNextSome(item)
  PROVE  RotationInv'
<1> DEFINE X == Ids \X (0 .. U32Span - 1)
<1>1. /\ queue \in Seq(X) /\ stale \in Nat /\ stale = Cardinality(StaleAt(slots, queue))
      /\ stale <= Len(live_ids) /\ stale < U32Span
  BY RotationFacts
<1>2. PICK ages \in [DOMAIN queue -> Nat] : Aged(slots, queue, ages)
  BY RotationFacts
<1>3. PICK n \in 0 .. Len(queue) :
         /\ queue' = Rotated(n) /\ stale' = SaturatingSub(stale, StaleIn(n))
         /\ live_ids' = live_ids /\ DOMAIN slots' = DOMAIN slots
         /\ \A i \in Ids : /\ slots'[i].generation = slots[i].generation
                           /\ slots'[i].entry = slots[i].entry
  <2>1. CASE TakeNextNone
    <3>1. Len(queue) \in 0 .. Len(queue)
      BY <1>1
    <3>2. QED
      BY <2>1, <3>1 DEF TakeNextNone
  <2>2. ASSUME NEW item \in Items, TakeNextSome(item)
        PROVE  \E n \in 0 .. Len(queue) :
                 /\ queue' = Rotated(n) /\ stale' = SaturatingSub(stale, StaleIn(n))
                 /\ live_ids' = live_ids /\ DOMAIN slots' = DOMAIN slots
                 /\ \A i \in Ids : /\ slots'[i].generation = slots[i].generation
                                   /\ slots'[i].entry = slots[i].entry
    <3>1. PICK k \in Willing :
             /\ queue' = Rotated(k) /\ stale' = SaturatingSub(stale, StaleIn(k))
             /\ live_ids' = live_ids /\ DOMAIN slots' = DOMAIN slots
             /\ \A i \in Ids : /\ slots'[i].entry = slots[i].entry
                               /\ slots'[i].generation = slots[i].generation
      BY <2>2, TakeNextEffect
    <3>2. k \in 0 .. Len(queue)
      BY <1>1 DEF Willing, CurrentIn
    <3>3. QED
      BY <3>1, <3>2
  <2>3. QED
    BY <2>1, <2>2
<1>4. PICK t : t = queue' /\ t = Rotated(n)
  BY <1>3
<1>5. PICK f : t \in Seq(X) /\ Reorders(f, slots, queue, t)
  BY <1>1, <1>4, RotatedPlaces
<1>6. PICK b : b = [i \in DOMAIN t |-> ages[f[i]]]
  OBVIOUS
<1>7. slots \in Seq(Slot)
  BY DEF SlotsInv
<1>8. Aged(slots, t, b)
  BY <1>1, <1>2, <1>5, <1>6, <1>7, ReorderedAges
<1>9. b \in [DOMAIN t -> Nat]
  <2>1. \A i \in DOMAIN t : f[i] \in DOMAIN queue
    BY <1>5 DEF Reorders
  <2>2. QED
    BY <1>2, <1>6, <2>1
<1>10. PICK sl : sl = slots'
  OBVIOUS
<1>11. /\ DOMAIN sl = DOMAIN slots
       /\ \A i \in DOMAIN slots : /\ sl[i].generation = slots[i].generation
                                  /\ sl[i].entry = slots[i].entry
  BY <1>3, <1>10 DEF Ids
<1>12. Aged(sl, t, b)
  BY <1>8, <1>11, AgedFewer
<1>13. StaleAt(sl, t) = StaleAt(slots, t)
  BY <1>11, SameCurrent
<1>14. /\ StaleIn(n) \in Nat /\ StaleIn(n) <= Cardinality(StaleAt(slots, queue))
       /\ Cardinality(StaleAt(slots, t)) = Cardinality(StaleAt(slots, queue)) - StaleIn(n)
  BY <1>1, <1>4, RotatedStale
<1>15. PICK d : d = StaleIn(n) /\ d \in Nat /\ d <= stale /\ stale' = SaturatingSub(stale, d)
  BY <1>1, <1>3, <1>14
<1>16. stale' = stale - d
  BY <1>1, <1>15 DEF SaturatingSub
<1>17. stale' = Cardinality(StaleAt(sl, t))
  BY <1>1, <1>13, <1>14, <1>15, <1>16
<1>18. stale' \in Nat /\ stale' <= stale
  BY <1>1, <1>15, <1>16
<1>19. stale' <= Len(live_ids') /\ stale' < U32Span
  <2>1. Len(live_ids) \in Nat /\ U32Span \in Nat
    BY RoundRobinAssumption DEF SlotsInv
  <2>2. QED
    BY <1>1, <1>3, <1>18, <2>1
<1>20. Ids' = Ids
  BY <1>3 DEF Ids
<1>21. queue' \in Seq(Ids' \X (0 .. U32Span - 1))
  BY <1>4, <1>5, <1>20
<1>22. QED
  BY <1>4, <1>9, <1>10, <1>12, <1>17, <1>18, <1>19, <1>21, RotationHolds

\* Children that are not live outnumber none: when one was removed, fewer are

\* live than there are.
LEMMA FewerLive ==
  ASSUME SlotsInv, SlabExact, NEW id \in Ids, RemoveChild(id)
  PROVE  Len(live_ids') \in Nat /\ Len(live_ids') < U32Span
<1>1. /\ slots[id].entry = "Live" /\ DOMAIN slots' = DOMAIN slots
      /\ live_ids' \in Seq(Ids) /\ slots'[id].entry # "Live"
      /\ \A i \in Ids : i # id => /\ slots'[i].entry = slots[i].entry
                                  /\ slots'[i].child = slots[i].child
  <2>1. /\ IsLive(id) /\ live_ids' \in Seq(Ids) /\ DOMAIN slots' = DOMAIN slots
        /\ slots'[id].entry = IF slots[id].in_flight > 0 THEN "Draining" ELSE "Free"
        /\ \A i \in Ids : i # id => /\ slots'[i].entry = slots[i].entry
                                    /\ slots'[i].child = slots[i].child
    BY RemoveChildEffect
  <2>2. QED
    BY <2>1 DEF IsLive
<1>2. PICK n, c : n = Len(live_ids') /\ c = slots[id].child
  OBVIOUS
<1>3. n \in Nat /\ DOMAIN live_ids' = 1 .. n
  BY <1>1, <1>2
<1>4. SlotsInv' /\ SlabExact'
  BY RemoveChildSlab
<1>5. ASSUME NEW p \in 1 .. n
      PROVE  /\ live_ids'[p] \in Ids /\ live_ids'[p] # id
             /\ slots[live_ids'[p]].entry = "Live"
             /\ slots'[live_ids'[p]].live_pos = p
  <2>1. live_ids'[p] \in ToSet(live_ids') /\ slots'[live_ids'[p]].live_pos = p
    BY <1>3, <1>4 DEF ToSet, SlabExact
  <2>2. slots'[live_ids'[p]].entry = "Live"
    BY <1>4, <2>1 DEF SlabExact, IsLive
  <2>3. live_ids'[p] \in Ids
    BY <1>1, <1>3
  <2>4. QED
    BY <1>1, <2>1, <2>2, <2>3
<1> DEFINE g == [p \in 1 .. n |-> slots[live_ids'[p]].child]
<1>6. \A i, j \in Ids : /\ slots[i].entry # "Free" /\ slots[j].entry # "Free"
                        /\ slots[i].child = slots[j].child
                        => i = j
  BY DEF SlotsInv
<1>7. ASSUME NEW p \in 1 .. n PROVE g[p] \in Children \ {c}
  <2>1. slots[live_ids'[p]].child \in Children
    BY <1>5 DEF SlotsInv
  <2>2. QED
    BY <1>1, <1>2, <1>5, <1>6, <2>1
<1>8. ASSUME NEW p \in 1 .. n, NEW r \in 1 .. n, g[p] = g[r] PROVE p = r
  <2>1. live_ids'[p] = live_ids'[r]
    BY <1>5, <1>6, <1>8
  <2>2. QED
    BY <1>5, <2>1
<1>9. g \in Injection(1 .. n, Children \ {c})
  BY <1>7, <1>8 DEF Injection, IsInjective
<1>10. /\ IsFiniteSet(Children) /\ Cardinality(Children) <= U32Span /\ U32Span \in Nat
       /\ Cardinality(Children) \in Nat /\ c \in Children
  BY <1>1, <1>2, RoundRobinAssumption, FS_CardinalityType DEF SlotsInv
<1>11. IsFiniteSet(Children \ {c}) /\ Cardinality(Children \ {c}) = Cardinality(Children) - 1
  BY <1>10, FS_RemoveElement
<1>12. Cardinality(1 .. n) = n
  BY <1>3, FS_Interval
<1> HIDE DEF g
<1>13. n <= Cardinality(Children \ {c})
  BY <1>9, <1>11, <1>12, FS_Injection
<1>14. QED
  BY <1>2, <1>3, <1>10, <1>11, <1>13

\* A live slot has exactly one current entry.
LEMMA OneCurrent ==
  ASSUME NEW sl \in Seq(Slot), NEW X, NEW q \in Seq(X), NEW ages, Aged(sl, q, ages),
         NEW id \in DOMAIN sl, sl[id].entry = "Live"
  PROVE  \E k \in DOMAIN q : /\ q[k][1] = id /\ Current(sl, q[k])
                             /\ \A m \in DOMAIN q : q[m][1] = id /\ Current(sl, q[m]) => m = k
<1>1. PICK k \in DOMAIN q : q[k][1] = id /\ ages[k] = 0
  BY DEF Aged
<1>2. Current(sl, q[k])
  BY <1>1, CurrentAges
<1>3. ASSUME NEW m \in DOMAIN q, q[m][1] = id, Current(sl, q[m]) PROVE m = k
  <2>1. ages[m] = 0
    BY <1>3, CurrentAges
  <2>2. ~(m < k) /\ ~(k < m)
    BY <1>1, <1>3, <2>1 DEF Aged
  <2>3. QED
    BY <2>2
<1>4. QED
  BY <1>1, <1>2, <1>3

\* remove_child keeps the ages: one more entry is stale, or none is left.
LEMMA RemoveChildRotation ==
  ASSUME SlotsInv, SlabExact, ItemsInv, RotationInv, NEW id \in Ids, RemoveChild(id)
  PROVE  RotationInv'
<1> DEFINE X == Ids \X (0 .. U32Span - 1)
<1>1. /\ queue \in Seq(X) /\ stale \in Nat /\ stale = Cardinality(StaleAt(slots, queue))
  BY RotationFacts
<1>2. PICK ages \in [DOMAIN queue -> Nat] : Aged(slots, queue, ages)
  BY RotationFacts
<1>3. /\ slots[id].entry = "Live" /\ DOMAIN slots' = DOMAIN slots
      /\ slots'[id].entry # "Live" /\ slots' \in Seq(Slot)
      /\ \A i \in Ids : slots'[i].generation = slots[i].generation
      /\ \A i \in Ids : i # id => slots'[i].entry = slots[i].entry
  <2>1. /\ IsLive(id) /\ DOMAIN slots' = DOMAIN slots /\ slots' \in Seq(Slot)
        /\ slots'[id].entry = IF slots[id].in_flight > 0 THEN "Draining" ELSE "Free"
        /\ \A i \in Ids : slots'[i].generation = slots[i].generation
        /\ \A i \in Ids : i # id => slots'[i].entry = slots[i].entry
    BY RemoveChildEffect
  <2>2. QED
    BY <2>1 DEF IsLive
<1>4. PICK sl, n : sl = slots' /\ n = Len(live_ids')
  OBVIOUS
<1>5. /\ sl \in Seq(Slot) /\ DOMAIN sl = DOMAIN slots /\ sl[id].entry # "Live"
      /\ \A i \in DOMAIN slots : sl[i].generation = slots[i].generation
      /\ \A i \in DOMAIN slots : i # id => sl[i].entry = slots[i].entry
  BY <1>3, <1>4 DEF Ids
<1>6. Aged(sl, queue, ages)
  <2>1. \A i \in DOMAIN slots : /\ sl[i].generation = slots[i].generation
                                /\ sl[i].entry = "Live" => slots[i].entry = "Live"
    BY <1>5
  <2>2. QED
    BY <1>2, <1>5, <2>1, AgedFewer
<1>7. n \in Nat /\ n < U32Span
  BY <1>4, FewerLive
<1>8. Ids' = Ids
  BY <1>3 DEF Ids
<1>9. CASE Purges(n)
  <2>1. stale' = 0
    BY <1>4, <1>9 DEF RemoveChild
  <2>2. PICK t : t = queue' /\ t = Retain(queue, {k \in DOMAIN queue : Current(sl, queue[k])})
    BY <1>4, <1>9 DEF RemoveChild
  <2>3. PICK f : t \in Seq(X) /\ StaleAt(sl, t) = {} /\ Reorders(f, sl, queue, t)
    <3>1. PICK q, Y : q = queue /\ Y = X
      OBVIOUS
    <3>2. q \in Seq(Y) /\ t = Retain(q, {k \in DOMAIN q : Current(sl, q[k])})
      BY <1>1, <2>2, <3>1
    <3>3. /\ t \in Seq(Y) /\ StaleAt(sl, t) = {}
          /\ \E f : Reorders(f, sl, q, t)
      BY <3>2, PurgedPlaces
    <3>4. QED
      BY <3>1, <3>3
  <2>4. PICK b : b = [i \in DOMAIN t |-> ages[f[i]]]
    OBVIOUS
  <2>5. Aged(sl, t, b)
    BY <1>1, <1>5, <1>6, <2>3, <2>4, ReorderedAges
  <2>6. b \in [DOMAIN t -> Nat]
    <3>1. \A i \in DOMAIN t : f[i] \in DOMAIN queue
      BY <2>3 DEF Reorders
    <3>2. QED
      BY <1>2, <2>4, <3>1
  <2>7. stale' = Cardinality(StaleAt(sl, t)) /\ stale' \in Nat /\ stale' <= n /\ stale' < U32Span
    <3>1. Cardinality(StaleAt(sl, t)) = 0
      BY <2>3, FS_EmptySet
    <3>2. U32Span \in Nat
      BY RoundRobinAssumption
    <3>3. QED
      BY <1>7, <2>1, <3>1, <3>2
  <2>8. queue' \in Seq(Ids' \X (0 .. U32Span - 1))
    BY <1>8, <2>2, <2>3
  <2>9. QED
    BY <1>4, <2>2, <2>5, <2>6, <2>7, <2>8, RotationHolds
<1>10. CASE ~Purges(n)
  <2>1. stale' = stale + 1 /\ queue' = queue
    BY <1>4, <1>10 DEF RemoveChild
  <2>2. stale + 1 <= n
    BY <1>1, <1>7, <1>10 DEF Purges
  <2>3. slots \in Seq(Slot) /\ id \in DOMAIN slots
    BY DEF SlotsInv, Ids
  <2>4. PICK k \in DOMAIN queue :
           /\ queue[k][1] = id /\ Current(slots, queue[k])
           /\ \A m \in DOMAIN queue : queue[m][1] = id /\ Current(slots, queue[m]) => m = k
    BY SMTT(60), <1>1, <1>2, <1>3, <2>3, OneCurrent
  <2>5. k \notin StaleAt(slots, queue)
    BY <2>4 DEF StaleAt
  <2>6. ~Current(sl, queue[k])
    BY <1>5, <2>4 DEF Current
  <2>7. ASSUME NEW m \in DOMAIN queue, m # k
        PROVE  Current(sl, queue[m]) <=> Current(slots, queue[m])
    <3>1. CASE queue[m][1] = id
      BY <1>5, <2>4, <2>7, <3>1 DEF Current
    <3>2. CASE queue[m][1] # id
      BY <1>5, <3>2 DEF Current
    <3>3. QED
      BY <3>1, <3>2
  <2>8. StaleAt(sl, queue) = StaleAt(slots, queue) \cup {k}
    BY <2>4, <2>6, <2>7 DEF StaleAt
  <2>9. IsFiniteSet(StaleAt(slots, queue))
    BY <1>1, StaleFinite
  <2>10. Cardinality(StaleAt(sl, queue)) = Cardinality(StaleAt(slots, queue)) + 1
    BY <2>5, <2>8, <2>9, FS_AddElement
  <2>11. stale' = Cardinality(StaleAt(sl, queue)) /\ stale' \in Nat /\ stale' <= n
    BY <1>1, <2>1, <2>2, <2>10
  <2>12. stale' < U32Span /\ queue' \in Seq(Ids' \X (0 .. U32Span - 1))
    <3>1. U32Span \in Nat
      BY RoundRobinAssumption
    <3>2. QED
      BY <1>1, <1>7, <1>8, <2>1, <2>11, <3>1
  <2>13. QED
    BY <1>2, <1>4, <1>6, <2>1, <2>11, <2>12, RotationHolds
<1>11. QED
  BY <1>9, <1>10

\* The entries of a slot that is not live are stale, and none of the younger

\* ones is missing: their number bounds the ages.
LEMMA StaleAges ==
  ASSUME NEW sl \in Seq(Slot), NEW X, NEW q \in Seq(X), NEW ages \in [DOMAIN q -> Nat],
         Aged(sl, q, ages), NEW k \in DOMAIN q, sl[q[k][1]].entry # "Live"
  PROVE  ages[k] + 1 <= Cardinality(StaleAt(sl, q))
<1>1. PICK i, a : i = q[k][1] /\ a = ages[k] /\ a \in Nat
  OBVIOUS
<1> DEFINE P(n, m) == q[m][1] = i /\ ages[m] = n
           h == [n \in 0 .. a |-> CHOOSE m \in DOMAIN q : P(n, m)]
<1>2. \A n \in Nat : n < ages[k] => \E m \in DOMAIN q : q[m][1] = q[k][1] /\ ages[m] = n
  BY DEF Aged
<1>3. ASSUME NEW n \in 0 .. a PROVE \E m \in DOMAIN q : P(n, m)
  <2>1. CASE n = a
    BY <1>1, <2>1
  <2>2. CASE n # a
    BY <1>1, <1>2, <2>2
  <2>3. QED
    BY <2>1, <2>2
<1>4. ASSUME NEW n \in 0 .. a PROVE h[n] \in DOMAIN q /\ P(n, h[n])
  <2>1. h[n] = CHOOSE m \in DOMAIN q : P(n, m)
    OBVIOUS
  <2> HIDE DEF h, P
  <2>2. QED
    BY <1>3, <2>1
<1>5. ASSUME NEW n \in 0 .. a PROVE h[n] \in StaleAt(sl, q)
  <2>1. h[n] \in DOMAIN q /\ q[h[n]][1] = i
    BY <1>4
  <2>2. QED
    BY <1>1, <2>1 DEF StaleAt, Current
<1>6. ASSUME NEW m \in 0 .. a, NEW n \in 0 .. a, h[m] = h[n] PROVE m = n
  BY <1>4, <1>6
<1>7. h \in Injection(0 .. a, StaleAt(sl, q))
  BY <1>5, <1>6 DEF Injection, IsInjective
<1>8. IsFiniteSet(StaleAt(sl, q))
  BY StaleFinite
<1>9. Cardinality(0 .. a) = a + 1 /\ IsFiniteSet(0 .. a)
  BY <1>1, FS_Interval
<1> HIDE DEF h
<1>10. Cardinality(0 .. a) <= Cardinality(StaleAt(sl, q))
  BY <1>7, <1>8, FS_Injection
<1>11. QED
  BY <1>1, <1>9, <1>10

LEMMA Predecessor ==
  ASSUME NEW n \in Nat, n # 0
  PROVE  \E m \in Nat : n = m + 1
<1>1. n - 1 \in Nat /\ n = (n - 1) + 1
  OBVIOUS
<1>2. QED
  BY <1>1

\* In slab sm a new child lives in slot id, which was free in sl or is new.
Occupies(sl, sm, id, gen) ==
  /\ gen \in 0 .. U32Span - 1
  /\ IF id \in DOMAIN sl THEN /\ sl[id].entry = "Free"
                              /\ gen = NextGeneration(sl[id].generation)
                         ELSE gen = 0
  /\ DOMAIN sm = DOMAIN sl \cup {id} /\ sm[id].entry = "Live" /\ sm[id].generation = gen
  /\ \A i \in DOMAIN sl : i # id => sm[i] = sl[i]

\* t is the rotation q with e at its back.
Extends(q, t, e) ==
  /\ DOMAIN t = 1 .. Len(q) + 1 /\ t[Len(q) + 1] = e
  /\ \A k \in DOMAIN q : t[k] = q[k]

\* The ages when slot id is given to a new child: its entries grow older, even

\* when the generation wraps, and the entry of the new child is current.
LEMMA AppendedAges ==
  ASSUME NEW sl \in Seq(Slot), NEW sm \in Seq(Slot), NEW X, NEW q \in Seq(X),
         NEW ages \in [DOMAIN q -> Nat], Aged(sl, q, ages),
         Cardinality(StaleAt(sl, q)) < U32Span,
         NEW id, NEW gen, Occupies(sl, sm, id, gen),
         NEW t, Extends(q, t, <<id, gen>>)
  PROVE  \E b \in [DOMAIN t -> Nat] : Aged(sm, t, b)
<1>a. /\ gen \in 0 .. U32Span - 1
      /\ id \in DOMAIN sl => sl[id].entry = "Free" /\ gen = NextGeneration(sl[id].generation)
      /\ DOMAIN sm = DOMAIN sl \cup {id} /\ sm[id].entry = "Live" /\ sm[id].generation = gen
      /\ \A i \in DOMAIN sl : i # id => sm[i] = sl[i]
  BY DEF Occupies
<1>0. PICK b : b = [k \in DOMAIN t |-> IF k \in DOMAIN q
                                      THEN IF q[k][1] = id THEN ages[k] + 1 ELSE ages[k]
                                      ELSE 0]
  OBVIOUS
<1>1. PICK L \in Nat : L = Len(q)
  OBVIOUS
<1>2. /\ DOMAIN q = 1 .. L /\ DOMAIN t = 1 .. L + 1 /\ t[L + 1] = <<id, gen>>
      /\ \A k \in 1 .. L : t[k] = q[k]
  BY <1>1 DEF Extends
<1>3. /\ \A k \in 1 .. L : b[k] = IF q[k][1] = id THEN ages[k] + 1 ELSE ages[k]
      /\ b[L + 1] = 0 /\ b \in [DOMAIN t -> Nat]
  BY <1>0, <1>1, <1>2
<1>4. U32Span \in Nat /\ U32Span > 0
  BY RoundRobinAssumption
<1>5. \A k \in 1 .. L :
       /\ q[k][1] \in DOMAIN sl /\ ages[k] \in 0 .. U32Span - 1
       /\ LET g == sl[q[k][1]].generation
          IN  q[k][2] = IF ages[k] <= g THEN g - ages[k] ELSE g - ages[k] + U32Span
  BY <1>2 DEF Aged
<1>6. ASSUME NEW k \in 1 .. L + 1
      PROVE  /\ t[k][1] \in DOMAIN sm /\ b[k] \in 0 .. U32Span - 1
             /\ LET g == sm[t[k][1]].generation
                IN  t[k][2] = IF b[k] <= g THEN g - b[k] ELSE g - b[k] + U32Span
  <2>1. CASE k = L + 1
    BY <1>a, <1>2, <1>3, <1>4, <2>1
  <2>2. CASE k \in 1 .. L /\ q[k][1] # id
    <3>1. k \in 1 .. L
      BY <2>2
    <3>2. t[k] = q[k] /\ b[k] = ages[k] /\ sm[q[k][1]] = sl[q[k][1]] /\ q[k][1] \in DOMAIN sm
      BY <1>a, <1>2, <1>3, <1>5, <2>2, <3>1
    <3>3. QED
      BY <1>5, <3>1, <3>2
  <2>3. CASE k \in 1 .. L /\ q[k][1] = id
    <3>1. k \in 1 .. L
      BY <2>3
    <3>2. PICK g, a : g = sl[id].generation /\ a = ages[k]
      OBVIOUS
    <3>3. id \in DOMAIN sl /\ sl[id].entry = "Free" /\ gen = NextGeneration(g)
      BY <1>a, <1>5, <2>3, <3>1, <3>2
    <3>4. g \in 0 .. U32Span - 1
      <4>1. sl[id] \in Slot
        BY <3>3
      <4>2. QED
        BY <3>2, <4>1 DEF Slot
    <3>5. gen = IF g + 1 = U32Span THEN 0 ELSE g + 1
      BY <3>3, <3>4, NextGenerationWraps
    <3>6. a \in 0 .. U32Span - 1 /\ q[k][2] = IF a <= g THEN g - a ELSE g - a + U32Span
      BY <1>5, <2>3, <3>1, <3>2
    <3>7. a + 1 < U32Span
      <4>1. a + 1 <= Cardinality(StaleAt(sl, q))
        <5>1. sl[q[k][1]].entry # "Live" /\ k \in DOMAIN q
          BY <1>2, <2>3, <3>1, <3>3
        <5>2. QED
          BY <3>2, <5>1, StaleAges
      <4>2. Cardinality(StaleAt(sl, q)) \in Nat
        BY StaleFinite
      <4>3. QED
        BY <1>4, <3>6, <4>1, <4>2
    <3>8. b[k] = a + 1 /\ t[k] = q[k] /\ t[k][1] = id
      BY <1>2, <1>3, <2>3, <3>1, <3>2
    <3>9. b[k] \in 0 .. U32Span - 1
      BY <1>4, <3>6, <3>7, <3>8
    <3>10. q[k][2] = IF a + 1 <= gen THEN gen - (a + 1) ELSE gen - (a + 1) + U32Span
      BY <1>a, <1>4, <3>4, <3>5, <3>6, <3>7
    <3>11. QED
      BY <1>a, <3>2, <3>3, <3>8, <3>9, <3>10
  <2>4. k = L + 1 \/ k \in 1 .. L
    OBVIOUS
  <2>5. QED
    BY <2>1, <2>2, <2>3, <2>4
<1>8. ASSUME NEW j \in 1 .. L + 1, NEW k \in 1 .. L + 1, t[j][1] = t[k][1], j < k
      PROVE  b[k] < b[j]
  <2>1. j \in 1 .. L
    BY <1>1, <1>8
  <2>2. ages[j] \in Nat
    BY <1>2, <2>1
  <2>3. CASE k = L + 1
    BY <1>2, <1>3, <1>8, <2>1, <2>2, <2>3
  <2>4. CASE k # L + 1
    <3>1. k \in 1 .. L /\ ages[k] \in Nat
      BY <1>2, <2>4
    <3>2. q[j][1] = q[k][1] /\ j < k
      BY <1>2, <1>8, <2>1, <3>1
    <3>3. ages[k] < ages[j]
      BY <1>2, <2>1, <3>1, <3>2 DEF Aged
    <3>4. CASE q[k][1] = id
      <4>1. b[k] = ages[k] + 1 /\ b[j] = ages[j] + 1
        BY <1>3, <2>1, <3>1, <3>2, <3>4
      <4>2. QED
        BY <2>2, <3>1, <3>3, <4>1
    <3>5. CASE q[k][1] # id
      <4>1. b[k] = ages[k] /\ b[j] = ages[j]
        BY <1>3, <2>1, <3>1, <3>2, <3>5
      <4>2. QED
        BY <3>3, <4>1
    <3>6. QED
      BY <3>4, <3>5
  <2>5. QED
    BY <2>3, <2>4
<1>9. ASSUME NEW k \in 1 .. L + 1, NEW n \in Nat, n < b[k]
      PROVE  \E m \in 1 .. L + 1 : t[m][1] = t[k][1] /\ b[m] = n
  <2>1. k \in 1 .. L
    BY <1>1, <1>3, <1>9
  <2>2. ages[k] \in Nat /\ t[k] = q[k]
    BY <1>2, <2>1
  <2>3. \A x \in Nat : x < ages[k] => \E m \in 1 .. L : q[m][1] = q[k][1] /\ ages[m] = x
    BY <1>2, <2>1 DEF Aged
  <2>4. CASE q[k][1] # id
    <3>1. PICK m \in 1 .. L : q[m][1] = q[k][1] /\ ages[m] = n
      BY <1>3, <1>9, <2>1, <2>3, <2>4
    <3>2. m \in 1 .. L + 1 /\ t[m][1] = t[k][1] /\ b[m] = n
      BY <1>1, <1>2, <1>3, <2>2, <2>4, <3>1
    <3>3. QED
      BY <3>2
  <2>5. CASE q[k][1] = id /\ n = 0
    <3>1. L + 1 \in 1 .. L + 1 /\ t[L + 1][1] = t[k][1] /\ b[L + 1] = n
      BY <1>1, <1>2, <1>3, <2>2, <2>5
    <3>2. QED
      BY <3>1
  <2>6. CASE q[k][1] = id /\ n # 0
    <3>1. PICK x \in Nat : n = x + 1
      BY <2>6, Predecessor
    <3>2. x < ages[k]
      BY <1>3, <1>9, <2>1, <2>2, <2>6, <3>1
    <3>3. PICK m \in 1 .. L : q[m][1] = q[k][1] /\ ages[m] = x
      BY <2>3, <3>2
    <3>4. m \in 1 .. L + 1 /\ t[m][1] = t[k][1] /\ b[m] = n
      <4>1. b[m] = ages[m] + 1 /\ t[m] = q[m]
        BY <1>2, <1>3, <2>6, <3>3
      <4>2. m \in 1 .. L + 1
        BY <1>1
      <4>3. QED
        BY <2>2, <3>1, <3>3, <4>1, <4>2
    <3>5. QED
      BY <3>4
  <2>7. QED
    BY <2>4, <2>5, <2>6
<1>10. ASSUME NEW i \in DOMAIN sm, sm[i].entry = "Live"
       PROVE  \E k \in 1 .. L + 1 : t[k][1] = i /\ b[k] = 0
  <2>1. CASE i = id
    <3>1. L + 1 \in 1 .. L + 1 /\ t[L + 1][1] = i /\ b[L + 1] = 0
      BY <1>1, <1>2, <1>3, <2>1
    <3>2. QED
      BY <3>1
  <2>2. CASE i # id
    <3>1. i \in DOMAIN sl /\ sl[i].entry = "Live"
      BY <1>a, <1>10, <2>2
    <3>2. PICK k \in 1 .. L : q[k][1] = i /\ ages[k] = 0
      <4>1. \A x \in DOMAIN sl : sl[x].entry = "Live" => \E k \in DOMAIN q : q[k][1] = x /\ ages[k] = 0
        BY DEF Aged
      <4>2. QED
        BY <1>2, <3>1, <4>1
    <3>3. k \in 1 .. L + 1 /\ t[k][1] = i /\ b[k] = 0
      BY <1>1, <1>2, <1>3, <2>2, <3>2
    <3>4. QED
      BY <3>3
  <2>3. QED
    BY <2>1, <2>2
<1>11. Aged(sm, t, b)
  <2>1. \A k \in DOMAIN t :
         /\ t[k][1] \in DOMAIN sm /\ b[k] \in 0 .. U32Span - 1
         /\ LET g == sm[t[k][1]].generation
            IN  t[k][2] = IF b[k] <= g THEN g - b[k] ELSE g - b[k] + U32Span
    BY <1>2, <1>6
  <2>2. \A j, k \in DOMAIN t : t[j][1] = t[k][1] /\ j < k => b[k] < b[j]
    BY <1>2, <1>8
  <2>3. \A k \in DOMAIN t, n \in Nat :
         n < b[k] => \E m \in DOMAIN t : t[m][1] = t[k][1] /\ b[m] = n
    <3> SUFFICES ASSUME NEW k \in DOMAIN t, NEW n \in Nat, n < b[k]
                 PROVE  \E m \in DOMAIN t : t[m][1] = t[k][1] /\ b[m] = n
      BY Zenon
    <3>1. k \in 1 .. L + 1
      BY <1>2
    <3>2. \E m \in 1 .. L + 1 : t[m][1] = t[k][1] /\ b[m] = n
      BY <1>9, <3>1, Zenon
    <3>3. QED
      BY <1>2, <3>2, Zenon
  <2>4. \A i \in DOMAIN sm : sm[i].entry = "Live" => \E k \in DOMAIN t : t[k][1] = i /\ b[k] = 0
    BY <1>2, <1>10
  <2>5. QED
    BY <2>1, <2>2, <2>3, <2>4 DEF Aged
<1>12. QED
  BY <1>3, <1>11

\* And the entries that were stale stay it.
LEMMA AppendedStale ==
  ASSUME NEW sl \in Seq(Slot), NEW sm \in Seq(Slot), NEW X, NEW q \in Seq(X), NEW t,
         NEW id, NEW gen, Occupies(sl, sm, id, gen), Extends(q, t, <<id, gen>>),
         NEW b, Aged(sm, t, b)
  PROVE  Cardinality(StaleAt(sm, t)) = Cardinality(StaleAt(sl, q))
<1>0. PICK L \in Nat : L = Len(q)
  OBVIOUS
<1>a. /\ DOMAIN q = 1 .. L /\ DOMAIN t = 1 .. L + 1 /\ t[L + 1] = <<id, gen>>
      /\ \A k \in 1 .. L : t[k] = q[k]
  BY <1>0 DEF Extends
<1>1. Current(sm, t[L + 1])
  BY <1>a DEF Current, Occupies
<1>2. ASSUME NEW k \in 1 .. L PROVE Current(sm, t[k]) <=> Current(sl, q[k])
  <2>1. t[k] = q[k] /\ k \in DOMAIN t /\ k \in DOMAIN q
    BY <1>a
  <2>2. CASE q[k][1] # id
    <3>1. q[k][1] \in DOMAIN sl <=> q[k][1] \in DOMAIN sm
      BY <2>2 DEF Occupies
    <3>2. q[k][1] \in DOMAIN sl => sm[q[k][1]] = sl[q[k][1]]
      BY <2>2 DEF Occupies
    <3>3. QED
      BY <2>1, <3>1, <3>2 DEF Current
  <2>3. CASE q[k][1] = id
    <3>1. ~Current(sl, q[k])
      BY <2>3 DEF Current, Occupies
    <3>2. Current(sm, t[k]) <=> sm[t[k][1]].entry = "Live" /\ b[k] = 0
      BY <2>1, CurrentAges
    <3>3. L + 1 \in DOMAIN t /\ k < L + 1 /\ t[k][1] = t[L + 1][1]
      BY <1>a, <2>1, <2>3
    <3>4. b[L + 1] < b[k]
      BY <2>1, <3>3 DEF Aged
    <3>5. b[L + 1] \in 0 .. U32Span - 1 /\ b[k] \in 0 .. U32Span - 1
      BY <2>1, <3>3 DEF Aged
    <3>6. b[k] # 0
      BY <3>4, <3>5, RoundRobinAssumption
    <3>7. QED
      BY <3>1, <3>2, <3>6
  <2>4. QED
    BY <2>2, <2>3
<1>3. \A k : k \in 1 .. L + 1 <=> k \in 1 .. L \/ k = L + 1
  OBVIOUS
<1>4. L + 1 \notin 1 .. L
  OBVIOUS
<1>5. StaleAt(sm, t) = StaleAt(sl, q)
  BY <1>a, <1>1, <1>2, <1>3, <1>4 DEF StaleAt
<1>6. QED
  BY <1>5

\* add_child keeps the ages.
LEMMA AddChildRotation ==
  ASSUME SlotsInv, SlabExact, ItemsInv, RotationInv, NEW c \in Children, AddChild(c)
  PROVE  RotationInv'
<1> DEFINE X == Ids \X (0 .. U32Span - 1)
           Y == Ids' \X (0 .. U32Span - 1)
<1>1. /\ queue \in Seq(X) /\ stale \in Nat /\ stale = Cardinality(StaleAt(slots, queue))
      /\ stale <= Len(live_ids) /\ stale < U32Span
  BY RotationFacts
<1>2. PICK ages \in [DOMAIN queue -> Nat] : Aged(slots, queue, ages)
  BY RotationFacts
<1>3. PICK id, gen :
         /\ gen \in 0 .. U32Span - 1
         /\ IF id \in Ids THEN /\ slots[id].entry = "Free"
                              /\ gen = NextGeneration(slots[id].generation)
                         ELSE gen = 0
         /\ DOMAIN slots' = Ids \cup {id} /\ slots' \in Seq(Slot)
         /\ slots'[id] = [entry |-> "Live", child |-> c, generation |-> gen,
                          in_flight |-> 0, live_pos |-> Len(live_ids) + 1]
         /\ \A i \in Ids : i # id => slots'[i] = slots[i]
         /\ live_ids' = Append(live_ids, id) /\ queue' = Append(queue, <<id, gen>>)
  BY AddChildEffect
<1>4. slots \in Seq(Slot) /\ live_ids \in Seq(Ids)
  BY DEF SlotsInv
<1>5. Ids' = Ids \cup {id} /\ stale' = stale
  BY <1>3 DEF Ids, AddChild
<1>6. queue' \in Seq(Y)
  <2>1. queue \in Seq(Y)
    <3>1. X \subseteq Y
      BY <1>5
    <3> HIDE DEF X, Y
    <3>2. QED
      BY <1>1, <3>1, SeqWidens
  <2>2. <<id, gen>> \in Y
    BY <1>3, <1>5
  <2> HIDE DEF Y
  <2>3. QED
    BY <1>3, <2>1, <2>2
<1>7. stale' <= Len(live_ids')
  <2>1. Len(live_ids') = Len(live_ids) + 1 /\ Len(live_ids) \in Nat
    BY <1>3, <1>4, <1>5
  <2>2. QED
    BY <1>1, <1>5, <2>1
<1>8. PICK sl, q, sm, t, A : sl = slots /\ q = queue /\ sm = slots' /\ t = queue' /\ A = X
  OBVIOUS
<1>9. /\ sm[id].entry = "Live" /\ sm[id].generation = gen
  BY <1>3, <1>8
<1>10. /\ sl \in Seq(Slot) /\ sm \in Seq(Slot) /\ q \in Seq(A)
       /\ ages \in [DOMAIN q -> Nat] /\ Aged(sl, q, ages)
       /\ Cardinality(StaleAt(sl, q)) < U32Span
       /\ Occupies(sl, sm, id, gen) /\ Extends(q, t, <<id, gen>>)
  <2>1. Occupies(sl, sm, id, gen)
    BY <1>3, <1>8, <1>9 DEF Ids, Occupies
  <2>2. q \in Seq(A) /\ t = Append(q, <<id, gen>>)
    BY <1>1, <1>3, <1>8
  <2>3. Extends(q, t, <<id, gen>>)
    BY <2>2 DEF Extends
  <2>4. QED
    BY <1>1, <1>2, <1>3, <1>4, <1>8, <2>1, <2>2, <2>3
<1>11. PICK b \in [DOMAIN t -> Nat] : Aged(sm, t, b)
  BY <1>10, AppendedAges
<1>14. Cardinality(StaleAt(sm, t)) = Cardinality(StaleAt(sl, q))
  BY <1>10, <1>11, AppendedStale
<1>12. stale' \in Nat /\ stale' = Cardinality(StaleAt(slots', queue')) /\ stale' < U32Span
  BY <1>1, <1>5, <1>8, <1>14
<1>13. QED
  BY <1>6, <1>7, <1>8, <1>11, <1>12, RotationHolds

\* on_complete leaves the rotation alone, and so do the children.
LEMMA OthersRotation ==
  ASSUME SlotsInv, SlabExact, ItemsInv, RotationInv,
         \/ \E c \in Children : ChildChanges(c)
         \/ \E item \in Items : OnComplete(item)
         \/ UNCHANGED roundRobinVars
  PROVE  RotationInv'
<1>1. CASE (\E c \in Children : ChildChanges(c)) \/ UNCHANGED roundRobinVars
  <2>1. UNCHANGED <<slots, live_ids, queue, stale>>
    BY <1>1 DEF ChildChanges, roundRobinVars
  <2>2. QED
    BY <2>1 DEF RotationInv, StaleIn, CurrentIn, Ids
<1>2. ASSUME NEW item \in Items, OnComplete(item) PROVE RotationInv'
  <2>1. item \in DOMAIN outstanding /\ UNCHANGED <<live_ids, queue, stale>>
    BY <1>2 DEF OnComplete
  <2>2. PICK id : id = outstanding[item].id
    OBVIOUS
  <2>3. PICK drained \in BOOLEAN :
         /\ drained <=> slots[id].entry = "Draining" /\ slots[id].in_flight = 1
         /\ DOMAIN slots' = DOMAIN slots
         /\ slots'[id].entry = (IF drained THEN "Free" ELSE slots[id].entry)
         /\ slots'[id].generation = slots[id].generation
         /\ \A i \in Ids : i # id => slots'[i] = slots[i]
    BY <1>2, <2>1, <2>2, OnCompleteEffect
  <2>4. PICK sl, sm, q : sl = slots /\ sm = slots' /\ q = queue
    OBVIOUS
  <2>5. /\ DOMAIN sm = DOMAIN sl
        /\ \A i \in DOMAIN sl : /\ sm[i].generation = sl[i].generation
                                /\ sm[i].entry = "Live" <=> sl[i].entry = "Live"
    <3>1. sm[id].entry = "Live" <=> sl[id].entry = "Live"
      BY <2>3, <2>4
    <3>2. QED
      BY <2>3, <2>4, <3>1 DEF Ids
  <2>6. StaleAt(sm, q) = StaleAt(sl, q)
    BY <2>5, SameCurrent
  <2>7. /\ queue \in Seq(Ids \X (0 .. U32Span - 1))
        /\ stale \in Nat /\ stale = Cardinality(StaleAt(slots, queue))
        /\ stale <= Len(live_ids) /\ stale < U32Span
    BY RotationFacts
  <2>8. PICK ages \in [DOMAIN queue -> Nat] : Aged(slots, queue, ages)
    BY RotationFacts
  <2>9. Aged(sm, q, ages)
    BY <2>4, <2>5, <2>8, AgedFewer
  <2>10. Ids' = Ids
    BY <2>3 DEF Ids
  <2>11. QED
    BY <2>1, <2>4, <2>6, <2>7, <2>8, <2>9, <2>10, RotationHolds
<1>3. QED
  BY <1>1, <1>2

\* The branch starts empty, and every step keeps the invariant.
LEMMA RoundRobinStart ==
  ASSUME RoundRobinInit PROVE RoundRobinInv
<1>1. /\ slots = <<>> /\ live_ids = <<>> /\ free = <<>> /\ queue = <<>> /\ stale = 0
      /\ ready = {} /\ outstanding = <<>> /\ Ids = {}
  BY DEF RoundRobinInit, Ids
<1>2. SlotsInv
  <2>1. slots \in Seq(Slot) /\ live_ids \in Seq(Ids) /\ free \in Seq(Ids)
    BY <1>1
  <2>2. QED
    BY <1>1, <2>1 DEF SlotsInv
<1>3. SlabExact
  BY <1>1 DEF SlabExact, ToSet
<1>4. ItemsInv
  BY <1>1 DEF ItemsInv, RoutesHome
<1>5. RotationInv
  <2>1. queue \in Seq(Ids \X (0 .. U32Span - 1)) /\ Len(queue) = 0 /\ Len(live_ids) = 0
    BY <1>1
  <2>2. Aged(slots, queue, <<>>) /\ <<>> \in [DOMAIN queue -> Nat]
    BY <1>1 DEF Aged
  <2>3. StaleIn(Len(queue)) = 0
    <3>1. 1 .. Len(queue) \ CurrentIn(Len(queue)) = {}
      BY <2>1 DEF CurrentIn
    <3>2. QED
      BY <3>1, FS_EmptySet DEF StaleIn
  <2>4. stale \in Nat /\ stale <= Len(live_ids) /\ stale < U32Span
    BY <1>1, <2>1, RoundRobinAssumption
  <2>5. QED
    BY <1>1, <2>1, <2>2, <2>3, <2>4 DEF RotationInv
<1>6. QED
  BY <1>2, <1>3, <1>4, <1>5 DEF RoundRobinInv

LEMMA RoundRobinStep ==
  ASSUME RoundRobinInv, [RoundRobinNext]_roundRobinVars PROVE RoundRobinInv'
<1>0. SlotsInv /\ SlabExact /\ ItemsInv /\ RotationInv
  BY DEF RoundRobinInv
<1>1. ASSUME NEW c \in Children, AddChild(c) PROVE RoundRobinInv'
  <2>1. SlotsInv' /\ SlabExact'
    BY <1>0, <1>1, AddChildSlab
  <2>2. ItemsInv'
    BY <1>0, <1>1, MembersItems
  <2>3. RotationInv'
    BY <1>0, <1>1, AddChildRotation
  <2>4. QED
    BY <2>1, <2>2, <2>3 DEF RoundRobinInv
<1>2. ASSUME NEW id \in Ids, RemoveChild(id) PROVE RoundRobinInv'
  <2>1. SlotsInv' /\ SlabExact'
    BY <1>0, <1>2, RemoveChildSlab
  <2>2. ItemsInv'
    BY <1>0, <1>2, MembersItems
  <2>3. RotationInv'
    BY <1>0, <1>2, RemoveChildRotation
  <2>4. QED
    BY <2>1, <2>2, <2>3 DEF RoundRobinInv
<1>3. ASSUME NEW item \in Items, TakeNextSome(item) PROVE RoundRobinInv'
  <2>1. SlotsInv' /\ SlabExact' /\ ItemsInv'
    BY <1>0, <1>3, TakeNextSomeSlab
  <2>2. RotationInv'
    BY <1>0, <1>3, TakeNextRotation
  <2>3. QED
    BY <2>1, <2>2 DEF RoundRobinInv
<1>4. ASSUME NEW item \in Items, OnComplete(item) PROVE RoundRobinInv'
  <2>1. item \in DOMAIN outstanding
    BY <1>4 DEF OnComplete
  <2>2. SlotsInv' /\ SlabExact' /\ ItemsInv'
    BY <1>0, <1>4, <2>1, OnCompleteSlab
  <2>3. RotationInv'
    BY <1>0, <1>4, OthersRotation
  <2>4. QED
    BY <2>2, <2>3 DEF RoundRobinInv
<1>5. CASE TakeNextNone
  <2>1. SlotsInv' /\ SlabExact' /\ ItemsInv'
    BY <1>0, <1>5, OthersSlab
  <2>2. RotationInv'
    BY <1>0, <1>5, TakeNextRotation
  <2>3. QED
    BY <2>1, <2>2 DEF RoundRobinInv
<1>6. CASE (\E c \in Children : ChildChanges(c)) \/ UNCHANGED roundRobinVars
  <2>1. SlotsInv' /\ SlabExact' /\ ItemsInv'
    BY <1>0, <1>6, OthersSlab
  <2>2. RotationInv'
    BY <1>0, <1>6, OthersRotation
  <2>3. QED
    BY <2>1, <2>2 DEF RoundRobinInv
<1>7. QED
  BY <1>1, <1>2, <1>3, <1>4, <1>5, <1>6 DEF RoundRobinNext

\* The invariant implies that every live child is in the rotation once.
LEMMA RotationIsExact ==
  ASSUME RoundRobinInv PROVE RotationExact
<1> SUFFICES ASSUME NEW id \in Ids, IsLive(id)
             PROVE  Cardinality({k \in DOMAIN queue :
                                   queue[k][1] = id /\ Current(slots, queue[k])}) = 1
  BY DEF RotationExact
<1>1. queue \in Seq(Ids \X (0 .. U32Span - 1)) /\ slots \in Seq(Slot)
  BY DEF RoundRobinInv, RotationInv, SlotsInv
<1>2. PICK ages : Aged(slots, queue, ages)
  BY DEF RoundRobinInv, RotationInv
<1>3. id \in DOMAIN slots /\ slots[id].entry = "Live"
  BY DEF Ids, IsLive
<1>4. PICK k \in DOMAIN queue :
         /\ queue[k][1] = id /\ Current(slots, queue[k])
         /\ \A m \in DOMAIN queue : queue[m][1] = id /\ Current(slots, queue[m]) => m = k
  BY <1>1, <1>2, <1>3, OneCurrent
<1>5. {m \in DOMAIN queue : queue[m][1] = id /\ Current(slots, queue[m])} = {k}
  BY <1>4
<1>6. Cardinality({k}) = 1
  BY FS_Singleton
<1>7. QED
  BY <1>5, <1>6

\* And that the rotation is at most twice as long as there are live children.
LEMMA RotationIsShort ==
  ASSUME RoundRobinInv PROVE Len(queue) <= 2 * Len(live_ids)
<1>1. /\ queue \in Seq(Ids \X (0 .. U32Span - 1)) /\ slots \in Seq(Slot) /\ live_ids \in Seq(Ids)
      /\ stale = Cardinality(StaleAt(slots, queue)) /\ stale <= Len(live_ids) /\ stale \in Nat
  BY RotationFacts DEF RoundRobinInv, SlotsInv
<1>2. PICK ages : Aged(slots, queue, ages)
  BY DEF RoundRobinInv, RotationInv
<1>3. PICK L, n : L = Len(queue) /\ n = Len(live_ids)
  OBVIOUS
<1>4. L \in Nat /\ n \in Nat /\ DOMAIN queue = 1 .. L /\ DOMAIN live_ids = 1 .. n
  BY <1>1, <1>3
<1> DEFINE C == {k \in DOMAIN queue : Current(slots, queue[k])}
           h == [k \in C |-> slots[queue[k][1]].live_pos]
<1>5. ASSUME NEW k \in C
      PROVE  h[k] \in 1 .. n /\ live_ids[h[k]] = queue[k][1]
  <2>1. queue[k][1] \in Ids /\ IsLive(queue[k][1])
    BY DEF Current, Ids, IsLive
  <2>2. PICK p \in DOMAIN live_ids : live_ids[p] = queue[k][1]
    BY <2>1 DEF RoundRobinInv, SlabExact, ToSet
  <2>3. slots[live_ids[p]].live_pos = p
    BY DEF RoundRobinInv, SlabExact
  <2>4. QED
    BY <1>4, <2>2, <2>3
<1>6. ASSUME NEW k \in C, NEW m \in C, h[k] = h[m] PROVE k = m
  <2>1. PICK id : id = queue[k][1] /\ id = queue[m][1]
    BY <1>5, <1>6
  <2>2. id \in DOMAIN slots /\ slots[id].entry = "Live"
    BY <2>1 DEF Current
  <2>3. PICK j \in DOMAIN queue :
         /\ queue[j][1] = id /\ Current(slots, queue[j])
         /\ \A x \in DOMAIN queue : queue[x][1] = id /\ Current(slots, queue[x]) => x = j
    BY SMTT(60), <1>1, <1>2, <2>2, OneCurrent
  <2>4. QED
    BY <2>1, <2>3
<1>7. h \in Injection(C, 1 .. n)
  BY <1>5, <1>6 DEF Injection, IsInjective
<1> HIDE DEF h
<1>8. IsFiniteSet(1 .. n) /\ Cardinality(1 .. n) = n /\ IsFiniteSet(1 .. L) /\ Cardinality(1 .. L) = L
  BY <1>4, FS_Interval
<1>9. Cardinality(C) <= n
  BY <1>7, <1>8, FS_Injection
<1>10. /\ 1 .. L = StaleAt(slots, queue) \cup C /\ StaleAt(slots, queue) \cap C = {}
       /\ StaleAt(slots, queue) \in SUBSET (1 .. L) /\ C \in SUBSET (1 .. L)
  BY <1>4 DEF StaleAt
<1> HIDE DEF C
<1>11. /\ IsFiniteSet(StaleAt(slots, queue)) /\ IsFiniteSet(C)
       /\ Cardinality(C) \in Nat /\ Cardinality({}) = 0
  BY <1>8, <1>10, FS_Subset, FS_CardinalityType, FS_EmptySet
<1>12. Cardinality(1 .. L) = Cardinality(StaleAt(slots, queue)) + Cardinality(C)
  <2>1. Cardinality(StaleAt(slots, queue) \cup C)
          = Cardinality(StaleAt(slots, queue)) + Cardinality(C)
            - Cardinality(StaleAt(slots, queue) \cap C)
    BY <1>11, FS_Union
  <2>2. Cardinality(StaleAt(slots, queue) \cap C) = 0
    BY <1>10, <1>11
  <2>3. Cardinality(1 .. L) = Cardinality(StaleAt(slots, queue) \cup C)
    BY <1>10
  <2>4. Cardinality(StaleAt(slots, queue)) \in Nat
    BY <1>1
  <2>5. QED
    BY <1>11, <2>1, <2>2, <2>3, <2>4
<1>13. QED
  BY <1>1, <1>3, <1>4, <1>8, <1>9, <1>11, <1>12

\* RoundRobinInv holds in every state: the round-robin branch's slab, its free
\* and live lists, its items in flight and the ages of its rotation entries
\* agree, for any number of children and items a u32 counts.
THEOREM RoundRobinInvariance == RoundRobinSpec => []RoundRobinInv
<1>1. RoundRobinInit => RoundRobinInv
  BY RoundRobinStart
<1>2. RoundRobinInv /\ [RoundRobinNext]_roundRobinVars => RoundRobinInv'
  BY RoundRobinStep
<1>3. QED
  BY <1>1, <1>2, PTL DEF RoundRobinSpec

\* add_child, remove_child, take_next and on_complete keep the membership
\* exact: slots, lists, rotation and stale counter always agree.
THEOREM MembershipCorrect == RoundRobinSpec => []MembershipExact
<1>1. ASSUME RoundRobinInv PROVE MembershipExact
  <2>1. RoundRobinTypeOK
    <3>1. ready \subseteq Children
      <4>1. ASSUME NEW c \in ready PROVE c \in Children
        <5>1. PICK i \in Ids : IsLive(i) /\ slots[i].child = c
          BY <1>1 DEF RoundRobinInv, SlotsInv, LiveChildren
        <5>2. QED
          BY <1>1, <5>1 DEF RoundRobinInv, SlotsInv, IsLive
      <4>2. QED
        BY <4>1
    <3>2. QED
      BY <1>1, <3>1 DEF RoundRobinTypeOK, RoundRobinInv, SlotsInv, ItemsInv, RotationInv
  <2>2. SlabExact /\ stale = StaleIn(Len(queue))
    BY <1>1 DEF RoundRobinInv, RotationInv
  <2>3. RotationExact /\ StaleBounded
    BY <1>1, <2>2, RotationIsExact, RotationIsShort DEF StaleBounded
  <2>4. QED
    BY <2>1, <2>2, <2>3 DEF MembershipExact
<1>2. QED
  BY <1>1, RoundRobinInvariance, PTL

\* on_complete finds the child that dispatched the item, and every slot counts
\* its items in flight, however often children are removed and ids recycled.
THEOREM RoutingCorrect == RoundRobinSpec => []RoutesHome
<1>1. RoundRobinInv => RoutesHome
  BY DEF RoundRobinInv, ItemsInv
<1>2. QED
  BY <1>1, RoundRobinInvariance, PTL

\* The positions of the current entries of child c.
PlaceAt(sl, q, c) == {k \in DOMAIN q : Current(sl, q[k]) /\ sl[q[k][1]].child = c}

LEMMA Places ==
  ASSUME NEW X, queue \in Seq(X), NEW c
  PROVE  Place(c) = PlaceAt(slots, queue, c)
<1>1. DOMAIN queue = 1 .. Len(queue)
  OBVIOUS
<1>2. QED
  BY <1>1 DEF Place, PlaceAt, CurrentIn

\* A live child has one place.
LEMMA OnePlace ==
  ASSUME RoundRobinInv, NEW c \in LiveChildren
  PROVE  \E k \in DOMAIN queue : /\ Current(slots, queue[k]) /\ slots[queue[k][1]].child = c
                                 /\ \A m \in PlaceAt(slots, queue, c) : m = k
<1>1. queue \in Seq(Ids \X (0 .. U32Span - 1)) /\ slots \in Seq(Slot)
  BY DEF RoundRobinInv, RotationInv, SlotsInv
<1>2. PICK ages : Aged(slots, queue, ages)
  BY DEF RoundRobinInv, RotationInv
<1>3. PICK id \in Ids : slots[id].entry = "Live" /\ slots[id].child = c
  BY DEF LiveChildren, IsLive
<1>4. PICK k \in DOMAIN queue :
         /\ queue[k][1] = id /\ Current(slots, queue[k])
         /\ \A m \in DOMAIN queue : queue[m][1] = id /\ Current(slots, queue[m]) => m = k
  BY <1>1, <1>2, <1>3, OneCurrent DEF Ids
<1>5. \A i, j \in Ids : /\ slots[i].entry # "Free" /\ slots[j].entry # "Free"
                        /\ slots[i].child = slots[j].child
                        => i = j
  BY DEF RoundRobinInv, SlotsInv
<1>6. ASSUME NEW m \in PlaceAt(slots, queue, c) PROVE m = k
  <2>1. /\ m \in DOMAIN queue /\ Current(slots, queue[m]) /\ slots[queue[m][1]].child = c
        /\ queue[m][1] \in Ids /\ slots[queue[m][1]].entry = "Live"
    BY DEF PlaceAt, Current, Ids
  <2>2. queue[m][1] = id
    BY <1>3, <1>5, <2>1
  <2>3. QED
    BY <1>4, <2>1, <2>2
<1>7. QED
  BY <1>3, <1>4, <1>6

\* Asking the first n entries moves the others to the front, in their order.
LEMMA RotatedFront ==
  ASSUME NEW L \in Nat, NEW n \in 0 .. L, NEW f, NEW D,
         \A i \in D : i \in Nat,
         \A i \in D : f[i] > n => f[i] = n + i,
         \A k \in 1 .. L : k > n => \E i \in D : f[i] = k,
         NEW j \in 1 .. L - n
  PROVE  j \in D /\ f[j] = n + j
<1>1. PICK k \in 1 .. L : k = n + j /\ k > n
  <2>1. n + j \in 1 .. L /\ n + j > n
    OBVIOUS
  <2>2. QED
    BY <2>1
<1>2. PICK i \in D : f[i] = k
  BY <1>1
<1>3. f[i] = n + i /\ i \in Nat
  BY <1>1, <1>2
<1>4. i = j
  BY <1>1, <1>2, <1>3
<1>5. QED
  BY <1>2, <1>3, <1>4

\* What one take_next does to the children in front of c: it serves one of

\* them, which falls behind, and moves nobody to the front.
LEMMA ServedFallsBehind ==
  ASSUME RoundRobinInv, NEW item \in Items, TakeNextSome(item),
         NEW c \in ready, NEW d \in Children, Serves(d), d # c
  PROVE  d \in Ahead(c) /\ Ahead(c)' \subseteq Ahead(c) \ {d}
<1>0. SlotsInv /\ SlabExact /\ ItemsInv /\ RotationInv
  BY DEF RoundRobinInv
<1>1. PICK k \in Willing, id \in Ids :
         /\ id = queue[k][1] /\ slots[id].entry = "Live"
         /\ \A m \in Willing : k <= m
         /\ item \notin DOMAIN outstanding /\ queue' = Rotated(k)
         /\ outstanding' = [i \in DOMAIN outstanding \cup {item} |->
                IF i = item THEN [child |-> slots[id].child, id |-> id] ELSE outstanding[i]]
         /\ DOMAIN slots' = DOMAIN slots
         /\ \A i \in Ids : /\ slots'[i].entry = slots[i].entry /\ slots'[i].child = slots[i].child
                           /\ slots'[i].generation = slots[i].generation
  BY ZenonT(60), <1>0, TakeNextEffect
<1>2. d = slots[id].child
  BY <1>1 DEF Serves
<1>3. PICK X : X = Ids \X (0 .. U32Span - 1) /\ queue \in Seq(X)
  BY DEF RoundRobinInv, RotationInv
<1>4. PICK L \in Nat : L = Len(queue) /\ DOMAIN queue = 1 .. L
  BY <1>3
<1>5. /\ k \in 1 .. L /\ Current(slots, queue[k]) /\ slots[queue[k][1]].child = d
      /\ c \in LiveChildren /\ d \in LiveChildren
  <2>1. k \in 1 .. L /\ Current(slots, queue[k])
    BY <1>4 DEF Willing, CurrentIn
  <2>2. c \in LiveChildren
    BY DEF RoundRobinInv, SlotsInv
  <2>3. d \in LiveChildren
    BY <1>1, <1>2 DEF LiveChildren, IsLive
  <2>4. QED
    BY <1>1, <1>2, <2>1, <2>2, <2>3
<1>6. PICK m \in 1 .. L : /\ Current(slots, queue[m]) /\ slots[queue[m][1]].child = c
                          /\ \A x \in PlaceAt(slots, queue, c) : x = m
  BY <1>4, <1>5, OnePlace
<1>7. \A x \in PlaceAt(slots, queue, d) : x = k
  <2>1. PICK y \in DOMAIN queue : \A x \in PlaceAt(slots, queue, d) : x = y
    BY <1>5, OnePlace
  <2>2. k \in PlaceAt(slots, queue, d)
    BY <1>4, <1>5 DEF PlaceAt
  <2>3. QED
    BY <2>1, <2>2
<1>8. k < m
  <2>1. m \in Willing
    BY <1>4, <1>6 DEF Willing, CurrentIn
  <2>2. k <= m /\ k # m
    BY <1>1, <1>5, <1>6, <2>1
  <2>3. QED
    BY <1>5, <1>6, <2>2
<1>9. /\ \A y : Place(y) = PlaceAt(slots, queue, y)
      /\ \A y : Ahead(y) = {e \in LiveChildren : \E x \in PlaceAt(slots, queue, e) :
                                 \A z \in PlaceAt(slots, queue, y) : x < z}
  <2>1. \A y : Place(y) = PlaceAt(slots, queue, y)
    BY <1>3, Places
  <2>2. QED
    BY <2>1 DEF Ahead
<1>10. d \in Ahead(c)
  <2>1. k \in PlaceAt(slots, queue, d) /\ \A z \in PlaceAt(slots, queue, c) : k < z
    BY <1>4, <1>5, <1>6, <1>8 DEF PlaceAt
  <2>2. QED
    BY <1>5, <1>9, <2>1
<1>11. PICK t : t = queue' /\ t = Rotated(k)
  BY <1>1
<1>12. PICK f : /\ t \in Seq(X) /\ f \in [DOMAIN t -> DOMAIN queue]
                /\ \A i \in DOMAIN t : t[i] = queue[f[i]]
                /\ \A i \in DOMAIN t : f[i] > k => f[i] = k + i
                /\ \A j \in 1 .. L : j > k => \E i \in DOMAIN t : f[i] = j
  <2>1. k \in 0 .. Len(queue)
    BY <1>4, <1>5
  <2>2. /\ t \in Seq(X)
        /\ \E f : /\ Reorders(f, slots, queue, t)
                  /\ \A i \in DOMAIN t : f[i] > k => f[i] = k + i
                  /\ \A i \in DOMAIN t : f[i] > k \/ Current(slots, queue[f[i]])
                  /\ \A j \in DOMAIN queue : j > k => \E i \in DOMAIN t : f[i] = j
    BY <1>3, <1>11, <2>1, RotatedPlaces
  <2>3. QED
    BY SMTT(60), <1>4, <2>2 DEF Reorders
<1>13. \A j \in 1 .. L - k : j \in DOMAIN t /\ f[j] = k + j
  <2>1. \A i \in DOMAIN t : i \in Nat
    BY <1>12
  <2>2. k \in 0 .. L
    BY <1>5
  <2>3. PICK D : D = DOMAIN t
    OBVIOUS
  <2>4. /\ \A i \in D : i \in Nat
        /\ \A i \in D : f[i] > k => f[i] = k + i
        /\ \A j \in 1 .. L : j > k => \E i \in D : f[i] = j
    BY <1>12, <2>1, <2>3
  <2>5. \A j \in 1 .. L - k : j \in D /\ f[j] = k + j
    BY <2>2, <2>4, RotatedFront
  <2>6. QED
    BY <2>3, <2>5
<1>14. PICK sm : sm = slots'
  OBVIOUS
<1>15. /\ \A e : Current(sm, e) <=> Current(slots, e)
       /\ \A e : Current(slots, e) => sm[e[1]].child = slots[e[1]].child
  <2>1. \A e : Current(sm, e) <=> Current(slots, e)
    BY <1>1, <1>14 DEF Current, Ids
  <2>2. \A e : Current(slots, e) => sm[e[1]].child = slots[e[1]].child
    BY <1>1, <1>14 DEF Current, Ids
  <2>3. QED
    BY <2>1, <2>2
<1>16. ASSUME NEW y, NEW i \in PlaceAt(sm, t, y)
       PROVE  i \in DOMAIN t /\ f[i] \in PlaceAt(slots, queue, y)
  BY <1>12, <1>15 DEF PlaceAt
<1>17. m - k \in PlaceAt(sm, t, c) /\ m - k \in 1 .. L - k
  <2>1. m - k \in 1 .. L - k
    BY <1>5, <1>6, <1>8
  <2>2. m - k \in DOMAIN t /\ f[m - k] = k + (m - k)
    BY <1>13, <2>1
  <2>3. t[m - k] = queue[m]
    <3>1. k + (m - k) = m
      BY <1>5, <1>6
    <3>2. QED
      BY <1>12, <2>2, <3>1
  <2>4. QED
    BY <1>6, <1>15, <2>1, <2>2, <2>3 DEF PlaceAt
<1>18. /\ LiveChildren' = LiveChildren
       /\ \A y : Place(y)' = PlaceAt(sm, t, y)
  <2>1. LiveChildren' = LiveChildren
    <3>1. Ids' = Ids
      BY <1>1 DEF Ids
    <3>2. \A i \in Ids : (IsLive(i)' <=> IsLive(i)) /\ slots'[i].child = slots[i].child
      BY <1>1 DEF IsLive
    <3>3. QED
      BY <3>1, <3>2 DEF LiveChildren
  <2>2. DOMAIN t = 1 .. Len(t)
    BY <1>12
  <2>3. \A y : Place(y)' = PlaceAt(sm, t, y)
    BY <1>11, <1>14, <2>2 DEF Place, PlaceAt, CurrentIn
  <2>4. QED
    BY <2>1, <2>3
<1>19. ASSUME NEW e \in Ahead(c)' PROVE e \in Ahead(c) /\ e # d
  <2>1. PICK x \in PlaceAt(sm, t, e) : e \in LiveChildren /\ \A z \in PlaceAt(sm, t, c) : x < z
    BY <1>18 DEF Ahead
  <2>2. x < m - k
    BY <1>17, <2>1
  <2>3. x \in DOMAIN t /\ f[x] \in PlaceAt(slots, queue, e)
    BY <1>16
  <2>4. x \in 1 .. L - k
    <3>1. x \in Nat /\ x >= 1
      BY <1>12, <2>3
    <3>2. QED
      BY <1>5, <1>17, <2>2, <3>1
  <2>5. f[x] = k + x
    BY <1>13, <2>4
  <2>6. f[x] < m /\ f[x] # k
    BY <1>5, <1>6, <2>2, <2>4, <2>5
  <2>7. e # d
    BY <1>7, <2>3, <2>6
  <2>8. \A z \in PlaceAt(slots, queue, c) : f[x] < z
    BY <1>6, <2>6
  <2>9. QED
    BY <1>9, <2>1, <2>3, <2>7, <2>8
<1>20. QED
  BY <1>10, <1>19

\* While a child of a round-robin branch has work, take_next serves the
\* children in front of it and puts each behind it: no other child is served
\* twice before it, for any number of children under any churn.
THEOREM NoOvertaking == RoundRobinSpec => NobodyOvertakes
<1>1. ASSUME RoundRobinInv, RoundRobinNext,
             NEW c \in ready \cap ready', NEW d \in Children, Serves(d), d # c
      PROVE  d \in Ahead(c) /\ Ahead(c)' \subseteq Ahead(c) \ {d}
  <2>1. ~(DOMAIN outstanding' \subseteq DOMAIN outstanding)
    BY <1>1 DEF Serves
  <2>2. PICK item \in Items : TakeNextSome(item)
    <3>1. \A x \in Children : AddChild(x) \/ ChildChanges(x) => outstanding' = outstanding
      BY DEF AddChild, ChildChanges
    <3>2. \A id \in Ids : RemoveChild(id) => outstanding' = outstanding
      BY DEF RemoveChild
    <3>3. TakeNextNone => outstanding' = outstanding
      BY DEF TakeNextNone
    <3>4. \A item \in Items : OnComplete(item) => DOMAIN outstanding' \subseteq DOMAIN outstanding
      BY DEF OnComplete
    <3>5. QED
      BY <1>1, <2>1, <3>1, <3>2, <3>3, <3>4 DEF RoundRobinNext
  <2>3. QED
    BY <1>1, <2>2, ServedFallsBehind
<1>2. RoundRobinInv /\ RoundRobinNext =>
        \A c \in ready \cap ready', d \in Children :
          Serves(d) /\ d # c => d \in Ahead(c) /\ Ahead(c)' \subseteq Ahead(c) \ {d}
  BY <1>1
<1>3. RoundRobinInv /\ [RoundRobinNext]_roundRobinVars =>
        [ \A c \in ready \cap ready', d \in Children :
            Serves(d) /\ d # c =>
              d \in Ahead(c) /\ Ahead(c)' \subseteq Ahead(c) \ {d} ]_roundRobinVars
  BY <1>2
<1>4. QED
  BY <1>3, RoundRobinInvariance, PTL DEF RoundRobinSpec, NobodyOvertakes
=============================================================================
