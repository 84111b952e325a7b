------------------------ MODULE StochasticFairQueue ------------------------
(***************************************************************************)
(* The stochastic fair queue (dispatcher/src/schedulers/queue_sfq.rs), the *)
(* queue discipline that serves hashed flows in turn.  BoundedQueue calls  *)
(* it under its mutex: it pushes ids that are not queued, removes the id   *)
(* of an evicted entry, and takes the next one.  The hash of a flow is any *)
(* bucket, and the same one whenever it is asked.                          *)
(***************************************************************************)
EXTENDS Integers, FiniteSets, Sequences, SequencesExt

CONSTANTS
  Entries,      \* QueueEntryIds that may be queued
  BucketCount   \* the number of buckets, NonZeroUsize

ASSUME FairQueueAssumption == BucketCount \in Nat \ {0}

VARIABLES
  buckets,      \* bucket -> the ids queued in it
  active,       \* the rotation of buckets
  membership,   \* id -> its bucket
  overtaken     \* history: <<b, c>>, bucket c was served while b waited

fairQueueVars == <<buckets, active, membership, overtaken>>

Buckets == 1 .. BucketCount

FairQueueInit ==
  /\ buckets = [b \in Buckets |-> <<>>]
  /\ active = <<>>
  /\ membership = <<>>
  /\ overtaken = {}

\* History: bucket b stops waiting.
WaitOver(b) == {o \in overtaken : o[1] # b}

Forget(id) == [e \in DOMAIN membership \ {id} |-> membership[e]]

\* push: a bucket that was empty joins the end of the rotation.
FairPush(id, b) ==
  /\ id \in Entries \ DOMAIN membership
  /\ active' = IF buckets[b] = <<>> THEN Append(active, b) ELSE active
  /\ buckets' = [buckets EXCEPT ![b] = Append(@, id)]
  /\ membership' = [e \in DOMAIN membership \cup {id} |->
                      IF e = id THEN b ELSE membership[e]]
  /\ UNCHANGED overtaken

\* Mutant: the bucket that was served goes on in front.
TurnKept(b, rest) == IF buckets'[b] = <<>> THEN rest ELSE <<b>> \o rest

\* The rotation after bucket b was served: to the end while it holds more.
TurnOver(b, rest) == IF buckets'[b] = <<>> THEN rest ELSE Append(rest, b)

\* take_next: the first bucket of the rotation, its oldest id.
FairTakeNext ==
  /\ active # <<>>
  /\ LET b == Head(active) IN
     IF buckets[b] = <<>>
     THEN active' = Tail(active) /\ UNCHANGED <<buckets, membership, overtaken>>
     ELSE /\ buckets' = [buckets EXCEPT ![b] = Tail(@)]
          /\ membership' = Forget(Head(buckets[b]))
          /\ active' = TurnOver(b, Tail(active))
          /\ overtaken' = WaitOver(b) \cup {<<c, b>> : c \in ToSet(Tail(active))}

\* remove: an evicted id leaves its bucket; an emptied bucket leaves the rotation.
FairRemove(id) ==
  /\ id \in DOMAIN membership
  /\ LET b == membership[id] IN
     /\ membership' = Forget(id)
     /\ buckets' = [buckets EXCEPT ![b] = RemoveFirst(@, id)]
     /\ active' = IF buckets'[b] = <<>> THEN RemoveFirst(active, b) ELSE active
     /\ overtaken' = IF buckets'[b] = <<>> THEN WaitOver(b) ELSE overtaken

FairQueueNext ==
  \/ \E id \in Entries, b \in Buckets : FairPush(id, b)
  \/ FairTakeNext
  \/ \E id \in Entries : FairRemove(id)

FairQueueSpec == FairQueueInit /\ [][FairQueueNext]_fairQueueVars

-----------------------------------------------------------------------------
(***************************************************************************)
(* Properties.                                                             *)
(***************************************************************************)

\* Every queued id is in its bucket once, and the buckets that hold any are
\* in the rotation once each: whenever something is queued, take_next has it.
BucketsExact ==
  /\ \A b \in Buckets : IsInjective(buckets[b])
  /\ \A id \in Entries, b \in Buckets :
       id \in ToSet(buckets[b]) <=> id \in DOMAIN membership /\ membership[id] = b
  /\ IsInjective(active)
  /\ ToSet(active) = {b \in Buckets : buckets[b] # <<>>}

\* The buckets in front of b in the rotation.
InFront(b) == {c \in ToSet(active) : \E i, j \in DOMAIN active :
                 active[i] = c /\ active[j] = b /\ i < j}

\* Flows are served in turn.  The indexes agree after every push, take and
\* eviction, and a bucket that was served while another waits is behind it
\* from then on: none is served twice before one that waits, whatever is
\* pushed and evicted meanwhile (push, take_next, remove).
ServedInTurn ==
  /\ BucketsExact
  /\ \A o \in overtaken : o[2] \notin InFront(o[1])
=============================================================================
