---------------------------- MODULE MCAdmission ----------------------------
(***************************************************************************)
(* What decides which item leaves and when, each over every sequence of    *)
(* calls: the leaf queue with the FIFO discipline, its producers racing    *)
(* the scheduler, and the token bucket over items of a fixed cost.  One of *)
(* them is the subject of a behaviour, the other stays as it was built.    *)
(***************************************************************************)
EXTENDS BoundedQueue, TokenBucket

VARIABLE subject

admissionVars == <<vars, bucketVars, subject>>

Config(c, a, i) == [capacity |-> c, amount |-> a, interval |-> i]

\* Ordinary rates that do not divide evenly, and every edge the
\* documentation of TokenBucketConfig names.
SomeConfigs == {Config(2, 2, 3), Config(3, 1, 2), Config(1, 3, 2),
                Config(0, 1, 2), Config(2, 0, 2), Config(2, 1, 0)}

\* What is not the subject is one of those that may be built.
OneBucket == cfg = Config(2, 2, 3) /\ cost = 1 /\ hinted /\ watch = 0
OneQueue == handles = {CHOOSE p \in Producers : TRUE}

AdmissionInit ==
  /\ subject \in {"queue", "bucket"}
  /\ Init /\ BucketInit
  /\ subject = "queue" => OneBucket
  /\ subject = "bucket" => OneQueue

AdmissionNext ==
  \/ subject = "queue" /\ Next /\ UNCHANGED <<bucketVars, subject>>
  \/ subject = "bucket" /\ BucketNext /\ UNCHANGED <<vars, subject>>

AdmissionSpec == AdmissionInit /\ [][AdmissionNext]_admissionVars
=============================================================================
