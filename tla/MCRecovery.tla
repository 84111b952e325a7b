----------------------------- MODULE MCRecovery -----------------------------
(***************************************************************************)
(* What has to come back from a fault, under the fairness of a driver that *)
(* keeps polling: the circuit breaker under its concurrency cap once it    *)
(* opened, and the leaf queue over a custom discipline that forgets,       *)
(* repeats or invents ids once it is closed.  One of them is the subject   *)
(* of a behaviour, the other stays as it was built.                        *)
(***************************************************************************)
EXTENDS CircuitBreaker, BoundedQueue

VARIABLE subject

recoveryVars == <<breakerVars, vars, subject>>

RecoveryInit ==
  /\ subject \in {"breaker", "queue"}
  /\ BreakerInit /\ Init

RecoveryNext ==
  \/ subject = "breaker" /\ BreakerNext /\ UNCHANGED <<vars, subject>>
  \/ subject = "queue" /\ Next /\ UNCHANGED <<breakerVars, subject>>

\* What is not the subject is never called.
RecoverySpec ==
  /\ RecoveryInit /\ [][RecoveryNext]_recoveryVars
  /\ subject = "breaker" => BreakerFairness
  /\ subject = "queue" => QueueFairness
=============================================================================
