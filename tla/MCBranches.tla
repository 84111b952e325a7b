----------------------------- MODULE MCBranches -----------------------------
(***************************************************************************)
(* The two rotations, each over every sequence of calls: the round-robin   *)
(* branch and the stochastic fair queue.  One of them is the subject of a  *)
(* behaviour, the other stays as it was built.                             *)
(***************************************************************************)
EXTENDS RoundRobin, StochasticFairQueue

VARIABLE subject

branchVars == <<roundRobinVars, fairQueueVars, subject>>

Symmetry == Permutations(Children) \cup Permutations(Items)

Init ==
  /\ subject \in {"round robin", "fair queue"}
  /\ RoundRobinInit /\ FairQueueInit

Next ==
  \/ subject = "round robin" /\ RoundRobinNext /\ UNCHANGED <<fairQueueVars, subject>>
  \/ subject = "fair queue" /\ FairQueueNext /\ UNCHANGED <<roundRobinVars, subject>>

Spec == Init /\ [][Next]_branchVars
=============================================================================
