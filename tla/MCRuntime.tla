----------------------------- MODULE MCRuntime -----------------------------
(* Instances of Runtime for TLC. *)
EXTENDS Runtime

Symmetry == Permutations(Works) \cup Permutations(Ticks) \cup Permutations(Producers)
=============================================================================
