---------------------------- MODULE MCFastQueue ----------------------------
(* Instances of FastQueue for TLC. *)
EXTENDS FastQueue, TLC

Symmetry == Permutations(Producers) \cup Permutations(Consumers)
=============================================================================
