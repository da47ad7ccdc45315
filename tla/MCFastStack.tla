---------------------------- MODULE MCFastStack ----------------------------
(* Instances of FastStack for TLC. *)
EXTENDS FastStack, TLC

Symmetry == Permutations(Pushers) \cup Permutations(Readers)
=============================================================================
