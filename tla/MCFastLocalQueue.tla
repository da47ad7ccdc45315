-------------------------- MODULE MCFastLocalQueue --------------------------
(* Instances of FastLocalQueue for TLC. *)
EXTENDS FastLocalQueue, TLC

Symmetry == Permutations(Consumers)
=============================================================================
