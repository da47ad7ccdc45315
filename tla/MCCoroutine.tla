---------------------------- MODULE MCCoroutine ----------------------------
(* Instances of Coroutine for TLC. *)
EXTENDS Coroutine, TLC

Symmetry == Permutations(Machines) \cup Permutations(Tasks \ {Main})
=============================================================================
