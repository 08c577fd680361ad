------------------------------- MODULE MCRunQ -------------------------------
(* Instances of RunQ small enough for TLC. *)
EXTENDS RunQ, TLC

Symmetry == Permutations(Job) \cup Permutations(Worker)
=============================================================================
