---------------------------- MODULE MCSupervision ----------------------------
(* Instances of Supervision for TLC.                                       *)
EXTENDS Supervision, TLC

Symmetry == Permutations(Pids) \cup Permutations(Callers)
=============================================================================
