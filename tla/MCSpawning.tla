----------------------------- MODULE MCSpawning -----------------------------
(* Instances of Spawning for TLC.                                          *)
EXTENDS Spawning, TLC

Symmetry == Permutations(Panes \ {User}) \cup Permutations(Calls)
=============================================================================
