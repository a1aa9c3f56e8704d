--------------------------- MODULE MCPaneRegistry ---------------------------
(* Instances of PaneRegistry for TLC.                                      *)
EXTENDS PaneRegistry, TLC

Symmetry == Permutations(Panes) \cup Permutations(Threads) \cup Permutations(Pruners)
=============================================================================
