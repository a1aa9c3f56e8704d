--------------------------- MODULE MCPaneDelivery ---------------------------
(* Instances of PaneDelivery for TLC.                                      *)
EXTENDS PaneDelivery, TLC

Symmetry == Permutations(Jobs) \cup Permutations(Panes)
=============================================================================
