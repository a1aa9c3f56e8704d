---------------------------- MODULE MCChannelPump ---------------------------
(***************************************************************************)
(* Instances of ChannelPump for TLC.                                       *)
(***************************************************************************)
EXTENDS ChannelPump, TLC

Symmetry == Permutations(Jobs) \cup Permutations(Sessions) \cup Permutations(Pumps)
=============================================================================
