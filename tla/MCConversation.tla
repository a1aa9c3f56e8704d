--------------------------- MODULE MCConversation ---------------------------
(***************************************************************************)
(* Instances of Conversation for TLC: calls are interchangeable model      *)
(* values.                                                                 *)
(***************************************************************************)
EXTENDS Conversation, TLC

Symmetry == Permutations(Replies) \cup Permutations(Acks)
=============================================================================
