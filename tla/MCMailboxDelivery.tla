------------------------- MODULE MCMailboxDelivery --------------------------
(***************************************************************************)
(* Instances of MailboxDelivery for TLC.  Jobs, threads and the absent     *)
(* values are model values; jobs and threads are interchangeable.          *)
(***************************************************************************)
EXTENDS MailboxDelivery, TLC

Symmetry == Permutations(Jobs) \cup Permutations(Threads)
=============================================================================
