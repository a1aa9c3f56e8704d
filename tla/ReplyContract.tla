---------------------------- MODULE ReplyContract ----------------------------
(***************************************************************************)
(* What answering promises the agent that asked one question, whatever     *)
(* calls of reply repeat, overlap, raise or die, and whoever acknowledges  *)
(* the question meanwhile:                                                 *)
(*                                                                         *)
(*   - one answer is chosen before anything is sent, and it is the only    *)
(*     one that can ever be delivered;                                     *)
(*   - the choice is taken back only while nothing was delivered; when it  *)
(*     is not known whether something was, nobody may choose again;        *)
(*   - once the answer is known to be delivered the question is closed,    *)
(*     with that answer, for good;                                         *)
(*   - no answer but that one is ever reported as the one that was sent.   *)
(*                                                                         *)
(* Conversation implements this specification.                             *)
(***************************************************************************)
CONSTANTS
    Replies,    \* the answers that may be given
    Nobody      \* no answer

VARIABLES
    state,      \* "open", "claimed": perhaps delivered, or "answered"
    answer,     \* the answer that was chosen
    delivered,  \* answers the agent that asked has received
    reported    \* answers the question's receipt shows as sent

contractVars == <<state, answer, delivered, reported>>

Init ==
    /\ state = "open"
    /\ answer = Nobody
    /\ delivered = {}
    /\ reported = {}

Claim(c) ==
    /\ state = "open"
    /\ state' = "claimed"
    /\ answer' = c
    /\ UNCHANGED <<delivered, reported>>

Deliver ==
    /\ state = "claimed"
    /\ delivered' = {answer}
    /\ UNCHANGED <<state, answer, reported>>

Withdraw ==
    /\ state = "claimed"
    /\ delivered = {}
    /\ state' = "open"
    /\ answer' = Nobody
    /\ UNCHANGED <<delivered, reported>>

Settle ==
    /\ state = "claimed"
    /\ delivered = {answer}
    /\ state' = "answered"
    /\ UNCHANGED <<answer, delivered, reported>>

Report ==
    /\ state = "answered"
    /\ reported' = {answer}
    /\ UNCHANGED <<state, answer, delivered>>

(* The receipt is replaced by one that tells of no sent answer.            *)
Unreport ==
    /\ reported' = {}
    /\ UNCHANGED <<state, answer, delivered>>

Next ==
    \/ \E c \in Replies : Claim(c)
    \/ Deliver \/ Withdraw \/ Settle \/ Report \/ Unreport

Spec == Init /\ [][Next]_contractVars

-----------------------------------------------------------------------------
(* What that amounts to: nobody ever has, or is shown, an answer but the   *)
(* one that was chosen, and the question is closed only when the agent     *)
(* that asked has it.                                                      *)
OneAnswerGiven ==
    /\ state \in {"open", "claimed", "answered"}
    /\ delivered \subseteq {answer}
    /\ state = "open" => delivered = {}
    /\ state = "answered" => delivered = {answer}
    /\ reported \subseteq delivered

=============================================================================
