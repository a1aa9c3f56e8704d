-------------------------- MODULE DeliveryContract --------------------------
(***************************************************************************)
(* What automatic delivery promises about a message sent to one mailbox    *)
(* address, whatever worker, registry and app-server do in between:        *)
(*                                                                         *)
(*   - a message is held for one thread, its addressee, and only that      *)
(*     thread's conversation can ever contain it;                          *)
(*   - it is offered to the thread at most once at a time, and offered     *)
(*     again only after an offer that is known to have been turned down;   *)
(*   - an offer whose outcome is unknown is never repeated;                *)
(*   - an accepted message is in the conversation exactly once.            *)
(*                                                                         *)
(* MailboxDelivery implements this specification.                          *)
(***************************************************************************)
EXTENDS Naturals

CONSTANTS
    Jobs,       \* messages, named by their job_id
    Threads,    \* Codex threads, the owners of mailbox addresses
    NoThread    \* no thread

VARIABLES
    status,     \* status[j]: where message j is in its life
    addressee,  \* addressee[j]: the thread j was written for
    context     \* context[j][t]: how often j was put into t's conversation

contractVars == <<status, addressee, context>>

Statuses == {"unsent", "held", "offered", "accepted", "unresolved", "withdrawn"}

(* A message left behind by an address's earlier life belongs to nobody:   *)
(* it starts withdrawn.                                                    *)
Init ==
    /\ status \in [Jobs -> {"unsent", "withdrawn"}]
    /\ addressee = [j \in Jobs |-> NoThread]
    /\ context = [j \in Jobs |-> [t \in Threads |-> 0]]

Hold(j, t) ==
    /\ status[j] = "unsent"
    /\ status' = [status EXCEPT ![j] = "held"]
    /\ addressee' = [addressee EXCEPT ![j] = t]
    /\ UNCHANGED context

Offer(j) ==
    /\ status[j] = "held"
    /\ status' = [status EXCEPT ![j] = "offered"]
    /\ UNCHANGED <<addressee, context>>

Accept(j) ==
    /\ status[j] = "offered"
    /\ addressee[j] \in Threads
    /\ status' = [status EXCEPT ![j] = "accepted"]
    /\ context' = [context EXCEPT ![j][addressee[j]] = @ + 1]
    /\ UNCHANGED addressee

(* The offer ends without acceptance: turned down (the message is held     *)
(* again), of unknown outcome, or of a message withdrawn in the meantime.  *)
EndOffer(j, outcome) ==
    /\ status[j] = "offered"
    /\ status' = [status EXCEPT ![j] = outcome]
    /\ UNCHANGED <<addressee, context>>

(* The outcome of an offer that was turned down never reached the disk.    *)
Forget(j) ==
    /\ status[j] = "held"
    /\ status' = [status EXCEPT ![j] = "unresolved"]
    /\ UNCHANGED <<addressee, context>>

(* Messages are handled by their receiver, or archived with the address.   *)
Withdraw(S) ==
    /\ \A j \in S : status[j] \in {"held", "unresolved"}
    /\ status' = [j \in Jobs |-> IF j \in S THEN "withdrawn" ELSE status[j]]
    /\ UNCHANGED <<addressee, context>>

Next ==
    \/ \E j \in Jobs, t \in Threads : Hold(j, t)
    \/ \E j \in Jobs : Offer(j) \/ Accept(j) \/ Forget(j)
    \/ \E j \in Jobs, outcome \in {"held", "unresolved", "withdrawn"} :
          EndOffer(j, outcome)
    \/ \E S \in SUBSET Jobs : Withdraw(S)

Spec == Init /\ [][Next]_contractVars

=============================================================================
