--------------------------- MODULE AddressContract ---------------------------
(***************************************************************************)
(* What the registry promises about the addresses agents are reached at,   *)
(* whichever processes register, connect, unregister and prune, directly   *)
(* or late:                                                                *)
(*                                                                         *)
(*   - an agent has one address at most;                                   *)
(*   - an address that is kept for its owner goes to nobody else before it *)
(*     was freed;                                                          *)
(*   - what was written to an agent that lasts (a thread, which outlives   *)
(*     its panes) lies under that agent's address or not at all, so that   *)
(*     no later owner of the address finds it.                             *)
(*                                                                         *)
(* PaneRegistry implements this specification.                             *)
(***************************************************************************)
CONSTANTS
    Labels,     \* addresses
    Owners,     \* agents that can have one
    Lasting,    \* those among them that last
    Nobody      \* no owner

VARIABLES
    owner,      \* owner[l]: the agent whose address is l
    kept,       \* addresses that are kept for their owners
    mail        \* mail[l]: the agents whose unread mail lies under l

contractVars == <<owner, kept, mail>>

Init ==
    /\ owner = [l \in Labels |-> Nobody]
    /\ kept = {}
    /\ mail = [l \in Labels |-> {}]

(* o gets address l, and gives up any other; one that lasts gives up none. *)
Take(l, o) ==
    /\ l \in kept => owner[l] = o
    /\ o \in Lasting => \A m \in Labels \ {l} : owner[m] # o
    /\ owner' = [m \in Labels |->
                    IF m = l THEN o ELSE IF owner[m] = o THEN Nobody ELSE owner[m]]
    /\ kept' = {m \in kept : owner'[m] = owner[m]}
               \cup (IF o \in Lasting THEN {l} ELSE {})
    /\ UNCHANGED mail

Keep(l) ==
    /\ owner[l] # Nobody
    /\ kept' = kept \cup {l}
    /\ UNCHANGED <<owner, mail>>

(* The addresses S are freed.  Some of their mailboxes are archived with   *)
(* them, those of owners that last always.                                 *)
Free(S, archived) ==
    /\ {l \in S : owner[l] \in Lasting} \subseteq archived
    /\ owner' = [l \in Labels |-> IF l \in S THEN Nobody ELSE owner[l]]
    /\ kept' = kept \ S
    /\ mail' = [l \in Labels |-> IF l \in archived THEN {} ELSE mail[l]]

Send(l) ==
    /\ owner[l] # Nobody
    /\ mail' = [mail EXCEPT ![l] = @ \cup {owner[l]}]
    /\ UNCHANGED <<owner, kept>>

(* An owner that lasts takes what names it, any other all that is there.   *)
Receive(l) ==
    /\ owner[l] # Nobody
    /\ mail' = [mail EXCEPT ![l] = IF owner[l] \in Lasting THEN @ \ {owner[l]} ELSE {}]
    /\ UNCHANGED <<owner, kept>>

Archive(l) ==
    /\ mail' = [mail EXCEPT ![l] = {}]
    /\ UNCHANGED <<owner, kept>>

Next ==
    \/ \E l \in Labels : Archive(l) \/ Send(l) \/ Receive(l) \/ Keep(l)
    \/ \E l \in Labels, o \in Owners : Take(l, o)
    \/ \E S \in SUBSET Labels : \E archived \in SUBSET S : Free(S, archived)

Spec == Init /\ [][Next]_contractVars

-----------------------------------------------------------------------------
(* What that amounts to, in any state ...                                  *)
AddressesSound ==
    /\ owner \in [Labels -> Owners \cup {Nobody}]
    /\ mail \in [Labels -> SUBSET Owners]
    /\ kept \subseteq Labels
    /\ \A l \in kept : owner[l] # Nobody
    /\ \A l \in Labels : owner[l] \in Lasting => l \in kept
    /\ \A l, m \in Labels : owner[l] = owner[m] /\ owner[l] # Nobody => l = m
    /\ \A l \in Labels : \A o \in mail[l] \cap Lasting : owner[l] = o

(* ... and in any step.                                                    *)
KeptStep == \A l \in kept : owner'[l] \in {owner[l], Nobody}
AddressesKept == [][KeptStep]_contractVars
=============================================================================
