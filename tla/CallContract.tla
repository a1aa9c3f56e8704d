---------------------------- MODULE CallContract ----------------------------
(***************************************************************************)
(* What a call about one label promises its caller, whether a daemon       *)
(* carries it out, the caller itself, or, after a timeout, both:           *)
(*                                                                         *)
(*   - a registration that has returned was carried out;                   *)
(*   - nothing is carried out for a caller that did not ask, and           *)
(*   - at most twice: a second time only while it is late, which a         *)
(*     registration becomes no later than the moment it was first carried  *)
(*     out.  The second time has the whole effect of the first.            *)
(*                                                                         *)
(* Daemon implements this specification; PaneRegistry takes it for granted *)
(* when it lets a late registration be written again.                      *)
(***************************************************************************)
CONSTANTS
    Calls,          \* one per caller
    Registering,    \* those that register, for their callers
    Nobody          \* the owner that the others leave behind

VARIABLES
    phase,          \* phase[c]: "idle", "open" or "returned"
    owner,          \* the caller that has the label
    performed,      \* the calls that were carried out
    late            \* those among them that may be carried out once more

contractVars == <<phase, owner, performed, late>>

Init ==
    /\ phase \in [Calls -> {"idle", "returned"}]
    /\ performed = {c \in Calls : phase[c] = "returned"}
    /\ owner \in Registering \cup {Nobody}
    /\ late = {}

Effect(c) == owner' = IF c \in Registering THEN c ELSE Nobody

MayReturn(c) == phase' \in {phase, [phase EXCEPT ![c] = "returned"]}

Begin(c) ==
    /\ phase[c] = "idle"
    /\ phase' = [phase EXCEPT ![c] = "open"]
    /\ UNCHANGED <<owner, performed, late>>

(* Also after the caller, that only registers in its own place, returned.  *)
Perform(c) ==
    /\ phase[c] # "idle"
    /\ c \notin performed
    /\ Effect(c)
    /\ performed' = performed \cup {c}
    /\ late' \in {late, late \cup {c}}
    /\ MayReturn(c)

Repeat(c) ==
    /\ c \in late
    /\ Effect(c)
    /\ late' = late \ {c}
    /\ MayReturn(c)
    /\ UNCHANGED performed

Return(c) ==
    /\ phase[c] = "open"
    /\ c \in Registering => c \in performed
    /\ phase' = [phase EXCEPT ![c] = "returned"]
    /\ UNCHANGED <<owner, performed, late>>

(* Late requests are lost with the process that has them.                  *)
Lose(S) ==
    /\ late' = late \ S
    /\ UNCHANGED <<phase, owner, performed>>

Next ==
    \/ \E c \in Calls : Begin(c) \/ Perform(c) \/ Repeat(c) \/ Return(c)
    \/ \E S \in SUBSET Calls : Lose(S)

Spec == Init /\ [][Next]_contractVars

-----------------------------------------------------------------------------
(* What that amounts to, in any state: the label has the caller of a call  *)
(* that was carried out, and a registration that returned is one of them.  *)
CallsSound ==
    /\ \A c \in Registering : phase[c] = "returned" => c \in performed
    /\ late \subseteq performed
    /\ performed \subseteq {c \in Calls : phase[c] # "idle"}

(* And in any step: a call that was carried out and is not late has its    *)
(* turn behind it.                                                         *)
ChangeIsDue ==
    owner' # owner =>
       \E c \in Calls : /\ phase[c] # "idle"
                        /\ c \notin performed \/ c \in late
                        /\ c \in performed'
                        /\ owner' = IF c \in Registering THEN c ELSE Nobody
ChangesAreDue == [][ChangeIsDue]_contractVars
=============================================================================
