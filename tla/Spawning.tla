------------------------------ MODULE Spawning ------------------------------
(***************************************************************************)
(* The commands that open and close panes: spawn, despawn and close-pane,  *)
(* with the spawn ledger, the registry of labels and the panes of iTerm.   *)
(* The MCP tools of the same names run these commands.                     *)
(*                                                                         *)
(* A pane has a TEAMMATE_LABEL, under which its agent registers when it    *)
(* has booted, and which later commands look up.                           *)
(***************************************************************************)
EXTENDS Naturals, FiniteSets

CONSTANTS
    Panes, NoPane,
    Labels,
    Mail,        \* the record of a mailbox address, which has no pane
    Calls,       \* commands, run once each
    User,        \* the pane the user starts with
    Home,        \* the label of that pane
    MailLabels   \* labels that are addresses of mailboxes in the beginning

ASSUME SpawningAssumption ==
    /\ User \in Panes /\ NoPane \notin Panes
    /\ Mail \notin Panes \cup {NoPane}
    /\ Home \in Labels /\ MailLabels \subseteq Labels \ {Home}

VARIABLES
    pane,      \* pane[p]: "unused", "booting", "open" or "closed"
    env,       \* env[p]: TEAMMATE_LABEL in pane p
    reg,       \* reg[l]: the pane registered under l
    ledger,    \* ledger[l]: the last spawn recorded under l
      \* spawned.jsonl, the other ledger: "session ids THIS project spawned"
    call,      \* call[c]: the command's progress and what it has read
    spawned,   \* history: the panes opened by spawn
    orderly,   \* history: commands were run one at a time, each to its end
    fresh      \* history: no label was given that was in use

history == <<spawned, orderly, fresh>>
vars == <<pane, env, reg, ledger, call, history>>

Open == {p \in Panes : pane[p] \in {"booting", "open"}}
NoEntry == [sid |-> NoPane, by |-> NoPane]
Entries == [sid : Panes \cup {NoPane}, by : Panes \cup {NoPane}]
Listed(book) == {l \in Labels : book[l] # NoEntry}

NewCall == [pc |-> "idle", by |-> NoPane, label |-> Home, target |-> NoPane,
            mode |-> "one", book |-> [l \in Labels |-> NoEntry], todo |-> {}]

Init ==
    /\ pane = [p \in Panes |-> IF p = User THEN "open" ELSE "unused"]
    /\ env = [p \in Panes |-> Home]
    /\ reg = [l \in Labels |-> IF l = Home THEN User ELSE IF l \in MailLabels THEN Mail ELSE NoPane]
    /\ ledger = [l \in Labels |-> NoEntry]
    /\ call = [c \in Calls |-> NewCall]
    /\ spawned = {}
    /\ orderly = TRUE /\ fresh = TRUE

-----------------------------------------------------------------------------
(* Steps of a command, and what several commands do.                       *)

At(c, pc) == call[c].pc = pc

\* The command's record after a step: to pc, with the fields of f replaced
Step(c, pc, f) ==
    call' = [call EXCEPT ![c] = [x \in DOMAIN NewCall |->
                IF x = "pc" THEN pc ELSE IF x \in DOMAIN f THEN f[x] ELSE call[c][x]]]

None == [x \in {} |-> x]

\* A command may be run beside others
Begins(c) ==
    /\ At(c, "idle")
    /\ orderly' = (orderly /\ \A d \in Calls : call[d].pc \in {"idle", "done"})

\* A label may be one that somebody has
Gives(l) ==
    fresh' = (/\ fresh
              /\ reg[l] = NoPane /\ ledger[l] = NoEntry
              /\ \A p \in Open : env[p] # l
              /\ \A c \in Calls : call[c].label # l)

CloseSession(p) ==
    pane' = IF p \in Open THEN [pane EXCEPT ![p] = "closed"] ELSE pane

DropLabel(l) == reg' = [reg EXCEPT ![l] = NoPane]

Without(book, l) == [book EXCEPT ![l] = NoEntry]

(* The pane a command is run in, found by its TEAMMATE_LABEL first.        *)
CallerSid(p) == IF reg[env[p]] \in Panes THEN reg[env[p]] ELSE p

-----------------------------------------------------------------------------
(* spawn                                                                   *)

(* The children of a pane that are on the ledger and in the registry; of   *)
(* these spawn takes the last, here any.                                   *)
Children(by) ==
    {p \in Panes : /\ \E l \in Labels : ledger[l] = [sid |-> p, by |-> by]
                   /\ \E m \in Labels : reg[m] = p}

SpawnBegin(c) ==
    /\ Begins(c)
    /\ \E p \in Open, l \in Labels :
          /\ Gives(l)
          /\ LET by == CallerSid(p)
             IN  \E a \in IF Children(by) = {} THEN {by} ELSE Children(by) :
                    Step(c, "osascript", [by |-> by, label |-> l, target |-> a])
    /\ UNCHANGED <<pane, env, reg, ledger, spawned>>

Opens(c, p) ==
    /\ pane[p] = "unused"
    /\ call[c].target \in Open
    /\ pane' = [pane EXCEPT ![p] = "booting"]
    /\ env' = [env EXCEPT ![p] = call[c].label]
    /\ spawned' = spawned \cup {p}
    /\ UNCHANGED <<reg, ledger, fresh>>

SpawnOpens(c) ==
    /\ At(c, "osascript")
    /\ \E p \in Panes : Opens(c, p) /\ Step(c, "append", [target |-> p])
    /\ UNCHANGED orderly

SpawnTimesOut(c) ==
    /\ At(c, "osascript")
    /\ \E p \in Panes : Opens(c, p) /\ Step(c, "done", None)
    /\ orderly' = FALSE

(* The MCP tool kills the command after two minutes.                       *)
SpawnKilled(c) ==
    /\ call[c].pc \in {"osascript", "append", "wait", "message"}
    /\ Step(c, "done", None)
    /\ orderly' = FALSE
    /\ UNCHANGED <<pane, env, reg, ledger, spawned, fresh>>

(* The pane to split is not there.                                         *)
SpawnFails(c) ==
    /\ At(c, "osascript")
    /\ call[c].target \notin Open
    /\ Step(c, "done", None)
    /\ UNCHANGED <<pane, env, reg, ledger, history>>

AppendLedger(c) ==
    /\ At(c, "append")
    /\ ledger' = [ledger EXCEPT ![call[c].label] = [sid |-> call[c].target, by |-> call[c].by]]
    /\ Step(c, "wait", None)
    /\ UNCHANGED <<pane, env, reg, history>>

(* spawn waits for the label, not for the pane.                            *)
SpawnSees(c) ==
    /\ At(c, "wait")
    /\ reg[call[c].label] # NoPane
    /\ Step(c, "message", None)
    /\ UNCHANGED <<pane, env, reg, ledger, history>>

SpawnGivesUp(c) ==
    /\ At(c, "wait")
    /\ Step(c, "done", None)
    /\ UNCHANGED <<pane, env, reg, ledger, history>>

SpawnAsks(c) ==
    /\ At(c, "message")
    /\ Step(c, "done", None)
    /\ UNCHANGED <<pane, env, reg, ledger, history>>

-----------------------------------------------------------------------------
(* despawn <label>, --all and --gone.  The ledger is read in the beginning *)
(* and written at the end, the registry read once.                         *)

DespawnBegin(c) ==
    /\ Begins(c)
    /\ Listed(ledger) # {}
    /\ \E mode \in {"one", "all", "gone"}, l \in Labels :
          Step(c, "targets", [book |-> ledger, mode |-> mode, label |-> l])
    /\ UNCHANGED <<pane, env, reg, ledger, spawned, fresh>>

Status(book, l) ==
    IF reg[l] = NoPane THEN "gone"
    ELSE IF reg[l] = book[l].sid THEN "alive" ELSE "label-reused"

\* A label whose record has another pane is skipped, by --gone purged.
DespawnTargets(c) ==
    /\ At(c, "targets")
    /\ LET book == call[c].book
           targets == CASE call[c].mode = "all" -> Listed(book)
                        [] call[c].mode = "gone" -> {l \in Listed(book) : Status(book, l) # "alive"}
                        [] OTHER -> {call[c].label} \cap Listed(book)
           reused == {l \in targets : reg[l] \in Panes /\ reg[l] # book[l].sid}
       IN  Step(c, "close", [todo |-> targets \ reused,
                             book |-> [l \in Labels |-> IF call[c].mode = "gone" /\ l \in reused
                                                        THEN NoEntry ELSE book[l]]])
    /\ UNCHANGED <<pane, env, reg, ledger, history>>

\* Variant: the pane the registry has under the label is closed.
DespawnClosesLabel(c) ==
    /\ At(c, "close")
    /\ \E l \in call[c].todo :
          CloseSession(reg[l]) /\ Step(c, "unregister", [label |-> l])
    /\ UNCHANGED <<env, reg, ledger, history>>

DespawnCloses(c) ==
    /\ At(c, "close")
    /\ \E l \in call[c].todo :
          CloseSession(call[c].book[l].sid) /\ Step(c, "unregister", [label |-> l])
    /\ UNCHANGED <<env, reg, ledger, history>>

DespawnUnregisters(c) ==
    /\ At(c, "unregister")
    /\ LET l == call[c].label
       IN  /\ DropLabel(l)
           /\ Step(c, "close", [todo |-> call[c].todo \ {l}, book |-> Without(call[c].book, l)])
    /\ UNCHANGED <<pane, env, ledger, history>>

\* Variant: what is left of the targets is saved, not what is left of the ledger.
DespawnSavesTargets(c) ==
    /\ At(c, "close")
    /\ call[c].todo = {}
    /\ ledger' = [l \in Labels |-> NoEntry]
    /\ Step(c, "done", None)
    /\ UNCHANGED <<pane, env, reg, history>>

DespawnSaves(c) ==
    /\ At(c, "close")
    /\ call[c].todo = {}
    /\ ledger' = call[c].book
    /\ Step(c, "done", None)
    /\ UNCHANGED <<pane, env, reg, history>>

-----------------------------------------------------------------------------
(* close-pane <label or session>: an empty session id is a prefix of all,  *)
(* so a mailbox's record matches every session asked for.                  *)

CloseByLabel(c) ==
    /\ Begins(c)
    /\ \E l \in Labels :
          reg[l] \in Panes /\ Step(c, "close-session", [label |-> l, target |-> reg[l]])
    /\ UNCHANGED <<pane, env, reg, ledger, spawned, fresh>>

CloseBySession(c) ==
    /\ Begins(c)
    /\ \E p \in Panes \ {User} :
          /\ pane[p] # "unused"
          /\ LET matching == {l \in Labels : reg[l] \in {p, Mail}}
             IN  IF matching = {}
                 THEN Step(c, "close-only", [target |-> p])
                 ELSE \E l \in matching : Step(c, "close-session", [label |-> l, target |-> p])
    /\ UNCHANGED <<pane, env, reg, ledger, spawned, fresh>>

CloseSessionOf(c) ==
    /\ call[c].pc \in {"close-session", "close-only"}
    /\ CloseSession(call[c].target)
    /\ \/ At(c, "close-session") /\ Step(c, "drop", None)
       \/ Step(c, "done", None)              \* --keep-label, or no label
    /\ UNCHANGED <<env, reg, ledger, history>>

CloseDropsLabel(c) ==
    /\ At(c, "drop")
    /\ DropLabel(call[c].label)
    /\ Step(c, "load", None)
    /\ UNCHANGED <<pane, env, ledger, history>>

CloseLoads(c) ==
    /\ At(c, "load")
    /\ Step(c, IF call[c].label \in Listed(ledger) THEN "save" ELSE "done",
            [book |-> Without(ledger, call[c].label)])
    /\ UNCHANGED <<pane, env, reg, ledger, history>>

CloseSaves(c) ==
    /\ At(c, "save")
    /\ ledger' = call[c].book
    /\ Step(c, "done", None)
    /\ UNCHANGED <<pane, env, reg, history>>

-----------------------------------------------------------------------------
(* The panes themselves.                                                   *)

\* Variant: the labels the pane has are kept.
RegisterAlso(p, l) ==
    /\ reg[l] # Mail
    /\ reg' = [reg EXCEPT ![l] = p]

RegisterAs(p, l) ==
    /\ reg[l] # Mail
    /\ reg' = [m \in Labels |-> IF m = l THEN p ELSE IF reg[m] = p THEN NoPane ELSE reg[m]]

(* The agent's server registers the pane.                                  *)
Boots(p) ==
    /\ pane[p] = "booting"
    /\ RegisterAs(p, env[p])
    /\ pane' = [pane EXCEPT ![p] = "open"]
    /\ UNCHANGED <<env, ledger, call, history>>

OpenedByHand(p) ==
    /\ pane[p] = "unused"
    /\ \E l \in Labels :
          /\ Gives(l)
          /\ env' = [env EXCEPT ![p] = l]
    /\ pane' = [pane EXCEPT ![p] = "booting"]
    /\ UNCHANGED <<reg, ledger, call, spawned, orderly>>

ClosedByHand(p) ==
    /\ p # User /\ p \in Open
    /\ pane' = [pane EXCEPT ![p] = "closed"]
    /\ UNCHANGED <<env, reg, ledger, call, history>>

Relabelled(p) ==
    /\ p # User /\ pane[p] = "open"
    /\ \E l \in Labels : RegisterAs(p, l) /\ Gives(l)
    /\ UNCHANGED <<pane, env, ledger, call, spawned, orderly>>

Pruned(l) ==
    /\ reg[l] \in Panes /\ pane[reg[l]] = "closed"
    /\ DropLabel(l)
    /\ UNCHANGED <<pane, env, ledger, call, history>>

-----------------------------------------------------------------------------
Spawn(c) ==
    \/ SpawnBegin(c) \/ SpawnOpens(c) \/ SpawnTimesOut(c) \/ SpawnKilled(c) \/ SpawnFails(c)
    \/ AppendLedger(c) \/ SpawnSees(c) \/ SpawnGivesUp(c) \/ SpawnAsks(c)
Despawn(c) ==
    \/ DespawnBegin(c) \/ DespawnTargets(c) \/ DespawnCloses(c)
    \/ DespawnUnregisters(c) \/ DespawnSaves(c)
ClosePane(c) ==
    \/ CloseByLabel(c) \/ CloseBySession(c) \/ CloseSessionOf(c)
    \/ CloseDropsLabel(c) \/ CloseLoads(c) \/ CloseSaves(c)

Next ==
    \/ \E c \in Calls : Spawn(c) \/ Despawn(c) \/ ClosePane(c)
    \/ \E p \in Panes : Boots(p) \/ OpenedByHand(p) \/ ClosedByHand(p) \/ Relabelled(p)
    \/ \E l \in Labels : Pruned(l)

Spec == Init /\ [][Next]_vars

-----------------------------------------------------------------------------
(* Every variable holds what the code can put there, and a pane is         *)
(* registered under one label.                                             *)
TypeOK ==
    /\ pane \in [Panes -> {"unused", "booting", "open", "closed"}]
    /\ env \in [Panes -> Labels]
    /\ reg \in [Labels -> Panes \cup {NoPane, Mail}]
    /\ ledger \in [Labels -> Entries]
    /\ \A c \in Calls : call[c].todo \subseteq Labels /\ call[c].book \in [Labels -> Entries]
    /\ spawned \subseteq Panes
    /\ \A l, m \in Labels : reg[l] = reg[m] /\ reg[l] \in Panes => l = m

(* "Refuses to close panes that were NOT spawned by this tool" (despawn),  *)
(* whoever has the label by now.                                           *)
HandOpenedStay ==
    [][\A c \in Calls, p \in Panes :
           DespawnCloses(c) /\ p \in Open /\ pane'[p] = "closed" => p \in spawned]_vars

(* A pane that was spawned is on the ledger while it is open, or its spawn *)
(* is about to put it there: despawn finds it, as long as commands are run *)
(* one at a time and to their end, with labels that nobody has.            *)
SpawnedKnown ==
  orderly /\ fresh =>
    \A p \in spawned \cap Open :
        \/ \E l \in Labels : ledger[l].sid = p
        \/ \E c \in Calls : At(c, "append") /\ call[c].target = p
=============================================================================
