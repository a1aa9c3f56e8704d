--------------------------- MODULE Spawning_proofs ---------------------------
(***************************************************************************)
(* TLAPS proofs about Spawning, for any number of panes, labels and        *)
(* commands, overlapping or not.  BookInv says that every session id on    *)
(* the ledger, in a command's copy of it or on its way there is of a pane  *)
(* that spawn opened; KnownInv, that orderly commands lose none of them.   *)
(***************************************************************************)
EXTENDS Spawning, TLAPS

USE SpawningAssumption

-----------------------------------------------------------------------------
CallOK(c) ==
    /\ call[c].by \in Panes \cup {NoPane}
    /\ call[c].label \in Labels
    /\ call[c].target \in Panes \cup {NoPane}
    /\ call[c].todo \subseteq Labels
    /\ call[c].book \in [Labels -> Entries]
    /\ \A l \in Labels : call[c].book[l].sid \in spawned \cup {NoPane}
    /\ At(c, "append") => call[c].target \in spawned

CallsOK ==
    /\ call = [c \in Calls |-> call[c]]
    /\ \A c \in Calls : CallOK(c)

BookInv ==
    /\ TypeOK
    /\ CallsOK
    /\ \A l \in Labels : ledger[l].sid \in spawned \cup {NoPane}

\* What a step may write into a command's record
Good(f) ==
    /\ "by" \in DOMAIN f => f["by"] \in Panes \cup {NoPane}
    /\ "label" \in DOMAIN f => f["label"] \in Labels
    /\ "target" \in DOMAIN f => f["target"] \in Panes \cup {NoPane}
    /\ "todo" \in DOMAIN f => f["todo"] \subseteq Labels
    /\ "book" \in DOMAIN f =>
          /\ f["book"] \in [Labels -> Entries]
          /\ \A l \in Labels : f["book"][l].sid \in spawned \cup {NoPane}

-----------------------------------------------------------------------------
(* A step of a command sets the fields it is given and its pc, and leaves  *)
(* the other commands alone.                                               *)
LEMMA StepSets ==
  ASSUME call = [c \in Calls |-> call[c]], NEW c \in Calls, NEW pc, NEW f, Step(c, pc, f)
  PROVE  /\ call' = [d \in Calls |-> call'[d]]
         /\ \A d \in Calls \ {c} : call'[d] = call[d]
         /\ call'[c].pc = pc
         /\ call'[c].by = IF "by" \in DOMAIN f THEN f["by"] ELSE call[c].by
         /\ call'[c].label = IF "label" \in DOMAIN f THEN f["label"] ELSE call[c].label
         /\ call'[c].target = IF "target" \in DOMAIN f THEN f["target"] ELSE call[c].target
         /\ call'[c].todo = IF "todo" \in DOMAIN f THEN f["todo"] ELSE call[c].todo
         /\ call'[c].book = IF "book" \in DOMAIN f THEN f["book"] ELSE call[c].book
<1> DEFINE New == [x \in DOMAIN NewCall |->
                     IF x = "pc" THEN pc ELSE IF x \in DOMAIN f THEN f[x] ELSE call[c][x]]
<1>1. call' = [call EXCEPT ![c] = New]
  BY DEF Step
<1>2. {"pc", "by", "label", "target", "todo", "book"} \subseteq DOMAIN NewCall
  BY DEF NewCall
<1>3. /\ call' = [d \in Calls |-> call'[d]]
      /\ \A d \in Calls \ {c} : call'[d] = call[d]
      /\ call'[c] = New
  BY <1>1
<1>4. /\ New["pc"] = pc
      /\ \A x \in {"by", "label", "target", "todo", "book"} :
            New[x] = IF x \in DOMAIN f THEN f[x] ELSE call[c][x]
  BY <1>2
<1> HIDE DEF New
<1> QED  BY <1>3, <1>4

-----------------------------------------------------------------------------
(* A step that writes what is good keeps the commands' records good.       *)
LEMMA StepOK ==
  ASSUME CallsOK, spawned \subseteq spawned', NEW c \in Calls, NEW pc, NEW f,
         Step(c, pc, f), Good(f),
         pc = "append" => "target" \in DOMAIN f /\ f["target"] \in spawned'
  PROVE  CallsOK'
<1>1. call' = [d \in Calls |-> call'[d]]
  BY StepSets DEF CallsOK
<1>2. \A d \in Calls \ {c} : CallOK(d)'
  <2>1. \A d \in Calls \ {c} : call'[d] = call[d]
    BY StepSets DEF CallsOK
  <2> QED  BY <2>1 DEF CallsOK, CallOK, At
<1>3. CallOK(c)'
  <2>1. /\ call'[c].pc = pc
        /\ call'[c].by = IF "by" \in DOMAIN f THEN f["by"] ELSE call[c].by
        /\ call'[c].label = IF "label" \in DOMAIN f THEN f["label"] ELSE call[c].label
        /\ call'[c].target = IF "target" \in DOMAIN f THEN f["target"] ELSE call[c].target
        /\ call'[c].todo = IF "todo" \in DOMAIN f THEN f["todo"] ELSE call[c].todo
        /\ call'[c].book = IF "book" \in DOMAIN f THEN f["book"] ELSE call[c].book
    BY StepSets DEF CallsOK
  <2> QED  BY <2>1 DEF CallsOK, CallOK, At, Good
<1> QED  BY <1>1, <1>2, <1>3 DEF CallsOK

LEMMA GoodNone == Good(None)
  BY DEF Good, None

-----------------------------------------------------------------------------
(* What is found in files is typed.                                        *)
LEMMA CallerTyped == TypeOK => \A p \in Panes : CallerSid(p) \in Panes
  BY DEF TypeOK, CallerSid

LEMMA EntriesTyped ==
  /\ NoEntry \in Entries
  /\ \A book \in [Labels -> Entries], l \in Labels : Without(book, l) \in [Labels -> Entries]
  /\ NoEntry.sid = NoPane
  BY DEF NoEntry, Entries, Without

LEMMA WithoutGood ==
  ASSUME NEW book \in [Labels -> Entries], NEW l \in Labels,
         \A m \in Labels : book[m].sid \in spawned \cup {NoPane}
  PROVE  /\ Without(book, l) \in [Labels -> Entries]
         /\ \A m \in Labels : Without(book, l)[m].sid \in spawned \cup {NoPane}
  BY EntriesTyped DEF Without

LEMMA DropTyped ==
  ASSUME TypeOK, NEW l \in Labels, DropLabel(l)
  PROVE  /\ reg' \in [Labels -> Panes \cup {NoPane, Mail}]
         /\ \A k, m \in Labels : reg'[k] = reg'[m] /\ reg'[k] \in Panes => k = m
  BY DEF TypeOK, DropLabel

LEMMA BookInit == Init => BookInv
<1> SUFFICES ASSUME Init PROVE BookInv
  OBVIOUS
<1>1. TypeOK
  BY EntriesTyped DEF Init, TypeOK, NewCall
<1>2. CallsOK
  BY EntriesTyped DEF Init, CallsOK, CallOK, NewCall, At
<1> QED  BY <1>1, <1>2, EntriesTyped DEF Init, BookInv

(* The commands.                                                           *)
LEMMA SpawnKeeps == \A c \in Calls : BookInv /\ Spawn(c) => BookInv'
<1> SUFFICES ASSUME NEW c \in Calls, BookInv, Spawn(c) PROVE BookInv'
  OBVIOUS
<1> USE DEF BookInv, history
<1>1. CASE SpawnBegin(c)
  <2>1. PICK p \in Open, l \in Labels :
           LET by == CallerSid(p)
           IN  \E a \in IF Children(by) = {} THEN {by} ELSE Children(by) :
                  Step(c, "osascript", [by |-> by, label |-> l, target |-> a])
    BY <1>1 DEF SpawnBegin
  <2>2. CallerSid(p) \in Panes
    BY CallerTyped DEF Open
  <2>3. PICK a \in Panes : Step(c, "osascript", [by |-> CallerSid(p), label |-> l, target |-> a])
    BY <2>1, <2>2 DEF Children
  <2>4. Good([by |-> CallerSid(p), label |-> l, target |-> a])
    BY <2>2 DEF Good
  <2>5. UNCHANGED <<pane, env, reg, ledger, spawned>>
    BY <1>1 DEF SpawnBegin
  <2>6. CallsOK'
    BY <2>3, <2>4, <2>5, StepOK
  <2> QED  BY <2>5, <2>6 DEF TypeOK, CallsOK, CallOK
<1>2. CASE SpawnOpens(c)
  <2>1. PICK p \in Panes : Opens(c, p) /\ Step(c, "append", [target |-> p])
    BY <1>2 DEF SpawnOpens
  <2>2. Good([target |-> p])
    BY DEF Good
  <2>3. spawned \subseteq spawned' /\ p \in spawned'
    BY <2>1 DEF Opens
  <2>4. CallsOK'
    BY <2>1, <2>2, <2>3, StepOK
  <2> QED  BY <2>1, <2>4 DEF Opens, TypeOK, CallsOK, CallOK
<1>3. CASE SpawnTimesOut(c)
  <2>1. PICK p \in Panes : Opens(c, p) /\ Step(c, "done", None)
    BY <1>3 DEF SpawnTimesOut
  <2>2. CallsOK'
    BY <2>1, GoodNone, StepOK DEF Opens
  <2> QED  BY <2>1, <2>2 DEF Opens, TypeOK, CallsOK, CallOK
<1>4. CASE AppendLedger(c)
  <2>1. /\ Step(c, "wait", None)
        /\ ledger' = [ledger EXCEPT ![call[c].label] = [sid |-> call[c].target, by |-> call[c].by]]
        /\ UNCHANGED <<pane, env, reg, spawned>>
        /\ call[c].target \in spawned
    BY <1>4 DEF AppendLedger, CallsOK, CallOK
  <2>2. CallsOK'
    BY <2>1, GoodNone, StepOK
  <2>3. [sid |-> call[c].target, by |-> call[c].by] \in Entries
    BY DEF Entries, CallsOK, CallOK
  <2> QED  BY <2>1, <2>2, <2>3 DEF TypeOK, CallsOK, CallOK
<1>5. CASE SpawnKilled(c) \/ SpawnFails(c) \/ SpawnSees(c) \/ SpawnGivesUp(c) \/ SpawnAsks(c)
  <2>1. /\ Step(c, "done", None) \/ Step(c, "message", None)
        /\ UNCHANGED <<pane, env, reg, ledger, spawned>>
    BY <1>5 DEF SpawnKilled, SpawnFails, SpawnSees, SpawnGivesUp, SpawnAsks
  <2>2. CallsOK'
    BY <2>1, GoodNone, StepOK
  <2> QED  BY <2>1, <2>2 DEF TypeOK, CallsOK, CallOK
<1> QED  BY <1>1, <1>2, <1>3, <1>4, <1>5 DEF Spawn

LEMMA DespawnKeeps == \A c \in Calls : BookInv /\ Despawn(c) => BookInv'
<1> SUFFICES ASSUME NEW c \in Calls, BookInv, Despawn(c) PROVE BookInv'
  OBVIOUS
<1> USE DEF BookInv, history
<1>1. CASE DespawnBegin(c)
  <2>1. PICK mode \in {"one", "all", "gone"}, l \in Labels :
           Step(c, "targets", [book |-> ledger, mode |-> mode, label |-> l])
    BY <1>1 DEF DespawnBegin
  <2>2. Good([book |-> ledger, mode |-> mode, label |-> l])
    BY DEF Good, TypeOK
  <2>3. UNCHANGED <<pane, env, reg, ledger, spawned>>
    BY <1>1 DEF DespawnBegin
  <2>4. CallsOK'
    BY <2>1, <2>2, <2>3, StepOK
  <2> QED  BY <2>3, <2>4 DEF TypeOK, CallsOK, CallOK
<1>2. CASE DespawnTargets(c)
  <2>1. PICK todo \in SUBSET Labels, book \in [Labels -> Entries] :
           /\ Step(c, "close", [todo |-> todo, book |-> book])
           /\ \A l \in Labels : book[l] \in {NoEntry, call[c].book[l]}
    <3> DEFINE targets == CASE call[c].mode = "all" -> Listed(call[c].book)
                            [] call[c].mode = "gone" -> {l \in Listed(call[c].book) : Status(call[c].book, l) # "alive"}
                            [] OTHER -> {call[c].label} \cap Listed(call[c].book)
               reused == {l \in targets : reg[l] \in Panes /\ reg[l] # call[c].book[l].sid}
               book == [l \in Labels |-> IF call[c].mode = "gone" /\ l \in reused
                                         THEN NoEntry ELSE call[c].book[l]]
    <3>1. Step(c, "close", [todo |-> targets \ reused, book |-> book])
      BY <1>2 DEF DespawnTargets
    <3>2. targets \subseteq Labels
      BY DEF Listed
    <3>3. book \in [Labels -> Entries] /\ \A l \in Labels : book[l] \in {NoEntry, call[c].book[l]}
      BY EntriesTyped DEF CallsOK, CallOK
    <3> HIDE DEF targets, reused, book
    <3> QED  BY <3>1, <3>2, <3>3
  <2>2. \A l \in Labels : book[l].sid \in spawned \cup {NoPane}
    BY <2>1, EntriesTyped DEF CallsOK, CallOK
  <2>3. Good([todo |-> todo, book |-> book])
    BY <2>2 DEF Good
  <2>4. UNCHANGED <<pane, env, reg, ledger, spawned>>
    BY <1>2 DEF DespawnTargets
  <2>5. CallsOK'
    BY <2>1, <2>3, <2>4, StepOK
  <2> QED  BY <2>4, <2>5 DEF TypeOK, CallsOK, CallOK
<1>3. CASE DespawnCloses(c)
  <2>1. PICK l \in call[c].todo :
           CloseSession(call[c].book[l].sid) /\ Step(c, "unregister", [label |-> l])
    BY <1>3 DEF DespawnCloses
  <2>2. Good([label |-> l])
    BY DEF Good, CallsOK, CallOK
  <2>3. UNCHANGED <<env, reg, ledger, spawned>>
    BY <1>3 DEF DespawnCloses
  <2>4. CallsOK'
    BY <2>1, <2>2, <2>3, StepOK
  <2>5. pane' \in [Panes -> {"unused", "booting", "open", "closed"}]
    BY <2>1 DEF CloseSession, TypeOK
  <2> QED  BY <2>3, <2>4, <2>5 DEF TypeOK, CallsOK, CallOK
<1>4. CASE DespawnUnregisters(c)
  <2>1. /\ DropLabel(call[c].label)
        /\ Step(c, "close", [todo |-> call[c].todo \ {call[c].label},
                             book |-> Without(call[c].book, call[c].label)])
        /\ UNCHANGED <<pane, env, ledger, spawned>>
    BY <1>4 DEF DespawnUnregisters
  <2>2. Good([todo |-> call[c].todo \ {call[c].label},
              book |-> Without(call[c].book, call[c].label)])
    BY WithoutGood DEF Good, CallsOK, CallOK
  <2>3. CallsOK'
    BY <2>1, <2>2, StepOK
  <2> QED  BY <2>1, <2>3, DropTyped DEF TypeOK, CallsOK, CallOK
<1>5. CASE DespawnSaves(c)
  <2>1. Step(c, "done", None) /\ ledger' = call[c].book /\ UNCHANGED <<pane, env, reg, spawned>>
    BY <1>5 DEF DespawnSaves
  <2>2. CallsOK'
    BY <2>1, GoodNone, StepOK
  <2> QED  BY <2>1, <2>2 DEF TypeOK, CallsOK, CallOK
<1> QED  BY <1>1, <1>2, <1>3, <1>4, <1>5 DEF Despawn

LEMMA ClosePaneKeeps == \A c \in Calls : BookInv /\ ClosePane(c) => BookInv'
<1> SUFFICES ASSUME NEW c \in Calls, BookInv, ClosePane(c) PROVE BookInv'
  OBVIOUS
<1> USE DEF BookInv, history
<1>1. CASE CloseByLabel(c) \/ CloseBySession(c)
  <2>1. /\ UNCHANGED <<pane, env, reg, ledger, spawned>>
        /\ \E p \in Panes :
             \/ Step(c, "close-only", [target |-> p])
             \/ \E l \in Labels : Step(c, "close-session", [label |-> l, target |-> p])
    BY <1>1 DEF CloseByLabel, CloseBySession
  <2>2. PICK p \in Panes :
             \/ Step(c, "close-only", [target |-> p])
             \/ \E l \in Labels : Step(c, "close-session", [label |-> l, target |-> p])
    BY <2>1
  <2>3. Good([target |-> p]) /\ \A l \in Labels : Good([label |-> l, target |-> p])
    BY DEF Good
  <2>4. CallsOK'
    BY <2>1, <2>2, <2>3, StepOK
  <2> QED  BY <2>1, <2>4 DEF TypeOK, CallsOK, CallOK
<1>2. CASE CloseSessionOf(c)
  <2>1. /\ Step(c, "drop", None) \/ Step(c, "done", None)
        /\ UNCHANGED <<env, reg, ledger, spawned>>
    BY <1>2 DEF CloseSessionOf
  <2>2. CallsOK'
    BY <2>1, GoodNone, StepOK
  <2>3. pane' \in [Panes -> {"unused", "booting", "open", "closed"}]
    BY <1>2 DEF CloseSessionOf, CloseSession, TypeOK
  <2> QED  BY <2>1, <2>2, <2>3 DEF TypeOK, CallsOK, CallOK
<1>3. CASE CloseDropsLabel(c)
  <2>1. DropLabel(call[c].label) /\ Step(c, "load", None) /\ UNCHANGED <<pane, env, ledger, spawned>>
    BY <1>3 DEF CloseDropsLabel
  <2>2. CallsOK'
    BY <2>1, GoodNone, StepOK
  <2> QED  BY <2>1, <2>2, DropTyped DEF TypeOK, CallsOK, CallOK
<1>4. CASE CloseLoads(c)
  <2>1. PICK pc \in {"save", "done"} : Step(c, pc, [book |-> Without(ledger, call[c].label)])
    BY <1>4 DEF CloseLoads
  <2>2. UNCHANGED <<pane, env, reg, ledger, spawned>>
    BY <1>4 DEF CloseLoads
  <2>3. Good([book |-> Without(ledger, call[c].label)])
    <3>1. call[c].label \in Labels /\ ledger \in [Labels -> Entries]
      BY DEF CallsOK, CallOK, TypeOK
    <3>2. /\ Without(ledger, call[c].label) \in [Labels -> Entries]
          /\ \A m \in Labels : Without(ledger, call[c].label)[m].sid \in spawned \cup {NoPane}
      BY <3>1, WithoutGood
    <3> QED  BY <3>2 DEF Good
  <2>4. CallsOK'
    BY <2>1, <2>2, <2>3, StepOK
  <2> QED  BY <2>2, <2>4 DEF TypeOK, CallsOK, CallOK
<1>5. CASE CloseSaves(c)
  <2>1. Step(c, "done", None) /\ ledger' = call[c].book /\ UNCHANGED <<pane, env, reg, spawned>>
    BY <1>5 DEF CloseSaves
  <2>2. CallsOK'
    BY <2>1, GoodNone, StepOK
  <2> QED  BY <2>1, <2>2 DEF TypeOK, CallsOK, CallOK
<1> QED  BY <1>1, <1>2, <1>3, <1>4, <1>5 DEF ClosePane

(* Panes and the registry.                                                 *)
LEMMA RegisterTyped ==
  ASSUME TypeOK, NEW p \in Panes, NEW l \in Labels, RegisterAs(p, l)
  PROVE  /\ reg' \in [Labels -> Panes \cup {NoPane, Mail}]
         /\ \A k, m \in Labels : reg'[k] = reg'[m] /\ reg'[k] \in Panes => k = m
  BY DEF RegisterAs, TypeOK

LEMMA PanesKeep ==
  \A p \in Panes :
     BookInv /\ (Boots(p) \/ OpenedByHand(p) \/ ClosedByHand(p) \/ Relabelled(p)) => BookInv'
<1> SUFFICES ASSUME NEW p \in Panes, BookInv,
                    Boots(p) \/ OpenedByHand(p) \/ ClosedByHand(p) \/ Relabelled(p)
             PROVE  BookInv'
  OBVIOUS
<1> USE DEF BookInv, TypeOK, CallsOK, CallOK, At, history
<1>1. CASE Boots(p)
  BY <1>1, RegisterTyped DEF Boots
<1>2. CASE OpenedByHand(p)
  BY <1>2 DEF OpenedByHand
<1>3. CASE ClosedByHand(p)
  BY <1>3 DEF ClosedByHand
<1>4. CASE Relabelled(p)
  BY <1>4, RegisterTyped DEF Relabelled
<1> QED  BY <1>1, <1>2, <1>3, <1>4

LEMMA PrunedKeeps == \A l \in Labels : BookInv /\ Pruned(l) => BookInv'
  BY DEF Pruned, DropLabel, BookInv, TypeOK, CallsOK, CallOK, At, history

(* Every session id on the ledger, or read from it, is of a spawned pane.  *)
THEOREM LedgerNamesSpawned == Spec => []BookInv
<1>1. BookInv /\ [Next]_vars => BookInv'
  <2> SUFFICES ASSUME BookInv, [Next]_vars PROVE BookInv'
    OBVIOUS
  <2>1. CASE UNCHANGED vars
    BY <2>1 DEF vars, history, BookInv, TypeOK, CallsOK, CallOK, At
  <2>2. CASE Next
    BY <2>2, SpawnKeeps, DespawnKeeps, ClosePaneKeeps, PanesKeep, PrunedKeeps DEF Next
  <2> QED  BY <2>1, <2>2
<1> QED  BY BookInit, <1>1, PTL DEF Spec

(* Type correctness, and a pane is registered under one label.             *)
THEOREM SpawningTypeCorrect == Spec => []TypeOK
<1>1. BookInv => TypeOK
  BY DEF BookInv
<1> QED  BY <1>1, LedgerNamesSpawned, PTL

(* "Refuses to close panes that were NOT spawned by this tool" (despawn),  *)
(* whatever runs beside it and whoever has the label by now.               *)
THEOREM DespawnClosesSpawned == Spec => HandOpenedStay
<1>1. BookInv /\ [Next]_vars =>
        [\A c \in Calls, p \in Panes :
            DespawnCloses(c) /\ p \in Open /\ pane'[p] = "closed" => p \in spawned]_vars
  <2> SUFFICES ASSUME BookInv, NEW c \in Calls, NEW p \in Panes,
                      DespawnCloses(c), p \in Open, pane'[p] = "closed"
               PROVE  p \in spawned
    OBVIOUS
  <2>1. PICK l \in call[c].todo : CloseSession(call[c].book[l].sid)
    BY DEF DespawnCloses
  <2>2. call[c].book[l].sid \in spawned \cup {NoPane}
    BY DEF BookInv, CallsOK, CallOK
  <2>3. p = call[c].book[l].sid
    BY <2>1 DEF CloseSession, Open, BookInv, TypeOK
  <2> QED  BY <2>2, <2>3
<1> QED  BY <1>1, LedgerNamesSpawned, PTL DEF Spec, HandOpenedStay

-----------------------------------------------------------------------------
(* The ledger knows every pane that spawn opened.                          *)

Active(c) == call[c].pc \notin {"idle", "done"}

\* A spawned pane carries the label its spawn was given, and is on the ledger under it
EnvInv ==
    /\ \A p \in spawned : pane[p] # "unused"
    /\ \A l \in Labels : ledger[l].sid # NoPane => env[ledger[l].sid] = l
    /\ \A c \in Calls :
        /\ \A l \in Labels : call[c].book[l].sid # NoPane => env[call[c].book[l].sid] = l
        /\ At(c, "append") => env[call[c].target] = call[c].label

\* As long as labels are new, a spawned pane shares its own with no other
LabelsNew ==
    /\ \A p \in spawned \cap Open :
        /\ reg[env[p]] \in {NoPane, p}
        /\ \A q \in Open \ {p} : env[q] # env[p]
    /\ \A c \in Calls : At(c, "osascript") =>
        /\ reg[call[c].label] = NoPane
        /\ \A p \in Open : env[p] # call[c].label
        /\ \A d \in Calls \ {c} : At(d, "osascript") => call[d].label # call[c].label

LabelInv == fresh => LabelsNew

AloneInv == orderly => \A c, d \in Calls : Active(c) /\ Active(d) => c = d

(* Where a command stands: what it has read lists every spawned pane that  *)
(* is open, and what it takes off the ledger it has closed before.         *)
Standing(c) ==
    /\ call[c].pc \in {"osascript", "append"} => ledger[call[c].label] = NoEntry
    /\ call[c].pc \in {"targets", "close", "unregister", "save"} =>
           \A p \in spawned \cap Open : \E l \in Labels : call[c].book[l].sid = p
    /\ At(c, "unregister") => call[c].book[call[c].label].sid \notin Open
    /\ At(c, "close-session") /\ ledger[call[c].label].sid \in Open
           => ledger[call[c].label].sid = call[c].target
    /\ call[c].pc \in {"drop", "load"} => ledger[call[c].label].sid \notin Open

Known ==
    \A p \in spawned \cap Open :
        \/ \E l \in Labels : ledger[l].sid = p
        \/ \E c \in Calls : At(c, "append") /\ call[c].target = p

StandInv == orderly /\ fresh => /\ Known
                                /\ \A c \in Calls : Standing(c)

KnownInv == EnvInv /\ LabelInv /\ AloneInv /\ StandInv

LEMMA KnownInit == Init => KnownInv
  BY DEF Init, KnownInv, EnvInv, LabelInv, LabelsNew, AloneInv, StandInv, Known, Standing, NewCall, NoEntry,
     Active, At, Open

-----------------------------------------------------------------------------
(* A step of a command, seen from the other commands.                      *)
LEMMA Begun ==
  ASSUME BookInv, NEW c \in Calls, Begins(c), NEW pc, NEW f, Step(c, pc, f)
  PROVE  /\ \A d \in Calls \ {c} : call'[d] = call[d]
         /\ ~Active(c)
         /\ orderly' => orderly /\ \A d \in Calls : ~Active(d)
  BY StepSets DEF BookInv, CallsOK, Begins, Active, At

LEMMA AloneStep ==
  ASSUME AloneInv, NEW c \in Calls, \A d \in Calls \ {c} : call'[d] = call[d],
         orderly' => orderly /\ (Active(c) \/ \A d \in Calls : ~Active(d))
  PROVE  AloneInv' /\ (orderly' => \A d \in Calls \ {c} : ~Active(d) /\ ~Active(d)')
  BY DEF AloneInv, Active

LEMMA EnvStep ==
  ASSUME EnvInv, NEW c \in Calls, \A d \in Calls \ {c} : call'[d] = call[d],
         UNCHANGED <<env, spawned>>,
         \A p \in spawned : pane[p] # "unused" => pane'[p] # "unused",
         \A l \in Labels : ledger'[l].sid # NoPane => env[ledger'[l].sid] = l,
         \A l \in Labels : call'[c].book[l].sid # NoPane => env[call'[c].book[l].sid] = l,
         call'[c].pc # "append"
  PROVE  EnvInv'
<1>1. ASSUME NEW d \in Calls
      PROVE  /\ \A l \in Labels : call'[d].book[l].sid # NoPane => env'[call'[d].book[l].sid] = l
             /\ At(d, "append")' => env'[call'[d].target] = call'[d].label
  BY DEF EnvInv, At
<1> QED  BY <1>1 DEF EnvInv

LEMMA LabelStep ==
  ASSUME BookInv, LabelInv, fresh' => fresh, UNCHANGED <<env, spawned>>, Open' \subseteq Open,
         NEW c \in Calls, \A d \in Calls \ {c} : call'[d] = call[d], call'[c].pc # "osascript",
         \A l \in Labels : reg'[l] \in {reg[l], NoPane}
  PROVE  LabelInv'
<1> SUFFICES ASSUME fresh' PROVE LabelsNew'
  BY DEF LabelInv
<1>1. \A d \in Calls : At(d, "osascript")' => At(d, "osascript") /\ call'[d] = call[d]
  BY DEF At
<1>2. ASSUME NEW p \in spawned', p \in Open'
      PROVE  reg'[env'[p]] \in {NoPane, p} /\ \A q \in Open' \ {p} : env'[q] # env'[p]
  BY <1>2 DEF LabelInv, LabelsNew, BookInv, TypeOK
<1>3. ASSUME NEW d \in Calls, At(d, "osascript")'
      PROVE  /\ reg'[call'[d].label] = NoPane
             /\ \A p \in Open' : env'[p] # call'[d].label
             /\ \A e \in Calls \ {d} : At(e, "osascript")' => call'[e].label # call'[d].label
  BY <1>1, <1>3 DEF LabelInv, LabelsNew, BookInv, CallsOK, CallOK
<1> QED  BY <1>2, <1>3 DEF LabelsNew

(* Nobody but c counts, where commands are orderly.                        *)
LEMMA StandStep ==
  ASSUME NEW c \in Calls, orderly' => \A d \in Calls \ {c} : ~Active(d)',
         orderly' /\ fresh' => Known' /\ Standing(c)'
  PROVE  StandInv'
<1>1. ASSUME NEW d \in Calls, ~Active(d)' PROVE Standing(d)'
  BY <1>1 DEF Standing, Active, At
<1> QED  BY <1>1 DEF StandInv

(* spawn enters its label in the ledger where no other entry is.           *)
LEMMA SpawnKnows == \A c \in Calls : BookInv /\ KnownInv /\ Spawn(c) => KnownInv'
<1> SUFFICES ASSUME NEW c \in Calls, BookInv, KnownInv, Spawn(c) PROVE KnownInv'
  OBVIOUS
<1>t. /\ TypeOK /\ CallsOK /\ CallOK(c) /\ EnvInv /\ LabelInv /\ AloneInv /\ StandInv
      /\ call = [d \in Calls |-> call[d]]
  BY DEF BookInv, CallsOK, KnownInv
<1> USE DEF history
<1>1. CASE SpawnBegin(c)
  <2>1. PICK p \in Open, l \in Labels :
           LET by == CallerSid(p)
           IN  /\ Gives(l)
               /\ \E a \in IF Children(by) = {} THEN {by} ELSE Children(by) :
                     Step(c, "osascript", [by |-> by, label |-> l, target |-> a])
    BY <1>1 DEF SpawnBegin
  <2>2. PICK a : Step(c, "osascript", [by |-> CallerSid(p), label |-> l, target |-> a])
    BY <2>1
  <2>3. /\ \A d \in Calls \ {c} : call'[d] = call[d]
        /\ call'[c].pc = "osascript" /\ call'[c].label = l /\ call'[c].book = call[c].book
    BY <1>t, <2>2, StepSets
  <2>4. /\ ~Active(c)
        /\ orderly' => orderly /\ \A d \in Calls : ~Active(d)
    BY <1>1, <2>2, Begun DEF SpawnBegin
  <2>5. UNCHANGED <<pane, env, reg, ledger, spawned>>
    BY <1>1 DEF SpawnBegin
  <2>6. EnvInv'
    BY <1>t, <2>3, <2>5, EnvStep DEF EnvInv
  <2>7. LabelInv'
    <3>1. fresh' => /\ fresh /\ reg[l] = NoPane
                    /\ \A q \in Open : env[q] # l
                    /\ \A d \in Calls : call[d].label # l
      BY <2>1 DEF Gives
    <3>2. \A d \in Calls : At(d, "osascript")' => d = c \/ (At(d, "osascript") /\ call'[d] = call[d])
      BY <2>3 DEF At
    <3>3. Open' = Open
      BY <2>5 DEF Open
    <3> QED  BY <1>t, <2>3, <2>5, <3>1, <3>2, <3>3 DEF LabelInv, LabelsNew
  <2>8. AloneInv' /\ (orderly' => \A d \in Calls \ {c} : ~Active(d) /\ ~Active(d)')
    BY <1>t, <2>3, <2>4, AloneStep
  <2>9. ASSUME orderly', fresh' PROVE Known' /\ Standing(c)'
    <3>1. fresh /\ ledger[l] = NoEntry
      BY <2>1, <2>9 DEF Gives
    <3>2. Known'
      BY <1>t, <2>4, <2>5, <2>9, <3>1 DEF StandInv, Known, Open, At, Active
    <3> QED  BY <2>3, <2>5, <3>1, <3>2 DEF Standing, At
  <2> QED  BY <2>6, <2>7, <2>8, <2>9, StandStep DEF KnownInv
<1>2. CASE SpawnOpens(c) \/ SpawnTimesOut(c)
  <2>1. PICK p \in Panes :
           /\ Opens(c, p) /\ At(c, "osascript")
           /\ \/ SpawnOpens(c) /\ Step(c, "append", [target |-> p])
              \/ SpawnTimesOut(c) /\ Step(c, "done", None)
    BY <1>2 DEF SpawnOpens, SpawnTimesOut
  <2>2. /\ \A d \in Calls \ {c} : call'[d] = call[d]
        /\ call'[c].label = call[c].label /\ call'[c].book = call[c].book
        /\ \/ SpawnOpens(c) /\ call'[c].pc = "append" /\ call'[c].target = p
           \/ SpawnTimesOut(c) /\ call'[c].pc = "done"
    <3>1. CASE SpawnOpens(c) /\ Step(c, "append", [target |-> p])
      BY <1>t, <3>1, StepSets
    <3>2. CASE SpawnTimesOut(c) /\ Step(c, "done", None)
      BY <1>t, <3>2, StepSets DEF None
    <3> QED  BY <2>1, <3>1, <3>2
  <2>3. /\ pane[p] = "unused" /\ pane' = [pane EXCEPT ![p] = "booting"]
        /\ env' = [env EXCEPT ![p] = call[c].label]
        /\ spawned' = spawned \cup {p}
        /\ UNCHANGED <<reg, ledger, fresh>>
    BY <2>1 DEF Opens
  <2>4. p \notin Open /\ Open' = Open \cup {p} /\ p \notin spawned /\ call[c].label \in Labels
    BY <1>t, <2>3 DEF Open, TypeOK, EnvInv, CallOK
  <2>5. \A q \in Panes \ {p} : env'[q] = env[q] /\ pane'[q] = pane[q]
    BY <1>t, <2>3 DEF TypeOK
  <2>6. env'[p] = call[c].label /\ pane'[p] = "booting"
    BY <1>t, <2>3 DEF TypeOK
  <2>7. EnvInv'
    <3>1. \A l \in Labels : ledger'[l].sid # NoPane => env'[ledger'[l].sid] = l
      BY <1>t, <2>3, <2>4, <2>5 DEF EnvInv, BookInv, TypeOK
    <3>2. ASSUME NEW d \in Calls
          PROVE  /\ \A l \in Labels : call'[d].book[l].sid # NoPane => env'[call'[d].book[l].sid] = l
                 /\ At(d, "append")' => env'[call'[d].target] = call'[d].label
      <4>1. CallOK(d) /\ call'[d].book = call[d].book
        BY <1>t, <2>2 DEF CallsOK
      <4>2. \A l \in Labels : call'[d].book[l].sid # NoPane => env'[call'[d].book[l].sid] = l
        BY <1>t, <4>1, <2>4, <2>5 DEF EnvInv, CallOK, TypeOK
      <4>3. At(d, "append")' => env'[call'[d].target] = call'[d].label
        <5>1. CASE d = c
          BY <5>1, <2>2, <2>6 DEF At
        <5>2. CASE d # c
          BY <1>t, <4>1, <5>2, <2>2, <2>4, <2>5 DEF At, EnvInv, CallOK, TypeOK
        <5> QED  BY <5>1, <5>2
      <4> QED  BY <4>2, <4>3
    <3>3. \A q \in spawned' : pane'[q] # "unused"
      BY <1>t, <2>3, <2>5, <2>6 DEF EnvInv, TypeOK
    <3> QED  BY <3>1, <3>2, <3>3 DEF EnvInv
  <2>8. LabelInv'
    <3> SUFFICES ASSUME fresh PROVE LabelsNew'
      BY <2>3 DEF LabelInv
    <3>1. LabelsNew /\ At(c, "osascript")
      BY <1>t, <2>1 DEF LabelInv
    <3>2. /\ reg[call[c].label] = NoPane
          /\ \A q \in Open : env[q] # call[c].label
          /\ \A d \in Calls \ {c} : At(d, "osascript") => call[d].label # call[c].label
      BY <3>1 DEF LabelsNew
    <3>3. ASSUME NEW q \in spawned' \cap Open'
          PROVE  reg'[env'[q]] \in {NoPane, q} /\ \A r \in Open' \ {q} : env'[r] # env'[q]
      <4>1. CASE q = p
        BY <4>1, <2>3, <2>4, <2>5, <2>6, <3>2 DEF Open
      <4>2. CASE q # p
        BY <4>2, <2>3, <2>4, <2>5, <2>6, <3>1, <3>2 DEF LabelsNew, Open
      <4> QED  BY <4>1, <4>2
    <3>4. \A d \in Calls : At(d, "osascript")' => d # c /\ At(d, "osascript") /\ call'[d] = call[d]
      BY <2>2 DEF At
    <3>5. ASSUME NEW d \in Calls, At(d, "osascript")'
          PROVE  /\ reg'[call'[d].label] = NoPane
                 /\ \A q \in Open' : env'[q] # call'[d].label
                 /\ \A e \in Calls \ {d} : At(e, "osascript")' => call'[e].label # call'[d].label
      <4>1. d # c /\ At(d, "osascript") /\ call'[d] = call[d]
        BY <3>4, <3>5
      <4>2. \A q \in Open' : env'[q] # call[d].label
        BY <4>1, <2>4, <2>5, <2>6, <3>1, <3>2 DEF LabelsNew, Open
      <4> QED  BY <4>1, <4>2, <2>3, <3>1, <3>4 DEF LabelsNew
    <3> QED  BY <3>3, <3>5 DEF LabelsNew
  <2>9. Active(c) /\ (orderly' => orderly /\ SpawnOpens(c))
    BY <2>1 DEF At, Active, SpawnOpens, SpawnTimesOut
  <2>10. AloneInv' /\ (orderly' => \A d \in Calls \ {c} : ~Active(d) /\ ~Active(d)')
    BY <1>t, <2>2, <2>9, AloneStep
  <2>11. ASSUME orderly', fresh' PROVE Known' /\ Standing(c)'
    <3>1. Known /\ Standing(c) /\ At(c, "osascript")
      BY <1>t, <2>1, <2>3, <2>9, <2>11 DEF StandInv
    <3>2. call'[c].pc = "append" /\ call'[c].target = p /\ ledger'[call'[c].label] = NoEntry
      BY <2>1, <2>2, <2>3, <2>9, <2>11, <3>1 DEF Standing, At, SpawnOpens, SpawnTimesOut
    <3>3. ASSUME NEW q \in spawned' \cap Open', q # p
          PROVE  \E l \in Labels : ledger'[l].sid = q
      <4>1. q \in spawned \cap Open
        BY <2>3, <2>4, <3>3
      <4>2. ~\E d \in Calls : At(d, "append") /\ call[d].target = q
        BY <2>10, <2>11, <3>1 DEF At, Active
      <4> QED  BY <2>3, <3>1, <4>1, <4>2 DEF Known
    <3>4. Known'
      BY <3>2, <3>3 DEF Known, At
    <3> QED  BY <3>2, <3>4 DEF Standing, At
  <2> QED  BY <2>7, <2>8, <2>10, <2>11, StandStep DEF KnownInv
<1>3. CASE AppendLedger(c)
  <2>1. /\ At(c, "append")
        /\ ledger' = [ledger EXCEPT ![call[c].label] = [sid |-> call[c].target, by |-> call[c].by]]
        /\ Step(c, "wait", None)
        /\ UNCHANGED <<pane, env, reg, history>>
    BY <1>3 DEF AppendLedger
  <2>2. /\ \A d \in Calls \ {c} : call'[d] = call[d]
        /\ call'[c].pc = "wait" /\ call'[c].book = call[c].book
    BY <1>t, <2>1, StepSets DEF None
  <2>3. /\ call[c].label \in Labels
        /\ ledger'[call[c].label].sid = call[c].target
        /\ \A l \in Labels \ {call[c].label} : ledger'[l] = ledger[l]
    BY <1>t, <2>1 DEF TypeOK, CallOK
  <2>4. EnvInv'
    <3>1. \A l \in Labels : ledger'[l].sid # NoPane => env[ledger'[l].sid] = l
      BY <1>t, <2>1, <2>3 DEF EnvInv
    <3>2. \A l \in Labels : call'[c].book[l].sid # NoPane => env[call'[c].book[l].sid] = l
      BY <1>t, <2>2 DEF EnvInv
    <3> QED  BY <1>t, <2>1, <2>2, <3>1, <3>2, EnvStep
  <2>5. LabelInv'
    BY <1>t, <2>1, <2>2, LabelStep DEF Open
  <2>6. AloneInv' /\ (orderly' => \A d \in Calls \ {c} : ~Active(d) /\ ~Active(d)')
    BY <1>t, <2>1, <2>2, AloneStep DEF Active, At
  <2>7. ASSUME orderly', fresh' PROVE Known' /\ Standing(c)'
    <3>1. Known /\ ledger[call[c].label] = NoEntry /\ ~\E d \in Calls \ {c} : At(d, "append")
      BY <1>t, <2>1, <2>6, <2>7 DEF StandInv, Standing, At, Active
    <3>2. Known'
      <4> SUFFICES ASSUME NEW p \in spawned' \cap Open'
                   PROVE  \E l \in Labels : ledger'[l].sid = p
        BY DEF Known
      <4>1. p \in spawned \cap Open /\ p # NoPane
        <5>1. UNCHANGED <<pane, spawned>>
          BY <2>1
        <5> QED  BY <5>1 DEF Open
      <4>2. \/ \E l \in Labels : ledger[l].sid = p
            \/ call[c].target = p
        BY <3>1, <4>1 DEF Known
      <4> QED  BY <2>3, <3>1, <4>1, <4>2, EntriesTyped
    <3> QED  BY <2>2, <3>2 DEF Standing, At
  <2> QED  BY <2>4, <2>5, <2>6, <2>7, StandStep DEF KnownInv
<1>4. CASE SpawnKilled(c) \/ SpawnFails(c) \/ SpawnSees(c) \/ SpawnGivesUp(c) \/ SpawnAsks(c)
  <2>1. /\ Step(c, "done", None) \/ Step(c, "message", None)
        /\ UNCHANGED <<pane, env, reg, ledger, spawned, fresh>>
        /\ Active(c)
        /\ orderly' => orderly /\ ~At(c, "append")
    BY <1>4 DEF SpawnKilled, SpawnFails, SpawnSees, SpawnGivesUp, SpawnAsks, Active, At
  <2>2. /\ \A d \in Calls \ {c} : call'[d] = call[d]
        /\ call'[c].pc \in {"done", "message"} /\ call'[c].book = call[c].book
    BY <1>t, <2>1, StepSets DEF None
  <2>3. EnvInv'
    BY <1>t, <2>1, <2>2, EnvStep DEF EnvInv
  <2>4. LabelInv'
    BY <1>t, <2>1, <2>2, LabelStep DEF Open
  <2>5. AloneInv' /\ (orderly' => \A d \in Calls \ {c} : ~Active(d) /\ ~Active(d)')
    BY <1>t, <2>1, <2>2, AloneStep
  <2>6. ASSUME orderly', fresh' PROVE Known' /\ Standing(c)'
    <3>1. Known /\ ~\E d \in Calls : At(d, "append")
      BY <1>t, <2>1, <2>5, <2>6 DEF StandInv, At, Active
    <3>2. Known'
      BY <2>1, <3>1 DEF Known, Open
    <3> QED  BY <2>2, <3>2 DEF Standing, At
  <2> QED  BY <2>3, <2>4, <2>5, <2>6, StandStep DEF KnownInv
<1> QED  BY <1>1, <1>2, <1>3, <1>4 DEF Spawn

(* A copy of the ledger is saved that lists every spawned pane.            *)
LEMMA BookSaved ==
  ASSUME BookInv, KnownInv, NEW c \in Calls, call[c].pc \in {"close", "save"},
         Step(c, "done", None), ledger' = call[c].book,
         UNCHANGED <<pane, env, reg, history>>
  PROVE  KnownInv'
<1>t. /\ CallsOK /\ EnvInv /\ LabelInv /\ AloneInv /\ StandInv
      /\ call = [d \in Calls |-> call[d]]
  BY DEF BookInv, CallsOK, KnownInv
<1>1. /\ \A d \in Calls \ {c} : call'[d] = call[d]
      /\ call'[c].pc = "done" /\ call'[c].book = call[c].book
  BY <1>t, StepSets DEF None
<1>2. Active(c) /\ UNCHANGED <<spawned, orderly, fresh>> /\ Open' = Open
  BY DEF Active, history, Open
<1>3. EnvInv'
  <2>1. \A l \in Labels : call[c].book[l].sid # NoPane => env[call[c].book[l].sid] = l
    BY <1>t DEF EnvInv
  <2> QED  BY <1>t, <1>1, <1>2, <2>1, EnvStep
<1>4. LabelInv'
  BY <1>t, <1>1, <1>2, LabelStep
<1>5. AloneInv' /\ (orderly' => \A d \in Calls \ {c} : ~Active(d) /\ ~Active(d)')
  BY <1>t, <1>1, <1>2, AloneStep
<1>6. ASSUME orderly', fresh' PROVE Known' /\ Standing(c)'
  <2>1. \A p \in spawned \cap Open : \E l \in Labels : call[c].book[l].sid = p
    BY <1>t, <1>2, <1>6 DEF StandInv, Standing
  <2> QED  BY <1>1, <1>2, <2>1 DEF Known, Standing, At
<1> QED  BY <1>3, <1>4, <1>5, <1>6, StandStep DEF KnownInv

(* despawn and close-pane take off the ledger what they have closed.       *)
LEMMA DespawnKnows == \A c \in Calls : BookInv /\ KnownInv /\ Despawn(c) => KnownInv'
<1> SUFFICES ASSUME NEW c \in Calls, BookInv, KnownInv, Despawn(c) PROVE KnownInv'
  OBVIOUS
<1>t. /\ TypeOK /\ CallsOK /\ CallOK(c) /\ EnvInv /\ LabelInv /\ AloneInv /\ StandInv
      /\ call = [d \in Calls |-> call[d]]
  BY DEF BookInv, CallsOK, KnownInv
<1> USE DEF history
<1>1. CASE DespawnBegin(c)
  <2>1. PICK mode \in {"one", "all", "gone"}, l \in Labels :
           Step(c, "targets", [book |-> ledger, mode |-> mode, label |-> l])
    BY <1>1 DEF DespawnBegin
  <2>2. /\ \A d \in Calls \ {c} : call'[d] = call[d]
        /\ call'[c].pc = "targets" /\ call'[c].book = ledger
    BY <1>t, <2>1, StepSets
  <2>3. /\ ~Active(c)
        /\ orderly' => orderly /\ \A d \in Calls : ~Active(d)
    BY <1>1, <2>1, Begun DEF DespawnBegin
  <2>4. UNCHANGED <<pane, env, reg, ledger, spawned, fresh>>
    BY <1>1 DEF DespawnBegin
  <2>5. EnvInv'
    BY <1>t, <2>2, <2>4, EnvStep DEF EnvInv
  <2>6. LabelInv'
    BY <1>t, <2>2, <2>4, LabelStep DEF Open
  <2>7. AloneInv' /\ (orderly' => \A d \in Calls \ {c} : ~Active(d) /\ ~Active(d)')
    BY <1>t, <2>2, <2>3, AloneStep
  <2>8. ASSUME orderly', fresh' PROVE Known' /\ Standing(c)'
    <3>1. \A p \in spawned \cap Open : \E k \in Labels : ledger[k].sid = p
      BY <1>t, <2>3, <2>4, <2>8 DEF StandInv, Known, At, Active
    <3> QED  BY <2>2, <2>4, <3>1 DEF Known, Standing, At, Open
  <2> QED  BY <2>5, <2>6, <2>7, <2>8, StandStep DEF KnownInv
<1>2. CASE DespawnTargets(c)
  <2>1. PICK todo \in SUBSET Labels, book \in [Labels -> Entries] :
           /\ Step(c, "close", [todo |-> todo, book |-> book])
           /\ \A l \in Labels : \/ book[l] = call[c].book[l]
                                \/ book[l] = NoEntry /\ reg[l] \in Panes /\ reg[l] # call[c].book[l].sid
    <3> DEFINE targets == CASE call[c].mode = "all" -> Listed(call[c].book)
                            [] call[c].mode = "gone" -> {l \in Listed(call[c].book) : Status(call[c].book, l) # "alive"}
                            [] OTHER -> {call[c].label} \cap Listed(call[c].book)
               reused == {l \in targets : reg[l] \in Panes /\ reg[l] # call[c].book[l].sid}
               book == [l \in Labels |-> IF call[c].mode = "gone" /\ l \in reused
                                         THEN NoEntry ELSE call[c].book[l]]
    <3>1. Step(c, "close", [todo |-> targets \ reused, book |-> book])
      BY <1>2 DEF DespawnTargets
    <3>2. targets \subseteq Labels
      BY DEF Listed
    <3> HIDE DEF targets
    <3>3. book \in [Labels -> Entries]
      BY <1>t, EntriesTyped DEF CallOK
    <3>4. \A l \in Labels : \/ book[l] = call[c].book[l]
                            \/ book[l] = NoEntry /\ reg[l] \in Panes /\ reg[l] # call[c].book[l].sid
      OBVIOUS
    <3>5. targets \ reused \in SUBSET Labels
      BY <3>2
    <3> HIDE DEF reused, book
    <3> QED  BY <3>1, <3>3, <3>4, <3>5
  <2>2. /\ \A d \in Calls \ {c} : call'[d] = call[d]
        /\ call'[c].pc = "close" /\ call'[c].book = book
    BY <1>t, <2>1, StepSets
  <2>3. At(c, "targets") /\ Active(c) /\ UNCHANGED <<pane, env, reg, ledger, history>>
    BY <1>2 DEF DespawnTargets, At, Active
  <2>4. EnvInv'
    <3>1. \A l \in Labels : call'[c].book[l].sid # NoPane => env[call'[c].book[l].sid] = l
      BY <1>t, <2>1, <2>2, EntriesTyped DEF EnvInv
    <3> QED  BY <1>t, <2>2, <2>3, <3>1, EnvStep DEF EnvInv
  <2>5. LabelInv'
    BY <1>t, <2>2, <2>3, LabelStep DEF Open
  <2>6. AloneInv' /\ (orderly' => \A d \in Calls \ {c} : ~Active(d) /\ ~Active(d)')
    BY <1>t, <2>2, <2>3, AloneStep
  <2>7. ASSUME orderly', fresh' PROVE Known' /\ Standing(c)'
    <3>1. Known /\ Standing(c) /\ LabelsNew
      BY <1>t, <2>3, <2>7 DEF StandInv, LabelInv
    <3>2. ASSUME NEW p \in spawned \cap Open PROVE \E l \in Labels : book[l].sid = p
      <4>1. PICK l \in Labels : call[c].book[l].sid = p
        BY <2>3, <3>1 DEF Standing, At
      <4>2. p # NoPane /\ env[p] = l
        BY <1>t, <4>1 DEF EnvInv, Open
      <4>3. reg[l] \in {NoPane, p}
        BY <3>1, <4>2 DEF LabelsNew
      <4> QED  BY <2>1, <4>1, <4>3
    <3>3. \A d \in Calls : ~At(d, "append")
      BY <2>3, <2>6, <2>7 DEF At, Active
    <3>4. Known'
      BY <2>3, <3>1, <3>3 DEF Known, Open
    <3> QED  BY <2>2, <2>3, <3>2, <3>4 DEF Standing, At, Open
  <2> QED  BY <2>4, <2>5, <2>6, <2>7, StandStep DEF KnownInv
<1>3. CASE DespawnCloses(c)
  <2>1. PICK l \in call[c].todo :
           CloseSession(call[c].book[l].sid) /\ Step(c, "unregister", [label |-> l])
    BY <1>3 DEF DespawnCloses
  <2>2. /\ \A d \in Calls \ {c} : call'[d] = call[d]
        /\ call'[c].pc = "unregister" /\ call'[c].book = call[c].book /\ call'[c].label = l
    BY <1>t, <2>1, StepSets
  <2>3. At(c, "close") /\ Active(c) /\ UNCHANGED <<env, reg, ledger, history>>
    BY <1>3 DEF DespawnCloses, At, Active
  <2>4. /\ Open' = Open \ {call[c].book[l].sid}
        /\ \A p \in spawned : pane[p] # "unused" => pane'[p] # "unused"
    BY <1>t, <2>1 DEF CloseSession, Open, TypeOK
  <2>5. EnvInv'
    BY <1>t, <2>2, <2>3, <2>4, EnvStep DEF EnvInv
  <2>6. LabelInv'
    BY <1>t, <2>2, <2>3, <2>4, LabelStep
  <2>7. AloneInv' /\ (orderly' => \A d \in Calls \ {c} : ~Active(d) /\ ~Active(d)')
    BY <1>t, <2>2, <2>3, AloneStep
  <2>8. ASSUME orderly', fresh' PROVE Known' /\ Standing(c)'
    <3>1. /\ Known /\ Standing(c)
          /\ \A d \in Calls : ~At(d, "append")
      BY <1>t, <2>3, <2>7, <2>8 DEF StandInv, At, Active
    <3>2. Known'
      BY <2>3, <2>4, <3>1 DEF Known
    <3>3. \A p \in spawned \cap Open : \E k \in Labels : call[c].book[k].sid = p
      BY <2>3, <3>1 DEF Standing, At
    <3> QED  BY <2>2, <2>3, <2>4, <3>2, <3>3 DEF Standing, At
  <2> QED  BY <2>5, <2>6, <2>7, <2>8, StandStep DEF KnownInv
<1>4. CASE DespawnUnregisters(c)
  <2>1. /\ DropLabel(call[c].label)
        /\ Step(c, "close", [todo |-> call[c].todo \ {call[c].label},
                             book |-> Without(call[c].book, call[c].label)])
        /\ At(c, "unregister") /\ Active(c) /\ UNCHANGED <<pane, env, ledger, history>>
    BY <1>4 DEF DespawnUnregisters, At, Active
  <2>2. /\ \A d \in Calls \ {c} : call'[d] = call[d]
        /\ call'[c].pc = "close" /\ call'[c].book = Without(call[c].book, call[c].label)
    BY <1>t, <2>1, StepSets
  <2>3. \A l \in Labels : Without(call[c].book, call[c].label)[l] =
                            IF l = call[c].label THEN NoEntry ELSE call[c].book[l]
    BY <1>t DEF CallOK, Without
  <2>4. EnvInv'
    <3>1. \A l \in Labels : call'[c].book[l].sid # NoPane => env[call'[c].book[l].sid] = l
      BY <1>t, <2>2, <2>3, EntriesTyped DEF EnvInv
    <3> QED  BY <1>t, <2>1, <2>2, <3>1, EnvStep DEF EnvInv
  <2>5. LabelInv'
    <3>1. \A l \in Labels : reg'[l] \in {reg[l], NoPane}
      BY <1>t, <2>1 DEF DropLabel, TypeOK
    <3>2. UNCHANGED <<env, spawned, fresh>> /\ Open' = Open
      BY <2>1 DEF Open
    <3> QED  BY <1>t, <2>2, <3>1, <3>2, LabelStep
  <2>6. AloneInv' /\ (orderly' => \A d \in Calls \ {c} : ~Active(d) /\ ~Active(d)')
    BY <1>t, <2>1, <2>2, AloneStep
  <2>7. ASSUME orderly', fresh' PROVE Known' /\ Standing(c)'
    <3>1. /\ Known /\ Standing(c)
          /\ \A d \in Calls : ~At(d, "append")
      BY <1>t, <2>1, <2>6, <2>7 DEF StandInv, At, Active
    <3>2. UNCHANGED <<ledger, spawned>> /\ Open' = Open
      BY <2>1 DEF Open
    <3>3. Known'
      BY <3>1, <3>2 DEF Known
    <3>4. ASSUME NEW p \in spawned \cap Open
          PROVE  \E l \in Labels : call'[c].book[l].sid = p
      <4>1. PICK l \in Labels : call[c].book[l].sid = p
        BY <2>1, <3>1 DEF Standing, At
      <4>2. l # call[c].label
        BY <2>1, <3>1, <4>1 DEF Standing
      <4> QED  BY <2>2, <2>3, <4>1, <4>2
    <3> QED  BY <2>2, <3>2, <3>3, <3>4 DEF Standing, At
  <2> QED  BY <2>4, <2>5, <2>6, <2>7, StandStep DEF KnownInv
<1>5. CASE DespawnSaves(c)
  <2>1. /\ Step(c, "done", None) /\ ledger' = call[c].book /\ UNCHANGED <<pane, env, reg, history>>
        /\ At(c, "close") /\ Active(c)
    BY <1>5 DEF DespawnSaves, At, Active
  <2> QED  BY <2>1, BookSaved DEF At
<1> QED  BY <1>1, <1>2, <1>3, <1>4, <1>5 DEF Despawn

LEMMA ClosePaneKnows == \A c \in Calls : BookInv /\ KnownInv /\ ClosePane(c) => KnownInv'
<1> SUFFICES ASSUME NEW c \in Calls, BookInv, KnownInv, ClosePane(c) PROVE KnownInv'
  OBVIOUS
<1>t. /\ TypeOK /\ CallsOK /\ CallOK(c) /\ EnvInv /\ LabelInv /\ AloneInv /\ StandInv
      /\ call = [d \in Calls |-> call[d]]
  BY DEF BookInv, CallsOK, KnownInv
<1> USE DEF history
<1>1. CASE CloseByLabel(c) \/ CloseBySession(c)
  <2>1. /\ Begins(c)
        /\ \E p \in Panes :
             \/ Step(c, "close-only", [target |-> p])
             \/ \E l \in Labels : /\ reg[l] \in {p, Mail}
                                  /\ Step(c, "close-session", [label |-> l, target |-> p])
        /\ UNCHANGED <<pane, env, reg, ledger, spawned, fresh>>
    BY <1>1 DEF CloseByLabel, CloseBySession
  <2>2. PICK p \in Panes :
             \/ Step(c, "close-only", [target |-> p])
             \/ \E l \in Labels : /\ reg[l] \in {p, Mail}
                                  /\ Step(c, "close-session", [label |-> l, target |-> p])
    BY <2>1
  <2>3. /\ \A d \in Calls \ {c} : call'[d] = call[d]
        /\ call'[c].book = call[c].book /\ call'[c].target = p
        /\ \/ call'[c].pc = "close-only"
           \/ call'[c].pc = "close-session" /\ call'[c].label \in Labels /\ reg[call'[c].label] \in {p, Mail}
    <3>1. CASE Step(c, "close-only", [target |-> p])
      BY <1>t, <3>1, StepSets
    <3>2. ASSUME NEW l \in Labels, reg[l] \in {p, Mail}, Step(c, "close-session", [label |-> l, target |-> p])
          PROVE  /\ \A d \in Calls \ {c} : call'[d] = call[d]
                 /\ call'[c].book = call[c].book /\ call'[c].target = p
                 /\ call'[c].pc = "close-session" /\ call'[c].label = l
      BY <1>t, <3>2, StepSets
    <3> QED  BY <2>2, <3>1, <3>2
  <2>4. /\ ~Active(c)
        /\ orderly' => orderly /\ \A d \in Calls : ~Active(d)
    <3>1. \E pc, f : Step(c, pc, f)
      BY <2>2
    <3> QED  BY <2>1, <3>1, Begun
  <2>5. EnvInv'
    BY <1>t, <2>1, <2>3, EnvStep DEF EnvInv
  <2>6. LabelInv'
    BY <1>t, <2>1, <2>3, LabelStep DEF Open
  <2>7. AloneInv' /\ (orderly' => \A d \in Calls \ {c} : ~Active(d) /\ ~Active(d)')
    BY <1>t, <2>3, <2>4, AloneStep
  <2>8. ASSUME orderly', fresh' PROVE Known' /\ Standing(c)'
    <3>1. Known /\ LabelsNew /\ Open' = Open
      BY <1>t, <2>1, <2>4, <2>8 DEF StandInv, LabelInv, Open
    <3>2. Known'
      BY <2>1, <2>4, <2>8, <3>1 DEF Known, At, Active
    <3>3. ASSUME call'[c].pc = "close-session", ledger[call'[c].label].sid \in Open
          PROVE  ledger[call'[c].label].sid = p
      <4>1. PICK l \in Labels : l = call'[c].label /\ reg[l] \in {p, Mail}
        BY <2>3, <3>3
      <4>2. PICK q \in spawned \cap Open : ledger[l].sid = q
        BY <3>3, <4>1 DEF BookInv, Open
      <4>3. env[q] = l
        BY <1>t, <4>2 DEF EnvInv, Open
      <4>4. reg[l] \in {NoPane, q}
        BY <3>1, <4>3 DEF LabelsNew
      <4>5. q \in Panes
        BY DEF Open
      <4> QED  BY <4>1, <4>2, <4>4, <4>5
    <3> QED  BY <2>1, <2>3, <3>1, <3>2, <3>3 DEF Standing, At
  <2> QED  BY <2>5, <2>6, <2>7, <2>8, StandStep DEF KnownInv
<1>2. CASE CloseSessionOf(c)
  <2>1. /\ CloseSession(call[c].target)
        /\ \/ At(c, "close-session") /\ Step(c, "drop", None)
           \/ Step(c, "done", None)
        /\ Active(c) /\ ~At(c, "append")
        /\ UNCHANGED <<env, reg, ledger, history>>
    BY <1>2 DEF CloseSessionOf, At, Active
  <2>2. /\ \A d \in Calls \ {c} : call'[d] = call[d]
        /\ call'[c].book = call[c].book /\ call'[c].label = call[c].label
        /\ \/ At(c, "close-session") /\ call'[c].pc = "drop"
           \/ call'[c].pc = "done"
    BY <1>t, <2>1, StepSets DEF None
  <2>3. /\ Open' = Open \ {call[c].target}
        /\ \A p \in spawned : pane[p] # "unused" => pane'[p] # "unused"
    BY <1>t, <2>1 DEF CloseSession, Open, TypeOK
  <2>4. EnvInv'
    BY <1>t, <2>1, <2>2, <2>3, EnvStep DEF EnvInv
  <2>5. LabelInv'
    BY <1>t, <2>1, <2>2, <2>3, LabelStep
  <2>6. AloneInv' /\ (orderly' => \A d \in Calls \ {c} : ~Active(d) /\ ~Active(d)')
    BY <1>t, <2>1, <2>2, AloneStep
  <2>7. ASSUME orderly', fresh' PROVE Known' /\ Standing(c)'
    <3>1. /\ Known /\ Standing(c)
          /\ \A d \in Calls : ~At(d, "append")
      BY <1>t, <2>1, <2>6, <2>7 DEF StandInv, At, Active
    <3>2. Known'
      BY <2>1, <2>3, <3>1 DEF Known
    <3>3. At(c, "close-session") => ledger'[call'[c].label].sid \notin Open'
      BY <2>1, <2>2, <2>3, <3>1 DEF Standing
    <3> QED  BY <2>2, <3>2, <3>3 DEF Standing, At
  <2> QED  BY <2>4, <2>5, <2>6, <2>7, StandStep DEF KnownInv
<1>3. CASE CloseDropsLabel(c)
  <2>1. /\ DropLabel(call[c].label) /\ Step(c, "load", None) /\ UNCHANGED <<pane, env, ledger, history>>
        /\ At(c, "drop") /\ Active(c)
    BY <1>3 DEF CloseDropsLabel, At, Active
  <2>2. /\ \A d \in Calls \ {c} : call'[d] = call[d]
        /\ call'[c].pc = "load" /\ call'[c].book = call[c].book /\ call'[c].label = call[c].label
    BY <1>t, <2>1, StepSets DEF None
  <2>3. UNCHANGED <<env, spawned, ledger, fresh>> /\ Open' = Open
    BY <2>1 DEF Open
  <2>4. EnvInv'
    BY <1>t, <2>1, <2>2, EnvStep DEF EnvInv
  <2>5. LabelInv'
    <3>1. \A l \in Labels : reg'[l] \in {reg[l], NoPane}
      BY <1>t, <2>1 DEF DropLabel, TypeOK
    <3> QED  BY <1>t, <2>2, <2>3, <3>1, LabelStep
  <2>6. AloneInv' /\ (orderly' => \A d \in Calls \ {c} : ~Active(d) /\ ~Active(d)')
    BY <1>t, <2>1, <2>2, AloneStep
  <2>7. ASSUME orderly', fresh' PROVE Known' /\ Standing(c)'
    <3>1. /\ Known /\ Standing(c)
          /\ \A d \in Calls : ~At(d, "append")
      BY <1>t, <2>1, <2>6, <2>7 DEF StandInv, At, Active
    <3>2. Known'
      BY <2>3, <3>1 DEF Known
    <3> QED  BY <2>1, <2>2, <2>3, <3>1, <3>2 DEF Standing, At
  <2> QED  BY <2>4, <2>5, <2>6, <2>7, StandStep DEF KnownInv
<1>4. CASE CloseLoads(c)
  <2>1. PICK pc \in {"save", "done"} : Step(c, pc, [book |-> Without(ledger, call[c].label)])
    BY <1>4 DEF CloseLoads
  <2>2. /\ \A d \in Calls \ {c} : call'[d] = call[d]
        /\ call'[c].pc = pc /\ call'[c].book = Without(ledger, call[c].label)
    BY <1>t, <2>1, StepSets
  <2>3. UNCHANGED <<pane, env, reg, ledger, history>> /\ At(c, "load") /\ Active(c)
    BY <1>4 DEF CloseLoads, At, Active
  <2>4. \A l \in Labels : Without(ledger, call[c].label)[l] =
                            IF l = call[c].label THEN NoEntry ELSE ledger[l]
    BY <1>t DEF TypeOK, Without
  <2>5. EnvInv'
    <3>1. \A l \in Labels : call'[c].book[l].sid # NoPane => env[call'[c].book[l].sid] = l
      BY <1>t, <2>2, <2>4, EntriesTyped DEF EnvInv
    <3> QED  BY <1>t, <2>1, <2>2, <2>3, <3>1, EnvStep DEF EnvInv
  <2>6. LabelInv'
    BY <1>t, <2>1, <2>2, <2>3, LabelStep DEF Open
  <2>7. AloneInv' /\ (orderly' => \A d \in Calls \ {c} : ~Active(d) /\ ~Active(d)')
    BY <1>t, <2>2, <2>3, AloneStep
  <2>8. ASSUME orderly', fresh' PROVE Known' /\ Standing(c)'
    <3>1. /\ Known /\ Standing(c)
          /\ \A d \in Calls : ~At(d, "append")
      BY <1>t, <2>3, <2>7, <2>8 DEF StandInv, At, Active
    <3>2. UNCHANGED <<ledger, spawned>> /\ Open' = Open
      BY <2>3 DEF Open
    <3>3. Known'
      BY <3>1, <3>2 DEF Known
    <3>4. ASSUME NEW p \in spawned \cap Open
          PROVE  \E l \in Labels : call'[c].book[l].sid = p
      <4>1. PICK l \in Labels : ledger[l].sid = p
        BY <3>1 DEF Known
      <4>2. l # call[c].label
        BY <2>3, <3>1, <4>1 DEF Standing, At
      <4> QED  BY <2>2, <2>4, <4>1, <4>2
    <3> QED  BY <2>1, <2>2, <3>2, <3>3, <3>4 DEF Standing, At
  <2> QED  BY <2>5, <2>6, <2>7, <2>8, StandStep DEF KnownInv
<1>5. CASE CloseSaves(c)
  <2>1. /\ Step(c, "done", None) /\ ledger' = call[c].book /\ UNCHANGED <<pane, env, reg, history>>
        /\ At(c, "save") /\ Active(c)
    BY <1>5 DEF CloseSaves, At, Active
  <2> QED  BY <2>1, BookSaved DEF At
<1> QED  BY <1>1, <1>2, <1>3, <1>4, <1>5 DEF ClosePane
(* Panes register under labels nobody has, and only panes that spawn did   *)
(* not open appear here.                                                   *)
LEMMA PanesKnow ==
  \A p \in Panes :
     BookInv /\ KnownInv /\ (Boots(p) \/ OpenedByHand(p) \/ ClosedByHand(p) \/ Relabelled(p))
         => KnownInv'
<1> SUFFICES ASSUME NEW p \in Panes, BookInv, KnownInv,
                    Boots(p) \/ OpenedByHand(p) \/ ClosedByHand(p) \/ Relabelled(p)
             PROVE  KnownInv'
  OBVIOUS
<1>t. TypeOK /\ CallsOK /\ EnvInv /\ LabelInv /\ AloneInv /\ StandInv
  BY DEF BookInv, KnownInv
<1>1. UNCHANGED <<ledger, call, spawned, orderly>> /\ (fresh' => fresh)
  <2>1. CASE Boots(p) \/ ClosedByHand(p)
    BY <2>1 DEF Boots, ClosedByHand, history
  <2>2. CASE OpenedByHand(p) \/ Relabelled(p)
    BY <2>2 DEF OpenedByHand, Relabelled, Gives
  <2> QED  BY <2>1, <2>2
<1>2. /\ \A q \in Panes : pane[q] # "unused" => pane'[q] # "unused" /\ env'[q] = env[q]
      /\ \A q \in Open' : q \in Open \/ pane[q] = "unused"
  BY <1>t DEF Boots, OpenedByHand, ClosedByHand, Relabelled, TypeOK, Open
<1>3. \A q \in spawned : pane[q] # "unused" /\ env'[q] = env[q] /\ pane'[q] # "unused"
  BY <1>t, <1>2 DEF EnvInv, TypeOK
<1>4. EnvInv'
  <2>1. \A l \in Labels : ledger'[l].sid # NoPane => env'[ledger'[l].sid] = l
    BY <1>t, <1>1, <1>3 DEF EnvInv, BookInv
  <2>2. ASSUME NEW d \in Calls
        PROVE  /\ \A l \in Labels : call'[d].book[l].sid # NoPane => env'[call'[d].book[l].sid] = l
               /\ At(d, "append")' => env'[call'[d].target] = call'[d].label
    <3>1. CallOK(d)
      BY <1>t DEF CallsOK
    <3> QED  BY <1>t, <1>1, <1>3, <3>1 DEF EnvInv, CallOK, At
  <2> QED  BY <1>1, <1>3, <2>1, <2>2 DEF EnvInv
<1>5. AloneInv'
  BY <1>t, <1>1 DEF AloneInv, Active
<1>6. StandInv'
  <2> SUFFICES ASSUME orderly', fresh' PROVE Known' /\ \A c \in Calls : Standing(c)'
    BY DEF StandInv
  <2>1. Known /\ \A c \in Calls : Standing(c)
    BY <1>t, <1>1 DEF StandInv
  <2>2. \A q \in spawned : q \in Open' => q \in Open
    BY <1>2, <1>3
  <2>3. Known'
    BY <1>1, <2>1, <2>2 DEF Known, At
  <2>4. ASSUME NEW c \in Calls PROVE Standing(c)'
    <3>1. /\ \A l \in Labels : call[c].book[l].sid \in spawned \cup {NoPane}
          /\ \A l \in Labels : ledger[l].sid \in spawned \cup {NoPane}
          /\ call[c].label \in Labels /\ NoPane \notin Open'
      BY <1>t DEF BookInv, CallsOK, CallOK, Open
    <3>2. Standing(c)
      BY <2>1
    <3> QED  BY <1>1, <2>2, <3>1, <3>2 DEF Standing, At
  <2> QED  BY <2>3, <2>4
<1>7. LabelInv'
  <2> SUFFICES ASSUME fresh' PROVE LabelsNew'
    BY DEF LabelInv
  <2>1. LabelsNew
    BY <1>t, <1>1 DEF LabelInv
  <2>2. /\ \A d \in Calls : call[d].label \in Labels
        /\ \A q \in Panes : env[q] \in Labels
        /\ Open \subseteq Panes /\ spawned \subseteq Panes
    BY <1>t DEF CallsOK, CallOK, TypeOK, Open
  (* p takes the label l. *)
  <2>3. ASSUME NEW l \in Labels, RegisterAs(p, l), p \in Open, UNCHANGED env, Open' = Open,
               \A q \in (spawned \cap Open) \ {p} : env[q] # l,
               \A d \in Calls : At(d, "osascript") => call[d].label # l,
               p \in spawned => env[p] = l \/ reg[env[p]] \in {NoPane, p}
        PROVE  LabelsNew'
    <3>1. \A m \in Labels \ {l} : reg'[m] \in {reg[m], NoPane}
      BY <1>t, <2>3 DEF RegisterAs, TypeOK
    <3>2. reg'[l] = p
      BY <1>t, <2>3 DEF RegisterAs, TypeOK
    <3>3. ASSUME NEW q \in spawned' \cap Open'
          PROVE  reg'[env'[q]] \in {NoPane, q} /\ \A r \in Open' \ {q} : env'[r] # env'[q]
      <4>1. q \in spawned \cap Open /\ env'[q] = env[q] /\ env[q] \in Labels
        BY <1>1, <2>2, <2>3, <3>3
      <4>2. reg[env[q]] \in {NoPane, q} /\ \A r \in Open \ {q} : env[r] # env[q]
        BY <2>1, <4>1 DEF LabelsNew
      <4> QED  BY <2>3, <3>1, <3>2, <4>1, <4>2
    <3>4. ASSUME NEW d \in Calls, At(d, "osascript")'
          PROVE  /\ reg'[call'[d].label] = NoPane
                 /\ \A q \in Open' : env'[q] # call'[d].label
                 /\ \A e \in Calls \ {d} : At(e, "osascript")' => call'[e].label # call'[d].label
      <4>1. At(d, "osascript") /\ call'[d] = call[d] /\ call[d].label \in Labels \ {l}
        BY <1>1, <2>2, <2>3, <3>4 DEF At
      <4> QED  BY <1>1, <2>1, <2>3, <3>1, <4>1 DEF LabelsNew, At
    <3> QED  BY <3>3, <3>4 DEF LabelsNew
  <2>4. CASE Boots(p)
    <3>1. p \in Open /\ Open' = Open /\ RegisterAs(p, env[p]) /\ UNCHANGED env
      BY <1>t, <2>4 DEF Boots, Open, TypeOK
    <3>2. /\ \A q \in (spawned \cap Open) \ {p} : env[q] # env[p]
          /\ \A d \in Calls : At(d, "osascript") => call[d].label # env[p]
      BY <2>1, <3>1 DEF LabelsNew
    <3> QED  BY <2>2, <2>3, <3>1, <3>2
  <2>5. CASE Relabelled(p)
    <3>1. PICK l \in Labels : RegisterAs(p, l) /\ Gives(l)
      BY <2>5 DEF Relabelled
    <3>2. p \in Open /\ Open' = Open /\ UNCHANGED env
      BY <2>5 DEF Relabelled, Open
    <3>3. /\ \A q \in (spawned \cap Open) \ {p} : env[q] # l
          /\ \A d \in Calls : At(d, "osascript") => call[d].label # l
      BY <3>1, <2>2 DEF Gives
    <3>4. p \in spawned => reg[env[p]] \in {NoPane, p}
      BY <2>1, <3>2 DEF LabelsNew
    <3> QED  BY <2>3, <3>1, <3>2, <3>3, <3>4
  <2>6. CASE OpenedByHand(p)
    <3>1. PICK l \in Labels : Gives(l) /\ env' = [env EXCEPT ![p] = l]
      BY <2>6 DEF OpenedByHand
    <3>2. /\ pane[p] = "unused" /\ p \notin spawned /\ UNCHANGED reg
          /\ Open' = Open \cup {p} /\ p \notin Open
      BY <1>t, <2>6 DEF OpenedByHand, Open, TypeOK, EnvInv
    <3>3. env'[p] = l /\ \A q \in Panes \ {p} : env'[q] = env[q]
      BY <1>t, <3>1 DEF TypeOK
    <3>4. /\ \A q \in Open : env[q] # l
          /\ \A d \in Calls : call[d].label # l
      BY <3>1 DEF Gives
    <3>5. ASSUME NEW q \in spawned' \cap Open'
          PROVE  reg'[env'[q]] \in {NoPane, q} /\ \A r \in Open' \ {q} : env'[r] # env'[q]
      <4>1. q \in spawned \cap Open /\ env'[q] = env[q] /\ q # p
        BY <1>1, <2>2, <3>2, <3>3, <3>5
      <4> QED  BY <2>1, <2>2, <3>2, <3>3, <3>4, <4>1 DEF LabelsNew
    <3>6. ASSUME NEW d \in Calls, At(d, "osascript")'
          PROVE  /\ reg'[call'[d].label] = NoPane
                 /\ \A q \in Open' : env'[q] # call'[d].label
                 /\ \A e \in Calls \ {d} : At(e, "osascript")' => call'[e].label # call'[d].label
      <4>1. At(d, "osascript") /\ call'[d] = call[d]
        BY <1>1, <3>6 DEF At
      <4> QED  BY <1>1, <2>1, <2>2, <3>2, <3>3, <3>4, <4>1 DEF LabelsNew, At
    <3> QED  BY <3>5, <3>6 DEF LabelsNew
  <2>7. CASE ClosedByHand(p)
    <3>1. Open' \subseteq Open /\ UNCHANGED <<env, reg>>
      BY <1>t, <2>7 DEF ClosedByHand, Open, TypeOK
    <3> QED  BY <1>1, <2>1, <3>1 DEF LabelsNew, At
  <2> QED  BY <2>4, <2>5, <2>6, <2>7
<1> QED  BY <1>4, <1>5, <1>6, <1>7 DEF KnownInv

LEMMA PrunedKnows == \A l \in Labels : BookInv /\ KnownInv /\ Pruned(l) => KnownInv'
<1> SUFFICES ASSUME NEW l \in Labels, BookInv, KnownInv, Pruned(l) PROVE KnownInv'
  OBVIOUS
<1>1. /\ UNCHANGED <<pane, env, ledger, call, spawned, orderly, fresh>> /\ Open' = Open
      /\ \A m \in Labels : reg'[m] \in {reg[m], NoPane}
  BY DEF Pruned, DropLabel, history, Open, BookInv, TypeOK
<1>2. EnvInv' /\ AloneInv' /\ StandInv'
  BY <1>1 DEF KnownInv, EnvInv, AloneInv, StandInv, Known, Standing, Active, At
<1>3. LabelInv'
  BY <1>1 DEF KnownInv, LabelInv, LabelsNew, At, BookInv, TypeOK, CallsOK, CallOK
<1> QED  BY <1>2, <1>3 DEF KnownInv

(* A pane that was spawned is on the ledger while it is open, or its spawn *)
(* is about to put it there, as long as commands are run one at a time and *)
(* to their end, with labels that nobody has.                              *)
THEOREM LedgerKnowsSpawned == Spec => []SpawnedKnown
<1>1. BookInv /\ KnownInv /\ [Next]_vars => KnownInv'
  <2> SUFFICES ASSUME BookInv, KnownInv, [Next]_vars PROVE KnownInv'
    OBVIOUS
  <2>1. CASE UNCHANGED vars
    BY <2>1 DEF vars, history, KnownInv, EnvInv, LabelInv, LabelsNew, AloneInv, StandInv, Known,
       Standing, Active, At, Open
  <2>2. CASE Next
    BY <2>2, SpawnKnows, DespawnKnows, ClosePaneKnows, PanesKnow, PrunedKnows DEF Next
  <2> QED  BY <2>1, <2>2
<1>2. KnownInv => SpawnedKnown
  BY DEF KnownInv, StandInv, Known, SpawnedKnown
<1> QED  BY <1>1, <1>2, KnownInit, LedgerNamesSpawned, PTL DEF Spec
=============================================================================
