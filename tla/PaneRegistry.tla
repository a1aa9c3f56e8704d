---------------------------- MODULE PaneRegistry ----------------------------
(***************************************************************************)
(* registry.json with panes and Codex threads together: who registers      *)
(* under which label, which labels are pruned when panes close, and what   *)
(* becomes of the mail that lies under a label when its owner changes.     *)
(*                                                                         *)
(* Every change of the file is made under registry._exclusive_lock and is  *)
(* one step.  What is decided outside that lock is not: the label a pane   *)
(* picks, the set of living panes, and the archiving of mailboxes.         *)
(*                                                                         *)
(* Time moves in ticks of thirty seconds, the lifetime of the cached set   *)
(* of living panes; a record younger than two of them is not pruned.       *)
(***************************************************************************)
EXTENDS Naturals, FiniteSets

CONSTANTS
    MaxLabel,      \* labels are numbered, as automatic labels are
    Panes,         \* iTerm sessions
    Threads,       \* Codex threads
    Nobody,        \* no owner
    Pruners,       \* processes that prune: the watchdog, list, prune, register-pane
    MaxLate,       \* bound: requests the daemon has not carried out yet
    MaxMail        \* bound: mailboxes and owners with unread mail

ASSUME RegistryAssumption ==
    /\ MaxLabel \in Nat
    /\ Nobody \notin Panes \cup Threads \cup Pruners
    /\ Panes \cap Threads = {}
    /\ MaxLate \in Nat
    /\ MaxMail \in Nat

VARIABLES
    reg,        \* reg[l]: the record of label l
    mail,       \* mail[l]: those whose unread mail lies in the mailbox of l
    open,       \* the panes that exist
    cache,      \* alive-sessions cache file: panes, and ticks since it was written
    cacheLock,  \* the process that refreshes it
    pruner,     \* pruner[k]: prune_dead
    comer,      \* comer[p]: the process that registers pane p
    late        \* requests that reached the daemon after their client gave up

vars == <<reg, mail, open, cache, cacheLock, pruner, comer, late>>

Labels == 1..MaxLabel
Owners == Panes \cup Threads

Old == 2        \* ticks after which a record may be pruned and a cache is old

NoRecord == [kind |-> "none", owner |-> Nobody, age |-> 0]
Records == [kind : {"none", "pane", "channel", "mailbox"}, owner : Owners \cup {Nobody}, age : 0..Old]

Init ==
    /\ reg = [l \in Labels |-> NoRecord]
    /\ mail = [l \in Labels |-> {}]
    /\ open = Panes
    /\ cache = [sids |-> {}, age |-> Old]
    /\ cacheLock = Nobody
    /\ pruner = [k \in Pruners |-> [pc |-> "idle", force |-> FALSE, sids |-> {}, age |-> 0,
                                     removed |-> {}]]
    /\ comer = [p \in Panes |-> [pc |-> "idle", label |-> 0]]
    /\ late = {}

-----------------------------------------------------------------------------
(* Changes of the file, each under the registry lock.                      *)

Registered(l) == reg[l].kind # "none"

\* Variant: only mailboxes are protected.
RefusedMailboxOnly(l, p) == reg[l].kind = "mailbox"

(* register: a mailbox, and a channel of another pane, keep their label.   *)
Refused(l, p) == reg[l].kind = "mailbox" \/ (reg[l].kind = "channel" /\ reg[l].owner # p)

\* Variant: dedupe_session_id left at its default.
WithRecordOnly(l, p) ==
    [reg EXCEPT ![l] = [kind |-> IF @.owner = p THEN @.kind ELSE "pane", owner |-> p, age |-> 0]]

(* Other labels of the same pane are dropped, channel or not; the pane's   *)
(* own record keeps what it holds.                                         *)
WithRecord(l, p) ==
    [k \in Labels |->
        IF k = l THEN [kind |-> IF reg[l].owner = p THEN reg[l].kind ELSE "pane",
                       owner |-> p, age |-> 0]
        ELSE IF reg[k].owner = p THEN NoRecord ELSE reg[k]]

(* register_mailbox                                                        *)
RegisterMailbox(t, l) ==
    /\ \A k \in Labels \ {l} : reg[k].owner # t
    /\ ~Registered(l) \/ reg[l].owner = t
    /\ reg' = [reg EXCEPT ![l] = [kind |-> "mailbox", owner |-> t, age |-> 0]]
    /\ UNCHANGED <<mail, open, cache, cacheLock, pruner, comer, late>>

(* A pane's MCP server connects its channel.                               *)
ConnectChannel(l) ==
    /\ reg[l].kind = "pane" /\ reg[l].owner \in open
    /\ reg' = [reg EXCEPT ![l].kind = "channel"]
    /\ UNCHANGED <<mail, open, cache, cacheLock, pruner, comer, late>>

\* Variant: only a channel's mailbox is archived.
UnregisterKeepsMail(l) ==
    /\ Registered(l)
    /\ reg' = [reg EXCEPT ![l] = NoRecord]
    /\ mail' = IF reg[l].kind = "channel" THEN [mail EXCEPT ![l] = {}] ELSE mail
    /\ UNCHANGED <<open, cache, cacheLock, pruner, comer, late>>

(* unregister: by anyone, and by an ask that finds the pane closed.        *)
Unregister(l) ==
    /\ Registered(l)
    /\ reg' = [reg EXCEPT ![l] = NoRecord]
    /\ mail' = IF reg[l].kind = "pane" THEN mail ELSE [mail EXCEPT ![l] = {}]
    /\ UNCHANGED <<open, cache, cacheLock, pruner, comer, late>>

-----------------------------------------------------------------------------
(* A pane registers: register-pane, register_self, auto_register_session,  *)
(* or the start of its MCP server.                                         *)

LabelOf(p) == {l \in Labels : reg[l].owner = p}

\* Variant: labels are counted.
NextCounted == {Cardinality({l \in Labels : Registered(l)}) + 1}

(* _next_auto_label                                                        *)
NextFree == {l \in Labels : ~Registered(l) /\ \A k \in 1..(l - 1) : Registered(k)}

(* The label is chosen from a reading of the registry: one that is asked   *)
(* for, the one the pane has, or the next free one.                        *)
OwnOrFree(p) == IF LabelOf(p) # {} THEN LabelOf(p) ELSE NextFree
Comes(p, labels, pc) ==
    /\ comer[p].pc = "idle"
    /\ p \in open
    /\ \E l \in labels : comer' = [comer EXCEPT ![p] = [pc |-> pc, label |-> l]]
    /\ UNCHANGED <<reg, mail, open, cache, cacheLock, pruner, late>>

(* register_self; so do a starting MCP server, with TEAMMATE_LABEL or       *)
(* without, and register-pane without a label.                             *)
RegisterSelf(p) == Comes(p, OwnOrFree(p) \cup Labels, "register")

(* register-pane archives the mailbox of a label it is given before it     *)
(* asks for the label.                                                     *)
RegisterPane(p) == Comes(p, Labels, "archive")

ArchiveNamed(p) ==
    /\ comer[p].pc = "archive"
    /\ mail' = [mail EXCEPT ![comer[p].label] = {}]
    /\ comer' = [comer EXCEPT ![p].pc = "register"]
    /\ UNCHANGED <<reg, open, cache, cacheLock, pruner, late>>

(* Directly or through the daemon.  A client that got no answer in five    *)
(* seconds writes itself; the daemon may still do so too.                  *)
Register(p) ==
    /\ comer[p].pc = "register"
    /\ LET l == comer[p].label
       IN  /\ IF Refused(l, p)
              THEN UNCHANGED reg
              ELSE reg' = WithRecord(l, p)
           /\ late' \in {late, late \cup {<<l, p>>}}
           /\ Cardinality(late') <= MaxLate
    /\ comer' = [comer EXCEPT ![p] = [pc |-> "idle", label |-> 0]]
    /\ UNCHANGED <<mail, open, cache, cacheLock, pruner>>

DaemonRegisters ==
    /\ \E r \in late :
          /\ reg' = IF Refused(r[1], r[2]) THEN reg ELSE WithRecord(r[1], r[2])
          /\ late' = late \ {r}
    /\ UNCHANGED <<mail, open, cache, cacheLock, pruner, comer>>

-----------------------------------------------------------------------------
(* prune_dead, with alive_session_ids_cached                               *)

At(k, pc) == pruner[k].pc = pc

Takes(k, set) ==
    [pruner EXCEPT ![k] = [pc |-> "prune", force |-> FALSE, sids |-> set.sids, age |-> set.age,
                           removed |-> {}]]

CacheValid == cache.sids # {} /\ cache.age < Old

PruneBegin(k) ==
    /\ At(k, "idle")
    /\ \E force \in BOOLEAN :
          pruner' = IF CacheValid /\ ~force
                    THEN Takes(k, cache)
                    ELSE [pruner EXCEPT ![k].pc = "refresh", ![k].force = force]
    /\ UNCHANGED <<reg, mail, open, cache, cacheLock, comer, late>>

(* Whoever does not get the lock takes the cached set, however old.        *)
PruneLock(k) ==
    /\ At(k, "refresh")
    /\ IF cacheLock # Nobody \/ (CacheValid /\ ~pruner[k].force)
       THEN pruner' = Takes(k, cache) /\ UNCHANGED cacheLock
       ELSE pruner' = [pruner EXCEPT ![k].pc = "query", ![k].force = FALSE] /\ cacheLock' = k
    /\ UNCHANGED <<reg, mail, open, cache, comer, late>>

(* iTerm may not list a pane that has just been opened; a failed or empty  *)
(* answer falls back on the cached set too.                                *)
PruneQuery(k) ==
    /\ At(k, "query")
    /\ cacheLock' = Nobody
    /\ \/ /\ open # {}
          /\ \E sids \in SUBSET open :
                /\ sids # {}
                /\ \A l \in Labels : reg[l].owner \in open \ sids => reg[l].age = 0
                /\ open \ sids \subseteq {reg[l].owner : l \in Labels}
                /\ cache' = [sids |-> sids, age |-> 0]
                /\ pruner' = Takes(k, cache')
       \/ pruner' = Takes(k, cache) /\ UNCHANGED cache
    /\ UNCHANGED <<reg, mail, open, comer, late>>

(* A record with a session; threads have none and are never pruned.        *)
Prunable(l) == reg[l].kind \in {"pane", "channel"}

\* Variant: the grace period is no longer than the cache's lifetime.
DeadSoon(l, sids) == Prunable(l) /\ reg[l].owner \notin sids /\ reg[l].age >= 1

(* A record with a session that is not in the set and has had its grace.   *)
Dead(l, sids) == Prunable(l) /\ reg[l].owner \notin sids /\ reg[l].age = Old

Prune(k) ==
    /\ At(k, "prune")
    /\ LET gone == IF pruner[k].sids = {} THEN {} ELSE {l \in Labels : Dead(l, pruner[k].sids)}
       IN  /\ reg' = [l \in Labels |-> IF l \in gone THEN NoRecord ELSE reg[l]]
           /\ pruner' = [pruner EXCEPT ![k] = [pc |-> IF gone = {} THEN "idle" ELSE "archive",
                                               force |-> FALSE, sids |-> {}, age |-> 0,
                                               removed |-> gone]]
    /\ UNCHANGED <<mail, open, cache, cacheLock, comer, late>>

(* archive_label_mailbox, after the lock is gone.                          *)
PruneArchive(k) ==
    /\ At(k, "archive")
    /\ \E l \in pruner[k].removed :
          /\ mail' = [mail EXCEPT ![l] = {}]
          /\ pruner' = [pruner EXCEPT ![k].removed = @ \ {l},
                                      ![k].pc = IF @ = "archive" /\ pruner[k].removed = {l}
                                                THEN "idle" ELSE @]
    /\ UNCHANGED <<reg, open, cache, cacheLock, comer, late>>

-----------------------------------------------------------------------------
(* Mail, panes and time.                                                   *)

Ask(l) ==
    /\ Registered(l)
    /\ reg[l].owner \in open \cup Threads
    /\ mail' = [mail EXCEPT ![l] = @ \cup {reg[l].owner}]
    /\ Cardinality({m \in Labels \X Owners : m[2] \in mail'[m[1]]}) <= MaxMail
    /\ UNCHANGED <<reg, open, cache, cacheLock, pruner, comer, late>>

(* The hook of a pane takes what lies under the label the registry gives   *)
(* it; the worker hands a thread only what names the thread.               *)
Drain(l) ==
    /\ Registered(l)
    /\ LET who == reg[l].owner
           got == IF who \in Threads THEN mail[l] \cap {who} ELSE mail[l]
       IN  /\ who \in open \cup Threads
           /\ mail' = [mail EXCEPT ![l] = @ \ got]
    /\ UNCHANGED <<reg, open, cache, cacheLock, pruner, comer, late>>

Close(p) ==
    /\ p \in open
    /\ open' = open \ {p}
    /\ comer' = [comer EXCEPT ![p] = [pc |-> "idle", label |-> 0]]
    /\ UNCHANGED <<reg, mail, cache, cacheLock, pruner, late>>

Older(n) == IF n = Old THEN Old ELSE n + 1

(* Nobody takes thirty seconds between reading the set of living panes     *)
(* and using it: the query has five, the lock ten.  The age of a record    *)
(* without a session is never looked at and not kept.                      *)
Tick ==
    /\ \A k \in Pruners : pruner[k].pc \in {"idle", "archive"}
    /\ reg' = [l \in Labels |->
                  IF Prunable(l) THEN [reg[l] EXCEPT !.age = Older(@)] ELSE reg[l]]
    /\ cache' = [cache EXCEPT !.age = Older(@)]
    /\ UNCHANGED <<mail, open, cacheLock, pruner, comer, late>>

-----------------------------------------------------------------------------
PruneStep(k) == PruneBegin(k) \/ PruneLock(k) \/ PruneQuery(k) \/ Prune(k) \/ PruneArchive(k)

Next ==
    \/ \E p \in Panes : RegisterSelf(p) \/ RegisterPane(p) \/ ArchiveNamed(p) \/ Register(p) \/ Close(p)
    \/ \E t \in Threads, l \in Labels : RegisterMailbox(t, l)
    \/ \E l \in Labels : ConnectChannel(l) \/ Unregister(l) \/ Ask(l) \/ Drain(l)
    \/ \E k \in Pruners : PruneStep(k)
    \/ DaemonRegisters \/ Tick

Spec == Init /\ [][Next]_vars

-----------------------------------------------------------------------------
(* Every variable holds what the code can put there.                       *)
TypeOK ==
    /\ reg \in [Labels -> Records]
    /\ mail \in [Labels -> SUBSET Owners]
    /\ open \subseteq Panes
    /\ cache \in [sids : SUBSET Panes, age : 0..Old]
    /\ cacheLock \in Pruners \cup {Nobody}
    /\ \A k \in Pruners : cacheLock = k <=> pruner[k].pc = "query"
    /\ pruner \in [Pruners -> [pc : {"idle", "refresh", "query", "prune", "archive"},
                               force : BOOLEAN, sids : SUBSET Panes, age : 0..Old, removed : SUBSET Labels]]
    /\ comer \in [Panes -> [pc : {"idle", "archive", "register"}, label : 0..MaxLabel]]
    /\ late \subseteq (Labels \X Panes)

(* "Two labels share one iTerm session and the drain hook routes messages  *)
(* to the wrong one" (registry.register) does not happen: a pane or thread *)
(* has one label, whatever the order of registrations, the daemon's late   *)
(* ones included.                                                          *)
OneLabelPerOwner ==
    \A l, k \in Labels : Registered(l) /\ reg[l].owner = reg[k].owner => l = k

(* "Pane open -> label kept" (registry.prune_dead): a pane that is open is *)
(* never pruned by a process whose set of living panes is younger than the *)
(* grace period, cached or not, though it may have opened, registered or   *)
(* been missed by iTerm after the set was made.                            *)
LivePaneKeepsLabel ==
    [][\A k \in Pruners :
          pruner[k].pc = "prune" /\ pruner'[k].pc # "prune" /\ pruner[k].age < Old
              => \A l \in Labels : reg[l].owner \in open => reg'[l] = reg[l]]_vars

(* "Their old inbox never bleeds into a future label collision"            *)
(* (registry.prune_dead) holds for mail to a thread: it lies under that    *)
(* thread's address or not at all, through unregistration, refused         *)
(* commands, pruning and the archiving that comes after it.                *)
ThreadMailStays ==
    \A l \in Labels, t \in Threads : t \in mail[l] => reg[l].owner = t

(* What is promised about addresses, of this module's variables: a mailbox *)
(* and a connected channel are kept for their owners, and threads last.    *)
Contract == INSTANCE AddressContract WITH
    Lasting <- Threads,
    owner <- [l \in Labels |-> reg[l].owner],
    kept <- {l \in Labels : reg[l].kind \in {"mailbox", "channel"}}

(* Every registration, early or late, connection, unregistration, pruning, *)
(* message and archiving keeps the promise about addresses: above all, the *)
(* label of a mailbox or a connected channel goes to another owner only    *)
(* after it was free (unregister, prune_dead, or its pane took another).   *)
ImplementsAddressContract == Contract!Spec
=============================================================================
