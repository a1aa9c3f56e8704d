---------------------------- MODULE PaneDelivery ----------------------------
(***************************************************************************)
(* Keystroke delivery to the panes that own one address                    *)
(* (TEAMMATE_LEGACY_PANE_INPUT).  Four actors hand over its mail: the      *)
(* process of each ask types it into the pane, the watchdog types what     *)
(* nobody else delivers, an inbox hook attaches it to a prompt or a stop,  *)
(* and the receiver acknowledges what it has seen.                         *)
(*                                                                         *)
(* They share the envelope (with a lease and a pane_delivery mark), the    *)
(* receipt and .send-lock; only the acknowledgement does without that      *)
(* lock.  Whatever is on the screen is read by a heuristic, so what an     *)
(* actor believes of the compose box may be wrong either way.              *)
(***************************************************************************)
EXTENDS Naturals, FiniteSets

CONSTANTS
    Jobs,          \* messages; each is sent by a process of its own
    Panes,         \* iTerm sessions that may own the address
    NoPane,        \* no pane
    MaxAttach,     \* messages a hook attaches at once
    StarveLimit,   \* scans of a busy pane before its mail is typed all the same
    MaxDeaths,     \* bound: processes killed and panes closed
    MaxLapses,     \* bound: messages whose lease runs out early
    MaxMoves       \* bound: registrations of the address for another pane

ASSUME PaneAssumption ==
    /\ Jobs \cap {"free", "watch", "hook"} = {}
    /\ NoPane \notin Panes
    /\ MaxAttach \in Nat \ {0}
    /\ StarveLimit \in Nat
    /\ MaxDeaths \in Nat
    /\ MaxLapses \in Nat
    /\ MaxMoves \in Nat

VARIABLES
    owner,      \* the pane registered under the address
    open,       \* the panes that exist
    screen,     \* what the owner's screen shows
    box,        \* box[j]: whether the envelope of j is in the inbox
    mail,       \* mail[j]: its delivery_lease and pane_delivery, as last written
    receipt,    \* receipt[j]: processed/ has a terminal for j
    sendLock,   \* holder of .send-lock
    sender,     \* sender[j]: _ask_async for j
    watch,      \* the watchdog
    starving,   \* scans since the owner was first found busy
    hook,       \* the inbox hook that is running
    stuck,      \* stuck[j]: the pane whose compose box holds j unsubmitted
    handed,     \* handed[j][p]: times p's agent was given j (history)
    late,       \* messages whose lease ran out on a holder still at work (history)
    cut,        \* messages in the hands of a hook that was killed (history)
    deaths, moves

fileVars == <<box, mail, receipt>>
paneVars == <<stuck, handed>>
envVars  == <<owner, open, screen, late, cut, deaths, moves>>
vars == <<envVars, fileVars, sendLock, sender, watch, starving, hook, paneVars>>

Leases == {"none", "sender", "watch"}
Marks  == {"none", "dispatching", "uncertain"}

SenderPCs == {"new", "waiting", "renew", "stabilise", "dispatch", "inject", "unlink", "verify",
              "recreate", "release", "after", "fallback", "done", "failed", "cancelled",
              "dead"}
WatchPCs  == {"down", "idle", "wake", "pick", "capture", "mark", "inject", "verify",
              "receipt", "failed", "unmark"}

Holders == Jobs \cup {"free", "watch", "hook"}

(* self: the pane whose TERM_SESSION_ID the watchdog inherited.            *)
Idle(self) == [pc |-> "idle", job |-> {}, pane |-> NoPane, self |-> self]
Down == [Idle(NoPane) EXCEPT !.pc = "down"]
NoHook == [pc |-> "idle", todo |-> {}, blocks |-> {}, pane |-> NoPane]

Init ==
    /\ owner \in Panes
    /\ open = Panes
    /\ screen = "empty"
    /\ box = [j \in Jobs |-> FALSE]
    /\ mail = [j \in Jobs |-> [lease |-> "none", mark |-> "none"]]
    /\ receipt = [j \in Jobs |-> FALSE]
    /\ sendLock = "free"
    /\ sender = [j \in Jobs |-> [pc |-> "new", pane |-> NoPane, mark |-> "none", ok |-> FALSE]]
    /\ watch = Down
    /\ starving = 0
    /\ hook = NoHook
    /\ stuck = [j \in Jobs |-> NoPane]
    /\ handed = [j \in Jobs |-> [p \in Panes |-> 0]]
    /\ late = {}
    /\ cut = {}
    /\ deaths = 0
    /\ moves = 0

-----------------------------------------------------------------------------
(* The envelope, the lock and the pane.                                    *)

(* _write_inbox: whoever holds a copy can put it (back) into the inbox.    *)
Write(j, lease, mark) ==
    /\ box' = [box EXCEPT ![j] = TRUE]
    /\ mail' = [mail EXCEPT ![j] = [lease |-> lease, mark |-> mark]]
    /\ UNCHANGED receipt

Unlink(j) == box' = [box EXCEPT ![j] = FALSE] /\ UNCHANGED <<mail, receipt>>

(* _move_to_processed                                                      *)
Process(j) ==
    /\ box' = [box EXCEPT ![j] = FALSE]
    /\ receipt' = [receipt EXCEPT ![j] = TRUE]
    /\ UNCHANGED mail

LeaseActive(j) == mail[j].lease # "none"

\* Variant: the mark is not looked at.
AvailableUnlessLeased(j) == box[j] /\ ~LeaseActive(j)

(* available_to_hook, eligible_for_watch: one condition for mail with a    *)
(* delivery_mode that is not claude-channel.                               *)
Available(j) == box[j] /\ ~LeaseActive(j) /\ mail[j].mark = "none"

Submitted(j, p) ==
    /\ handed' = [handed EXCEPT ![j][p] = @ + 1]
    /\ stuck' = [stuck EXCEPT ![j] = NoPane]

(* osa_clear_and_inject: the body goes off, or stays in the compose box.   *)
Injected(j, p) ==
    /\ p \in open
    /\ Submitted(j, p) \/ (stuck' = [stuck EXCEPT ![j] = p] /\ UNCHANGED handed)

(* A lone Enter.                                                           *)
Enter(j) == (stuck[j] # NoPane /\ Submitted(j, stuck[j])) \/ UNCHANGED paneVars

-----------------------------------------------------------------------------
(* The sender: _ask_async                                                  *)

At(j, pc) == sender[j].pc = pc
Goes(j, pc) == sender' = [sender EXCEPT ![j].pc = pc]

(* The address is resolved; a closed pane costs it its registration.       *)
(* Otherwise the envelope is written, without a lease when mailbox_only.   *)
Ask(j) ==
    /\ At(j, "new")
    /\ owner # NoPane
    /\ IF owner \in open
       THEN /\ \/ Write(j, "none", "none") /\ sender' = [sender EXCEPT ![j].pc = "done"]
               \/ /\ Write(j, "sender", "none")
                  /\ sender' = [sender EXCEPT ![j].pc = "waiting", ![j].pane = owner]
            /\ UNCHANGED owner
       ELSE /\ owner' = NoPane
            /\ Goes(j, "failed")
            /\ UNCHANGED fileVars
    /\ UNCHANGED <<open, screen, late, cut, deaths, moves, sendLock, watch, starving, hook, paneVars>>

(* _per_target_send_lock; a message that is gone counts as delivered.      *)
LockTake(j) ==
    /\ At(j, "waiting")
    /\ sendLock = "free"
    /\ sendLock' = j
    /\ sender' = IF box[j] THEN [sender EXCEPT ![j].pc = "renew"]
                 ELSE [sender EXCEPT ![j].pc = "release", ![j].ok = TRUE]
    /\ UNCHANGED <<envVars, fileVars, watch, starving, hook, paneVars>>

\* Variant: the lock is released by whoever gave up waiting for it.
LockTimeoutReleases(j) ==
    /\ At(j, "waiting")
    /\ sendLock # "free"
    /\ Goes(j, "release")
    /\ UNCHANGED <<envVars, fileVars, sendLock, watch, starving, hook, paneVars>>

LockTimeout(j) ==
    /\ At(j, "waiting")
    /\ sendLock # "free"
    /\ Goes(j, "after")
    /\ UNCHANGED <<envVars, fileVars, sendLock, watch, starving, hook, paneVars>>

RenewLease(j) ==
    /\ At(j, "renew")
    /\ Write(j, "sender", "none")
    /\ Goes(j, "stabilise")
    /\ UNCHANGED <<envVars, sendLock, watch, starving, hook, paneVars>>

(* The compose box holds still, or never does.                             *)
Stabilise(j) ==
    /\ At(j, "stabilise")
    /\ \E pc \in {"dispatch", "release"} : Goes(j, pc)
    /\ UNCHANGED <<envVars, fileVars, sendLock, watch, starving, hook, paneVars>>

Dispatch(j) ==
    /\ At(j, "dispatch")
    /\ Write(j, "sender", "dispatching")
    /\ sender' = [sender EXCEPT ![j].pc = "inject", ![j].mark = "dispatching"]
    /\ UNCHANGED <<envVars, sendLock, watch, starving, hook, paneVars>>

Inject(j) ==
    /\ At(j, "inject")
    /\ \/ Injected(j, sender[j].pane) /\ Goes(j, "unlink")
       \/ /\ Injected(j, sender[j].pane) \/ UNCHANGED paneVars     \* osascript raises
          /\ sender' = [sender EXCEPT ![j].pc = "release", ![j].mark = "uncertain"]
    /\ UNCHANGED <<envVars, fileVars, sendLock, watch, starving, hook>>

UnlinkEarly(j) ==
    /\ At(j, "unlink")
    /\ Unlink(j)
    /\ Goes(j, "verify")
    /\ UNCHANGED <<envVars, sendLock, watch, starving, hook, paneVars>>

(* The screen is captured, Enter retried up to three times.                *)
Verify(j) ==
    /\ At(j, "verify")
    /\ Enter(j)
    /\ sender' \in {[sender EXCEPT ![j].pc = "release", ![j].ok = TRUE],
                    [sender EXCEPT ![j].pc = "recreate"]}
    /\ UNCHANGED <<envVars, fileVars, sendLock, watch, starving, hook>>

Recreate(j) ==
    /\ At(j, "recreate")
    /\ Write(j, "sender", sender[j].mark)
    /\ Goes(j, "release")
    /\ UNCHANGED <<envVars, sendLock, watch, starving, hook, paneVars>>

LockRelease(j) ==
    /\ At(j, "release")
    /\ sendLock' = "free"
    /\ Goes(j, "after")
    /\ UNCHANGED <<envVars, fileVars, watch, starving, hook, paneVars>>

\* Variant: the inbox file is removed whatever became of the injection.
AfterUnlinks(j) ==
    /\ At(j, "after")
    /\ Unlink(j) /\ Goes(j, "done")
    /\ UNCHANGED <<envVars, sendLock, watch, starving, hook, paneVars>>

\* Variant: a sender that did not get to deliver leaves the envelope as it is.
AfterLeaves(j) ==
    /\ At(j, "after")
    /\ IF sender[j].ok THEN Unlink(j) ELSE UNCHANGED fileVars
    /\ Goes(j, "done")
    /\ UNCHANGED <<envVars, sendLock, watch, starving, hook, paneVars>>

(* Without the lock: a delivered message is removed ...                    *)
After(j) ==
    /\ At(j, "after")
    /\ IF sender[j].ok THEN Unlink(j) /\ Goes(j, "done")
       ELSE UNCHANGED fileVars /\ Goes(j, IF box[j] THEN "fallback" ELSE "done")
    /\ UNCHANGED <<envVars, sendLock, watch, starving, hook, paneVars>>

(* ... and one that is still there left to hook and watchdog.              *)
Fallback(j) ==
    /\ At(j, "fallback")
    /\ Write(j, "none", sender[j].mark)
    /\ Goes(j, "done")
    /\ UNCHANGED <<envVars, sendLock, watch, starving, hook, paneVars>>

-----------------------------------------------------------------------------
(* The watchdog: _scan_once and _wake                                      *)

\* Variant: a busy pane is never typed into.
WakeActionNeverStarved == IF screen = "empty" THEN "wake"
                          ELSE IF screen = "typing" THEN "skip-typing" ELSE "wait"

WakeAction == CASE screen = "empty"        -> "wake"
                [] screen = "typing"       -> "skip-typing"
                [] starving >= StarveLimit -> "wake-starved"
                [] OTHER                   -> "wait"

StillStarving == IF starving < StarveLimit THEN starving + 1 ELSE starving

(* ensure_watchdog_running, by an ask in any pane or outside of them.      *)
WatchStarts ==
    /\ watch.pc = "down"
    /\ \E self \in open \cup {NoPane} : watch' = Idle(self)
    /\ starving' = 0
    /\ UNCHANGED <<envVars, fileVars, sendLock, sender, hook, paneVars>>

(* The pane that launched the watchdog is left to its hook: its user types *)
(* there.                                                                  *)
Scan ==
    /\ watch.pc = "idle"
    /\ owner \in open \ {watch.self}
    /\ \E j \in Jobs : Available(j)
    /\ \/ WakeAction = "skip-typing" /\ starving' = 0 /\ UNCHANGED watch
       \/ WakeAction = "wait" /\ starving' = StillStarving /\ UNCHANGED watch
       \/ /\ WakeAction \in {"wake", "wake-starved"}
          /\ watch' = [watch EXCEPT !.pc = "wake", !.pane = owner]
          /\ UNCHANGED starving
    /\ UNCHANGED <<envVars, fileVars, sendLock, sender, hook, paneVars>>

WatchGoes(pc) == watch' = [watch EXCEPT !.pc = pc]
WatchEnds == watch' = Idle(watch.self) /\ sendLock' = "free"

(* The lock is not waited for; the registration must still be the same.    *)
Wake ==
    /\ watch.pc = "wake"
    /\ IF sendLock = "free" /\ owner = watch.pane
       THEN sendLock' = "watch" /\ WatchGoes("pick")
       ELSE watch' = Idle(watch.self) /\ UNCHANGED sendLock
    /\ UNCHANGED <<envVars, fileVars, sender, starving, hook, paneVars>>

Pick ==
    /\ watch.pc = "pick"
    /\ \/ \E j \in Jobs : /\ Available(j)
                          /\ watch' = [watch EXCEPT !.pc = "capture", !.job = {j}]
                          /\ UNCHANGED sendLock
       \/ (\A j \in Jobs : ~Available(j)) /\ WatchEnds
    /\ UNCHANGED <<envVars, fileVars, sender, starving, hook, paneVars>>

(* After the capture: nobody types, the envelope and the record are there. *)
Recheck ==
    /\ watch.pc = "capture"
    /\ IF screen # "typing" /\ owner = watch.pane /\ \A j \in watch.job : box[j]
       THEN WatchGoes("mark") /\ UNCHANGED sendLock
       ELSE WatchEnds
    /\ UNCHANGED <<envVars, fileVars, sender, starving, hook, paneVars>>

WatchMark ==
    /\ watch.pc = "mark"
    /\ \E j \in watch.job : Write(j, "watch", "dispatching")
    /\ WatchGoes("inject")
    /\ UNCHANGED <<envVars, sendLock, sender, starving, hook, paneVars>>

WatchInject ==
    /\ watch.pc = "inject"
    /\ \E j \in watch.job :
          \/ Injected(j, watch.pane) /\ WatchGoes("verify")
          \/ (Injected(j, watch.pane) \/ UNCHANGED paneVars) /\ WatchGoes("failed")
    /\ UNCHANGED <<envVars, fileVars, sendLock, sender, starving, hook>>

WatchVerify ==
    /\ watch.pc = "verify"
    /\ \E j \in watch.job : Enter(j)
    /\ \E pc \in {"receipt", "failed"} : WatchGoes(pc)
    /\ UNCHANGED <<envVars, fileVars, sendLock, sender, starving, hook>>

WatchReceipt ==
    /\ watch.pc = "receipt"
    /\ \E j \in watch.job : Process(j)
    /\ WatchEnds
    /\ starving' = 0
    /\ UNCHANGED <<envVars, sender, hook, paneVars>>

WatchFailed ==
    /\ watch.pc = "failed"
    /\ IF \A j \in watch.job : box[j] THEN WatchGoes("unmark") /\ UNCHANGED sendLock ELSE WatchEnds
    /\ UNCHANGED <<envVars, fileVars, sender, starving, hook, paneVars>>

\* Variant: a failed wake gives the message back.
UnmarkClears ==
    /\ watch.pc = "unmark"
    /\ \E j \in watch.job : Write(j, "none", "none")
    /\ WatchEnds
    /\ UNCHANGED <<envVars, sender, starving, hook, paneVars>>

WatchUnmark ==
    /\ watch.pc = "unmark"
    /\ \E j \in watch.job : Write(j, "none", "uncertain")
    /\ WatchEnds
    /\ UNCHANGED <<envVars, sender, starving, hook, paneVars>>

-----------------------------------------------------------------------------
(* The inbox hooks: UserPromptSubmit, and Stop unless it has just stopped. *)

HookStart(stop) ==
    /\ hook.pc = "idle"
    /\ sendLock = "free"
    /\ owner \in open
    /\ LET mine == {j \in Jobs : Available(j)}
       IN  \E batch \in SUBSET mine :
              /\ batch # {}
              /\ Cardinality(batch) = IF Cardinality(mine) < MaxAttach
                                      THEN Cardinality(mine) ELSE MaxAttach
              /\ hook' = [pc |-> "drain", todo |-> batch, pane |-> owner,
                          blocks |-> IF stop THEN batch ELSE {}]
    /\ sendLock' = "hook"
    /\ UNCHANGED <<envVars, fileVars, sender, watch, starving, paneVars>>

(* Copied to processed/ and unlinked; the prompt hook skips one that has   *)
(* been taken away.                                                        *)
HookMove(j) ==
    /\ hook.pc = "drain"
    /\ j \in hook.todo
    /\ Unlink(j)
    /\ hook' = [hook EXCEPT !.todo = @ \ {j}, !.blocks = IF box[j] THEN @ \cup {j} ELSE @]
    /\ UNCHANGED <<envVars, sendLock, sender, watch, starving, paneVars>>

(* The output is printed, last of all.                                     *)
HookPrint ==
    /\ hook.pc = "drain"
    /\ hook.todo = {}
    /\ handed' = [j \in Jobs |-> IF j \in hook.blocks
                                 THEN [handed[j] EXCEPT ![hook.pane] = @ + 1] ELSE handed[j]]
    /\ hook' = NoHook
    /\ sendLock' = "free"
    /\ UNCHANGED <<envVars, fileVars, sender, watch, starving, stuck>>

-----------------------------------------------------------------------------
(* The receiver and its user, registrations, deaths.                       *)

(* mark_processed, without the send lock, of a message that was handed     *)
(* over or found in the inbox.                                             *)
Acknowledge(j) ==
    /\ box[j] \/ \E p \in Panes : handed[j][p] > 0
    /\ Process(j)
    /\ UNCHANGED <<envVars, sendLock, sender, watch, starving, hook, paneVars>>

UserEnters(j) ==
    /\ stuck[j] \in open
    /\ Submitted(j, stuck[j])
    /\ UNCHANGED <<envVars, fileVars, sendLock, sender, watch, starving, hook>>

ScreenChanges ==
    /\ screen' \in {"empty", "typing", "busy"} \ {screen}
    /\ UNCHANGED <<owner, open, late, cut, deaths, moves, fileVars, sendLock, sender, watch, starving, hook, paneVars>>

(* The tool call is cancelled while it waits for its thread, which did not *)
(* start or runs to its end all the same: nobody unlinks the envelope or   *)
(* gives its lease back.                                                   *)
Cancelled(j) ==
    /\ sender[j].pc \in {"waiting", "after"}
    /\ Goes(j, "cancelled")
    /\ UNCHANGED <<envVars, fileVars, sendLock, watch, starving, hook, paneVars>>

Abandoned(j) == mail[j].lease = "sender" /\ sender[j].pc = "cancelled"

LeaseLapses(j) ==
    /\ Abandoned(j)
    /\ mail' = [mail EXCEPT ![j].lease = "none"]
    /\ UNCHANGED <<envVars, box, receipt, sendLock, sender, watch, starving, hook, paneVars>>

(* 120 s are over, and the process that took the lease is still at it.     *)
LeaseExpires(j) ==
    /\ LeaseActive(j) /\ ~Abandoned(j)
    /\ mail' = [mail EXCEPT ![j].lease = "none"]
    /\ late' = late \cup {j}
    /\ Cardinality(late') <= MaxLapses
    /\ UNCHANGED <<owner, open, screen, cut, deaths, moves, box, receipt, sendLock, sender, watch, starving, hook, paneVars>>

Register(p) ==
    /\ p \in open \ {owner}
    /\ moves < MaxMoves
    /\ owner' = p
    /\ moves' = moves + 1
    /\ UNCHANGED <<open, screen, late, cut, deaths, fileVars, sendLock, sender, watch, starving, hook, paneVars>>

Dies ==
    /\ deaths < MaxDeaths
    /\ deaths' = deaths + 1
    /\ UNCHANGED <<owner, screen, late, moves, box, receipt, starving, paneVars>>

(* The kernel frees the lock; a lease of a dead process is none.           *)
Unleased(holder) ==
    [j \in Jobs |-> IF mail[j].lease = holder THEN [mail[j] EXCEPT !.lease = "none"] ELSE mail[j]]

SenderDies(j) ==
    /\ sender[j].pc \notin {"new", "done", "failed", "dead"}
    /\ Dies
    /\ Goes(j, "dead")
    /\ mail' = [mail EXCEPT ![j].lease = IF @ = "sender" THEN "none" ELSE @]
    /\ sendLock' = IF sendLock = j THEN "free" ELSE sendLock
    /\ UNCHANGED <<open, cut, watch, hook>>

WatchDies ==
    /\ watch.pc # "down"
    /\ Dies
    /\ watch' = Down
    /\ mail' = Unleased("watch")
    /\ sendLock' = IF sendLock = "watch" THEN "free" ELSE sendLock
    /\ UNCHANGED <<open, cut, sender, hook>>

HookDies ==
    /\ hook.pc = "drain"
    /\ Dies
    /\ cut' = cut \cup (hook.blocks \ hook.todo)
    /\ hook' = NoHook
    /\ sendLock' = "free"
    /\ UNCHANGED <<open, mail, sender, watch>>

PaneCloses(p) ==
    /\ p \in open
    /\ Dies
    /\ open' = open \ {p}
    /\ UNCHANGED <<cut, mail, sendLock, sender, watch, hook>>

-----------------------------------------------------------------------------
SenderStep(j) ==
    \/ LockTake(j) \/ LockTimeout(j) \/ RenewLease(j) \/ Stabilise(j) \/ Dispatch(j) \/ Inject(j)
    \/ UnlinkEarly(j) \/ Verify(j) \/ Recreate(j) \/ LockRelease(j) \/ After(j) \/ Fallback(j)

WatchStep ==
    \/ Scan \/ Wake \/ Pick \/ Recheck \/ WatchMark \/ WatchInject \/ WatchVerify
    \/ WatchReceipt \/ WatchFailed \/ WatchUnmark

HookStep == HookPrint \/ \E j \in Jobs : HookMove(j)

Environment ==
    \/ ScreenChanges \/ WatchDies \/ HookDies \/ WatchStarts
    \/ \E p \in Panes : Register(p) \/ PaneCloses(p)
    \/ \E j \in Jobs : Acknowledge(j) \/ UserEnters(j) \/ SenderDies(j)
    \/ \E j \in Jobs : Cancelled(j) \/ LeaseLapses(j) \/ LeaseExpires(j)

Next ==
    \/ \E j \in Jobs : Ask(j) \/ SenderStep(j)
    \/ WatchStep
    \/ HookStep \/ \E stop \in BOOLEAN : HookStart(stop)
    \/ Environment

Spec == Init /\ [][Next]_vars

(* Processes keep running and the watchdog scans; nobody has to type, to   *)
(* submit a prompt, to acknowledge or to restart anything.                 *)
FairSpec ==
    /\ Spec
    /\ WF_vars(WatchStep) /\ WF_vars(HookStep)
    /\ \A j \in Jobs : WF_vars(SenderStep(j))

-----------------------------------------------------------------------------
LockedPCs == {"renew", "stabilise", "dispatch", "inject", "unlink", "verify", "recreate", "release"}

(* Every variable holds what the code can put there, and .send-lock is     *)
(* held by the one process that is at a step that needs it.                *)
TypeOK ==
    /\ owner \in Panes \cup {NoPane}
    /\ open \subseteq Panes
    /\ screen \in {"empty", "typing", "busy"}
    /\ box \in [Jobs -> BOOLEAN]
    /\ mail \in [Jobs -> [lease : Leases, mark : Marks]]
    /\ receipt \in [Jobs -> BOOLEAN]
    /\ sendLock \in Holders
    /\ sender \in [Jobs -> [pc : SenderPCs, pane : Panes \cup {NoPane}, mark : Marks, ok : BOOLEAN]]
    /\ watch \in [pc : WatchPCs, job : SUBSET Jobs, pane : Panes \cup {NoPane},
                  self : Panes \cup {NoPane}]
    /\ starving \in Nat
    /\ hook \in [pc : {"idle", "drain"}, todo : SUBSET Jobs, blocks : SUBSET Jobs,
                 pane : Panes \cup {NoPane}]
    /\ stuck \in [Jobs -> Panes \cup {NoPane}]
    /\ handed \in [Jobs -> [Panes -> Nat]]
    /\ late \subseteq Jobs
    /\ cut \subseteq Jobs
    /\ deaths \in Nat
    /\ moves \in Nat
    /\ \A j \in Jobs : sendLock = j <=> sender[j].pc \in LockedPCs
    /\ sendLock = "watch" <=> watch.pc \in WatchPCs \ {"down", "idle", "wake"}
    /\ sendLock = "hook" <=> hook.pc = "drain"

Handed(j) == \E p \in Panes : handed[j][p] > 0
Typed(j) == Handed(j) \/ stuck[j] # NoPane

(* "Direct senders, this watchdog, and inbox hooks share a per-pane        *)
(* delivery lock" (watcher.py): an agent is given a message once, by one   *)
(* of them, as long as its lease outlasts its holder.  (A sender that gets *)
(* the lock after 120 s writes over the mark of whoever typed the message  *)
(* meanwhile.)                                                             *)
HandedOverOnce ==
    \A j \in Jobs \ late, p, q \in Panes :
        handed[j][p] > 0 /\ handed[j][q] > 0 => p = q /\ handed[j][p] = 1

(* "Ambiguous submissions are skipped" (watcher.py): an envelope whose     *)
(* body may have reached a pane carries a mark, whoever wrote it last and  *)
(* whoever died, under the same condition.                                 *)
TypedIsMarked ==
    \A j \in Jobs \ late : box[j] /\ Typed(j) => mail[j].mark # "none"

(* "So the message is never lost" (server.py): what left the inbox was     *)
(* given to an agent, is in a compose box or in a running hook's hands,    *)
(* or was acknowledged.  (A hook unlinks all its messages before it prints *)
(* any; one that is killed in between takes them along.)                   *)
NeverLost ==
    \A j \in Jobs \ cut :
        ~box[j] /\ sender[j].pc \notin {"new", "failed"}
            => Typed(j) \/ receipt[j] \/ j \in hook.blocks

(* "Active leases ... are skipped" (watcher.py): a lease does not outlast  *)
(* the work it was taken for.  Whoever returns, gives up or dies, a leased *)
(* message in the inbox is in the hands of the sender or the watchdog that *)
(* took the lease and has steps to go with it.  The exception is a tool    *)
(* call that was cancelled in a server that lives on: its lease keeps      *)
(* everyone away until it lapses.                                          *)
LeaseHasHolder ==
    \A j \in Jobs : box[j] /\ LeaseActive(j) =>
        \/ Abandoned(j)
        \/ /\ mail[j].lease = "sender"
           /\ sender[j].pc \notin {"new", "done", "failed", "cancelled", "dead"}
        \/ mail[j].lease = "watch" /\ j \in watch.job
             /\ watch.pc \in {"inject", "verify", "receipt", "failed", "unmark"}

(* The watchdog runs in, and for, another pane than the owner's, which is  *)
(* open and where nobody types.                                            *)
Undisturbed ==
    /\ owner \in open \ {watch.self}
    /\ watch.pc # "down"
    /\ screen # "typing"

(* Mail that anyone may take is not left lying once the owner stays the    *)
(* owner undisturbed, however busy it is.  In the pane that launched the   *)
(* watchdog it waits for that pane's hook, that is, for its user.          *)
MailReachesPane ==
    <>[]Undisturbed /\ <>[][owner' = owner]_owner =>
        \A j \in Jobs : Available(j) ~> ~Available(j)
=============================================================================
