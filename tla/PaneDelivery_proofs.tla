------------------------- MODULE PaneDelivery_proofs -------------------------
(***************************************************************************)
(* TLAPS proofs about PaneDelivery, for any number of messages and panes   *)
(* and whatever the bounds.  DeliveryInv says, for a message whose lease   *)
(* was not outlived, in whose hands it is (its sender's, the watchdog's, a *)
(* hook's) and that its envelope is marked from when it may be typed.      *)
(***************************************************************************)
EXTENDS PaneDelivery, TLAPS

USE PaneAssumption

-----------------------------------------------------------------------------
SenderRecords == [pc : SenderPCs, pane : Panes \cup {NoPane}, mark : Marks, ok : BOOLEAN]
WatchRecords == [pc : WatchPCs, job : SUBSET Jobs, pane : Panes \cup {NoPane},
                 self : Panes \cup {NoPane}]

\* The record of j's sender after a step
SenderIs(j, pc, pane, mark, ok) ==
    /\ sender' \in [Jobs -> SenderRecords]
    /\ sender'[j].pc = pc /\ sender'[j].pane = pane /\ sender'[j].mark = mark /\ sender'[j].ok = ok
    /\ \A k \in Jobs \ {j} : sender'[k] = sender[k]

LEMMA SenderGoes ==
  ASSUME TypeOK, NEW j \in Jobs, NEW pc \in SenderPCs, Goes(j, pc)
  PROVE  SenderIs(j, pc, sender[j].pane, sender[j].mark, sender[j].ok)
<1> DEFINE r == [sender[j] EXCEPT !.pc = pc]
<1>1. sender \in [Jobs -> SenderRecords] /\ sender' = [sender EXCEPT ![j] = r]
  BY DEF TypeOK, Goes, SenderRecords
<1>2. r \in SenderRecords /\ r.pc = pc /\ r.pane = sender[j].pane /\ r.mark = sender[j].mark /\ r.ok = sender[j].ok
  BY <1>1 DEF SenderRecords
<1> HIDE DEF r
<1> QED  BY <1>1, <1>2 DEF SenderIs

LEMMA SenderAims ==
  ASSUME TypeOK, NEW j \in Jobs, NEW pc \in SenderPCs, NEW pane \in Panes,
         sender' = [sender EXCEPT ![j].pc = pc, ![j].pane = pane]
  PROVE  SenderIs(j, pc, pane, sender[j].mark, sender[j].ok)
<1> DEFINE r == [sender[j] EXCEPT !.pc = pc, !.pane = pane]
<1>1. sender \in [Jobs -> SenderRecords] /\ sender' = [sender EXCEPT ![j] = r]
  BY DEF TypeOK, SenderRecords
<1>2. r \in SenderRecords /\ r.pc = pc /\ r.pane = pane /\ r.mark = sender[j].mark /\ r.ok = sender[j].ok
  BY <1>1 DEF SenderRecords
<1> HIDE DEF r
<1> QED  BY <1>1, <1>2 DEF SenderIs

LEMMA SenderMarks ==
  ASSUME TypeOK, NEW j \in Jobs, NEW pc \in SenderPCs, NEW mark \in Marks,
         sender' = [sender EXCEPT ![j].pc = pc, ![j].mark = mark]
  PROVE  SenderIs(j, pc, sender[j].pane, mark, sender[j].ok)
<1> DEFINE r == [sender[j] EXCEPT !.pc = pc, !.mark = mark]
<1>1. sender \in [Jobs -> SenderRecords] /\ sender' = [sender EXCEPT ![j] = r]
  BY DEF TypeOK, SenderRecords
<1>2. r \in SenderRecords /\ r.pc = pc /\ r.pane = sender[j].pane /\ r.mark = mark /\ r.ok = sender[j].ok
  BY <1>1 DEF SenderRecords
<1> HIDE DEF r
<1> QED  BY <1>1, <1>2 DEF SenderIs

LEMMA SenderSucceeds ==
  ASSUME TypeOK, NEW j \in Jobs, NEW pc \in SenderPCs,
         sender' = [sender EXCEPT ![j].pc = pc, ![j].ok = TRUE]
  PROVE  SenderIs(j, pc, sender[j].pane, sender[j].mark, TRUE)
<1> DEFINE r == [sender[j] EXCEPT !.pc = pc, !.ok = TRUE]
<1>1. sender \in [Jobs -> SenderRecords] /\ sender' = [sender EXCEPT ![j] = r]
  BY DEF TypeOK, SenderRecords
<1>2. r \in SenderRecords /\ r.pc = pc /\ r.pane = sender[j].pane /\ r.mark = sender[j].mark /\ r.ok = TRUE
  BY <1>1 DEF SenderRecords
<1> HIDE DEF r
<1> QED  BY <1>1, <1>2 DEF SenderIs

(* The watchdog's record.                                                  *)
LEMMA WatchWent ==
  ASSUME TypeOK, NEW pc \in WatchPCs, WatchGoes(pc)
  PROVE  watch' \in WatchRecords /\ watch'.pc = pc /\ watch'.job = watch.job /\ watch'.pane = watch.pane
  BY DEF TypeOK, WatchGoes, WatchRecords

LEMMA WatchDown == Down \in WatchRecords /\ Down.pc = "down" /\ Down.job = {}
  BY DEF Down, Idle, WatchRecords, WatchPCs

LEMMA WatchIdle ==
  /\ \A self \in Panes \cup {NoPane} : Idle(self) \in WatchRecords
  /\ \A self : Idle(self).pc = "idle" /\ Idle(self).job = {}
  /\ TypeOK => Idle(watch.self) \in WatchRecords
  BY DEF Idle, WatchRecords, WatchPCs, TypeOK

(* What a step may do to a pane.                                           *)
PaneTypes ==
    /\ stuck \in [Jobs -> Panes \cup {NoPane}]
    /\ handed \in [Jobs -> [Panes -> Nat]]

LEMMA PaneTyped ==
  ASSUME TypeOK, NEW j \in Jobs
  PROVE  /\ \A p \in Panes : Submitted(j, p) => PaneTypes'
         /\ \A p : Injected(j, p) => PaneTypes' /\ p \in Panes
         /\ Enter(j) => PaneTypes'
         /\ UNCHANGED paneVars => PaneTypes'
<1>1. \A p \in Panes : Submitted(j, p) => PaneTypes'
  BY DEF TypeOK, Submitted, PaneTypes
<1>2. \A p : Injected(j, p) => PaneTypes' /\ p \in Panes
  <2> SUFFICES ASSUME NEW p, Injected(j, p) PROVE PaneTypes' /\ p \in Panes
    OBVIOUS
  <2>1. p \in Panes
    BY DEF Injected, TypeOK
  <2>2. CASE Submitted(j, p)
    BY <1>1, <2>1, <2>2
  <2>3. CASE stuck' = [stuck EXCEPT ![j] = p] /\ UNCHANGED handed
    BY <2>1, <2>3 DEF TypeOK, PaneTypes
  <2> QED  BY <2>1, <2>2, <2>3 DEF Injected
<1>3. UNCHANGED paneVars => PaneTypes'
  BY DEF paneVars, PaneTypes, TypeOK
<1>4. Enter(j) => PaneTypes'
  BY <1>1, <1>3 DEF Enter, TypeOK
<1> QED  BY <1>1, <1>2, <1>3, <1>4

-----------------------------------------------------------------------------
(* Type correctness.                                                       *)
LEMMA TypeInit == Init => TypeOK
<1> SUFFICES ASSUME Init PROVE TypeOK
  OBVIOUS
<1>1. watch = Down
  BY DEF Init
<1>2. /\ watch \in WatchRecords /\ watch.pc = "down"
      /\ mail \in [Jobs -> [lease : Leases, mark : Marks]]
      /\ hook \in [pc : {"idle", "drain"}, todo : SUBSET Jobs, blocks : SUBSET Jobs,
                   pane : Panes \cup {NoPane}]
      /\ hook.pc = "idle"
  <2>1. watch \in WatchRecords /\ watch.pc = "down"
    BY <1>1, WatchDown
  <2>2. mail \in [Jobs -> [lease : Leases, mark : Marks]]
    BY DEF Init, Leases, Marks
  <2>3. /\ hook = [pc |-> "idle", todo |-> {}, blocks |-> {}, pane |-> NoPane]
    BY DEF Init, NoHook
  <2> QED  BY <2>1, <2>2, <2>3
<1>3. /\ sender \in [Jobs -> SenderRecords]
      /\ \A j \in Jobs : sender[j].pc = "new"
  BY DEF Init, SenderRecords, Marks, SenderPCs
<1>4. sendLock \in Holders /\ sendLock = "free" /\ sendLock \notin Jobs
  BY DEF Init, Holders
<1> QED  BY <1>2, <1>3, <1>4
         DEF Init, TypeOK, SenderRecords, WatchRecords, WatchPCs, LockedPCs

LEMMA SenderTypes == \A j \in Jobs : TypeOK /\ (Ask(j) \/ SenderStep(j)) => TypeOK'
<1> SUFFICES ASSUME NEW j \in Jobs, TypeOK, Ask(j) \/ SenderStep(j) PROVE TypeOK'
  OBVIOUS
<1> USE DEF At, fileVars, envVars, Marks, Leases
<1>0. sender[j].mark \in Marks /\ sender[j].pane \in Panes \cup {NoPane}
  BY DEF TypeOK
<1>a. ASSUME UNCHANGED <<open, screen, late, cut, deaths, moves, watch, starving, hook>>,
             owner' \in Panes \cup {NoPane}, sender' \in [Jobs -> SenderRecords],
             box' \in [Jobs -> BOOLEAN], mail' \in [Jobs -> [lease : Leases, mark : Marks]],
             receipt' \in [Jobs -> BOOLEAN], PaneTypes',
             sendLock' \in {sendLock, "free", j}, sendLock' # sendLock => sendLock \in {"free", j},
             \A k \in Jobs \ {j} : sender'[k] = sender[k],
             sendLock' = j <=> sender'[j].pc \in LockedPCs
      PROVE  TypeOK'
  BY <1>a DEF TypeOK, SenderRecords, PaneTypes, Holders
<1>1. ASSUME Ask(j) PROVE TypeOK'
  <2>1. sender[j].pc = "new" /\ sendLock # j
    BY <1>1 DEF Ask, TypeOK, LockedPCs
  <2>2. /\ UNCHANGED <<open, screen, late, cut, deaths, moves, sendLock, watch, starving, hook, paneVars>>
        /\ owner' \in Panes \cup {NoPane}
        /\ Write(j, "none", "none") \/ Write(j, "sender", "none") \/ UNCHANGED fileVars
    BY <1>1 DEF Ask, TypeOK
  <2>5. /\ box' \in [Jobs -> BOOLEAN] /\ mail' \in [Jobs -> [lease : Leases, mark : Marks]]
        /\ receipt' \in [Jobs -> BOOLEAN]
    <3>1. CASE \E lease \in {"none", "sender"} : Write(j, lease, "none")
      BY <3>1 DEF Write, TypeOK
    <3>2. CASE UNCHANGED fileVars
      BY <3>2 DEF TypeOK
    <3> QED  BY <2>2, <3>1, <3>2
  <2>3. \E pc \in {"done", "waiting", "failed"} : Goes(j, pc) \/ \E p \in Panes : sender' = [sender EXCEPT ![j].pc = pc, ![j].pane = p]
    BY <1>1 DEF Ask, Goes, TypeOK
  <2>4. \E pc \in {"done", "waiting", "failed"} : \E pane : SenderIs(j, pc, pane, sender[j].mark, sender[j].ok)
    BY <2>3, SenderGoes, SenderAims DEF SenderPCs
  <2> QED  BY <1>a, <2>1, <2>2, <2>4, <2>5, PaneTyped DEF SenderIs, LockedPCs
<1>2. ASSUME LockTake(j) PROVE TypeOK'
  <2>1. SenderIs(j, "renew", sender[j].pane, sender[j].mark, sender[j].ok)
        \/ SenderIs(j, "release", sender[j].pane, sender[j].mark, TRUE)
    BY <1>2, SenderGoes, SenderSucceeds DEF LockTake, Goes, SenderPCs
  <2> QED  BY <1>a, <1>2, <2>1, PaneTyped DEF LockTake, SenderIs, LockedPCs, TypeOK
<1>3. ASSUME LockTimeout(j) PROVE TypeOK'
  <2>1. SenderIs(j, "after", sender[j].pane, sender[j].mark, sender[j].ok)
    BY <1>3, SenderGoes DEF LockTimeout, SenderPCs
  <2> QED  BY <1>a, <1>3, <2>1, PaneTyped DEF LockTimeout, SenderIs, LockedPCs, TypeOK
<1>4. ASSUME RenewLease(j) PROVE TypeOK'
  <2>1. SenderIs(j, "stabilise", sender[j].pane, sender[j].mark, sender[j].ok)
    BY <1>4, SenderGoes DEF RenewLease, SenderPCs
  <2> QED  BY <1>a, <1>4, <2>1, PaneTyped DEF RenewLease, Write, SenderIs, LockedPCs, TypeOK
<1>5. ASSUME Stabilise(j) PROVE TypeOK'
  <2>1. \E pc \in {"dispatch", "release"} : SenderIs(j, pc, sender[j].pane, sender[j].mark, sender[j].ok)
    BY <1>5, SenderGoes DEF Stabilise, SenderPCs
  <2> QED  BY <1>a, <1>5, <2>1, PaneTyped DEF Stabilise, SenderIs, LockedPCs, TypeOK
<1>6. ASSUME Dispatch(j) PROVE TypeOK'
  <2>1. SenderIs(j, "inject", sender[j].pane, "dispatching", sender[j].ok)
    BY <1>6, SenderMarks DEF Dispatch, SenderPCs
  <2> QED  BY <1>a, <1>6, <2>1, PaneTyped DEF Dispatch, Write, SenderIs, LockedPCs, TypeOK
<1>7. ASSUME Inject(j) PROVE TypeOK'
  <2>1. SenderIs(j, "unlink", sender[j].pane, sender[j].mark, sender[j].ok)
        \/ SenderIs(j, "release", sender[j].pane, "uncertain", sender[j].ok)
    BY <1>7, SenderGoes, SenderMarks DEF Inject, SenderPCs
  <2>2. PaneTypes'
    BY <1>7, PaneTyped DEF Inject
  <2> QED  BY <1>a, <1>7, <2>1, <2>2 DEF Inject, SenderIs, LockedPCs, TypeOK
<1>8. ASSUME UnlinkEarly(j) PROVE TypeOK'
  <2>1. SenderIs(j, "verify", sender[j].pane, sender[j].mark, sender[j].ok)
    BY <1>8, SenderGoes DEF UnlinkEarly, SenderPCs
  <2> QED  BY <1>a, <1>8, <2>1, PaneTyped DEF UnlinkEarly, Unlink, SenderIs, LockedPCs, TypeOK
<1>9. ASSUME Verify(j) PROVE TypeOK'
  <2>1. SenderIs(j, "recreate", sender[j].pane, sender[j].mark, sender[j].ok)
        \/ SenderIs(j, "release", sender[j].pane, sender[j].mark, TRUE)
    BY <1>9, SenderGoes, SenderSucceeds DEF Verify, Goes, SenderPCs
  <2>2. PaneTypes'
    BY <1>9, PaneTyped DEF Verify
  <2> QED  BY <1>a, <1>9, <2>1, <2>2 DEF Verify, SenderIs, LockedPCs, TypeOK
<1>10. ASSUME Recreate(j) PROVE TypeOK'
  <2>1. SenderIs(j, "release", sender[j].pane, sender[j].mark, sender[j].ok)
    BY <1>10, SenderGoes DEF Recreate, SenderPCs
  <2> QED  BY <1>a, <1>0, <1>10, <2>1, PaneTyped DEF Recreate, Write, SenderIs, LockedPCs, TypeOK
<1>11. ASSUME LockRelease(j) PROVE TypeOK'
  <2>1. SenderIs(j, "after", sender[j].pane, sender[j].mark, sender[j].ok)
    BY <1>11, SenderGoes DEF LockRelease, SenderPCs
  <2> QED  BY <1>a, <1>11, <2>1, PaneTyped DEF LockRelease, SenderIs, LockedPCs, TypeOK
<1>12. ASSUME After(j) PROVE TypeOK'
  <2>1. \E pc \in {"done", "fallback"} : SenderIs(j, pc, sender[j].pane, sender[j].mark, sender[j].ok)
    BY <1>12, SenderGoes DEF After, SenderPCs
  <2> QED  BY <1>a, <1>12, <2>1, PaneTyped DEF After, Unlink, SenderIs, LockedPCs, TypeOK
<1>13. ASSUME Fallback(j) PROVE TypeOK'
  <2>1. SenderIs(j, "done", sender[j].pane, sender[j].mark, sender[j].ok)
    BY <1>13, SenderGoes DEF Fallback, SenderPCs
  <2> QED  BY <1>a, <1>0, <1>13, <2>1, PaneTyped DEF Fallback, Write, SenderIs, LockedPCs, TypeOK
<1> QED  BY <1>1, <1>2, <1>3, <1>4, <1>5, <1>6, <1>7, <1>8, <1>9, <1>10, <1>11, <1>12, <1>13
         DEF SenderStep

LEMMA WatchTypes == TypeOK /\ (WatchStep \/ WatchStarts \/ WatchDies) => TypeOK'
<1> SUFFICES ASSUME TypeOK, WatchStep \/ WatchStarts \/ WatchDies PROVE TypeOK'
  OBVIOUS
<1> USE DEF fileVars, envVars, Marks, Leases
<1>0. watch \in WatchRecords
  BY DEF TypeOK, WatchRecords
<1>a. ASSUME UNCHANGED <<owner, open, screen, late, cut, moves, sender, hook>>, deaths' \in Nat, starving' \in Nat,
             watch' \in WatchRecords,
             box' \in [Jobs -> BOOLEAN], mail' \in [Jobs -> [lease : Leases, mark : Marks]],
             receipt' \in [Jobs -> BOOLEAN], PaneTypes',
             sendLock' \in {sendLock, "free", "watch"}, sendLock' # sendLock => sendLock \in {"free", "watch"},
             sendLock' = "watch" <=> watch'.pc \in WatchPCs \ {"down", "idle", "wake"}
      PROVE  TypeOK'
  BY <1>a DEF TypeOK, WatchRecords, PaneTypes, Holders
<1>b. UNCHANGED paneVars => PaneTypes'
  BY DEF paneVars, PaneTypes, TypeOK
<1>1. ASSUME WatchStarts PROVE TypeOK'
  <2>1. PICK self \in Panes \cup {NoPane} : watch' = Idle(self)
    BY <1>1 DEF WatchStarts, TypeOK
  <2> QED  BY <1>a, <1>b, <1>1, <2>1, WatchIdle DEF WatchStarts, TypeOK
<1>2. ASSUME Scan PROVE TypeOK'
  <2>1. watch' = watch \/ watch' = [watch EXCEPT !.pc = "wake", !.pane = owner]
    BY <1>2 DEF Scan
  <2>2. watch' \in WatchRecords /\ watch'.pc \in {"idle", "wake"}
    BY <1>0, <1>2, <2>1 DEF Scan, WatchRecords, WatchPCs, TypeOK
  <2>3. starving' \in Nat
    BY <1>2 DEF Scan, StillStarving, TypeOK
  <2> QED  BY <1>a, <1>b, <1>2, <2>2, <2>3 DEF Scan, TypeOK
<1>3. ASSUME Wake PROVE TypeOK'
  <2>1. \/ WatchGoes("pick") /\ sendLock = "free" /\ sendLock' = "watch"
        \/ watch' = Idle(watch.self) /\ UNCHANGED sendLock
    BY <1>3 DEF Wake
  <2>2. watch' \in WatchRecords /\ (WatchGoes("pick") => watch'.pc = "pick")
    BY <2>1, WatchIdle, WatchWent DEF WatchPCs
  <2> QED  BY <1>a, <1>b, <1>3, <2>1, <2>2, WatchIdle DEF Wake, TypeOK, WatchPCs
<1>4. ASSUME Pick PROVE TypeOK'
  <2>1. \/ UNCHANGED sendLock /\ \E j \in Jobs : watch' = [watch EXCEPT !.pc = "capture", !.job = {j}]
        \/ WatchEnds
    BY <1>4 DEF Pick
  <2>2. ASSUME NEW j \in Jobs, watch' = [watch EXCEPT !.pc = "capture", !.job = {j}]
        PROVE  watch' \in WatchRecords /\ watch'.pc = "capture"
    BY <1>0, <2>2 DEF WatchRecords, WatchPCs
  <2> QED  BY <1>a, <1>b, <1>4, <2>1, <2>2, WatchIdle DEF Pick, WatchEnds, TypeOK, WatchPCs
<1>5. ASSUME Recheck PROVE TypeOK'
  <2>1. WatchGoes("mark") => watch' \in WatchRecords /\ watch'.pc = "mark"
    BY WatchWent DEF WatchPCs
  <2> QED  BY <1>a, <1>b, <1>5, <2>1, WatchIdle DEF Recheck, WatchEnds, TypeOK, WatchPCs
<1>6. ASSUME WatchMark PROVE TypeOK'
  <2>1. watch' \in WatchRecords /\ watch'.pc = "inject"
    BY <1>6, WatchWent DEF WatchMark, WatchPCs
  <2> QED  BY <1>a, <1>b, <1>6, <2>1 DEF WatchMark, Write, TypeOK, WatchPCs
<1>7. ASSUME WatchInject PROVE TypeOK'
  <2>1. watch' \in WatchRecords /\ watch'.pc \in {"verify", "failed"}
    BY <1>7, WatchWent DEF WatchInject, WatchPCs
  <2>2. PaneTypes'
    BY <1>0, <1>7, PaneTyped DEF WatchInject, WatchRecords
  <2> QED  BY <1>a, <1>7, <2>1, <2>2 DEF WatchInject, TypeOK, WatchPCs
<1>8. ASSUME WatchVerify PROVE TypeOK'
  <2>1. watch' \in WatchRecords /\ watch'.pc \in {"receipt", "failed"}
    BY <1>8, WatchWent DEF WatchVerify, WatchPCs
  <2>2. PaneTypes'
    BY <1>0, <1>8, PaneTyped DEF WatchVerify, WatchRecords
  <2> QED  BY <1>a, <1>8, <2>1, <2>2 DEF WatchVerify, TypeOK, WatchPCs
<1>9. ASSUME WatchReceipt PROVE TypeOK'
  <2>1. box' \in [Jobs -> BOOLEAN] /\ receipt' \in [Jobs -> BOOLEAN] /\ UNCHANGED mail
    BY <1>9 DEF WatchReceipt, Process, TypeOK
  <2> QED  BY <1>a, <1>b, <1>9, <2>1, WatchIdle DEF WatchReceipt, WatchEnds, TypeOK, WatchPCs
<1>10. ASSUME WatchFailed PROVE TypeOK'
  <2>1. WatchGoes("unmark") => watch' \in WatchRecords /\ watch'.pc = "unmark"
    BY WatchWent DEF WatchPCs
  <2> QED  BY <1>a, <1>b, <1>10, <2>1, WatchIdle DEF WatchFailed, WatchEnds, TypeOK, WatchPCs
<1>11. ASSUME WatchUnmark PROVE TypeOK'
  BY <1>a, <1>b, <1>11, WatchIdle DEF WatchUnmark, WatchEnds, Write, TypeOK, WatchPCs
<1>12. ASSUME WatchDies PROVE TypeOK'
  <2>1. watch' \in WatchRecords /\ watch'.pc = "down"
    BY <1>12, WatchDown DEF WatchDies
  <2>2. mail' \in [Jobs -> [lease : Leases, mark : Marks]]
    <3>1. mail' = Unleased("watch")
      BY <1>12 DEF WatchDies
    <3>2. \A m \in [lease : Leases, mark : Marks] :
             [m EXCEPT !.lease = "none"] \in [lease : Leases, mark : Marks]
      OBVIOUS
    <3> QED  BY <3>1, <3>2 DEF Unleased, TypeOK
  <2>3. UNCHANGED <<owner, open, screen, late, cut, moves, sender, hook, box, receipt, starving, paneVars>>
        /\ deaths' \in Nat
    BY <1>12 DEF WatchDies, Dies, TypeOK
  <2> QED  BY <1>a, <1>b, <1>12, <2>1, <2>2, <2>3 DEF WatchDies, TypeOK, WatchPCs
<1> QED  BY <1>1, <1>2, <1>3, <1>4, <1>5, <1>6, <1>7, <1>8, <1>9, <1>10, <1>11, <1>12 DEF WatchStep

LEMMA OthersType ==
  TypeOK /\ (HookStep \/ (\E stop \in BOOLEAN : HookStart(stop)) \/ Environment) => TypeOK'
<1> SUFFICES ASSUME TypeOK, HookStep \/ (\E stop \in BOOLEAN : HookStart(stop)) \/ Environment
             PROVE  TypeOK'
  OBVIOUS
<1> USE DEF fileVars, envVars, Marks, Leases
<1> DEFINE HookRecords == [pc : {"idle", "drain"}, todo : SUBSET Jobs, blocks : SUBSET Jobs,
                           pane : Panes \cup {NoPane}]
<1>0. hook \in HookRecords /\ NoHook \in HookRecords /\ NoHook.pc = "idle"
  BY DEF TypeOK, NoHook
<1>a. ASSUME UNCHANGED <<owner, open, screen, late, moves, sender, watch, starving, mail, receipt>>,
             deaths' \in Nat, cut' \subseteq Jobs,
             box' \in [Jobs -> BOOLEAN], PaneTypes', hook' \in HookRecords,
             sendLock' \in {sendLock, "free", "hook"}, sendLock' # sendLock => sendLock \in {"free", "hook"},
             sendLock' = "hook" <=> hook'.pc = "drain"
      PROVE  TypeOK'
  BY <1>a DEF TypeOK, PaneTypes, Holders
<1>b. UNCHANGED paneVars => PaneTypes'
  BY DEF paneVars, PaneTypes, TypeOK
<1>1. ASSUME NEW stop \in BOOLEAN, HookStart(stop) PROVE TypeOK'
  <2>1. PICK batch \in SUBSET Jobs :
           hook' = [pc |-> "drain", todo |-> batch, pane |-> owner,
                    blocks |-> IF stop THEN batch ELSE {}]
    BY <1>1 DEF HookStart
  <2>2. hook' \in HookRecords /\ hook'.pc = "drain"
    BY <2>1 DEF TypeOK
  <2> QED  BY <1>a, <1>b, <1>1, <2>2 DEF HookStart, TypeOK
<1>2. ASSUME NEW j \in Jobs, HookMove(j) PROVE TypeOK'
  <2>1. hook' \in HookRecords /\ hook'.pc = "drain"
    BY <1>0, <1>2 DEF HookMove
  <2> QED  BY <1>a, <1>b, <1>2, <2>1 DEF HookMove, Unlink, TypeOK
<1>3. ASSUME HookPrint PROVE TypeOK'
  <2>1. PaneTypes'
    <3>1. \A h \in [Panes -> Nat] : [h EXCEPT ![hook.pane] = @ + 1] \in [Panes -> Nat]
      <4> SUFFICES ASSUME NEW h \in [Panes -> Nat]
                   PROVE  [h EXCEPT ![hook.pane] = @ + 1] \in [Panes -> Nat]
        OBVIOUS
      <4>1. [h EXCEPT ![hook.pane] = @ + 1] =
               [p \in Panes |-> IF p = hook.pane THEN h[p] + 1 ELSE h[p]]
        OBVIOUS
      <4>2. \A p \in Panes : h[p] + 1 \in Nat /\ h[p] \in Nat
        OBVIOUS
      <4> QED  BY <4>1, <4>2
    <3>2. UNCHANGED stuck /\ handed' = [j \in Jobs |-> IF j \in hook.blocks
                                          THEN [handed[j] EXCEPT ![hook.pane] = @ + 1] ELSE handed[j]]
      BY <1>3 DEF HookPrint
    <3> QED  BY <3>1, <3>2 DEF PaneTypes, TypeOK
  <2> QED  BY <1>0, <1>a, <1>3, <2>1 DEF HookPrint, TypeOK
<1>4. ASSUME HookDies PROVE TypeOK'
  BY <1>0, <1>a, <1>b, <1>4 DEF HookDies, Dies, TypeOK
<1>5. ASSUME NEW j \in Jobs, SenderDies(j) PROVE TypeOK'
  <2>1. SenderIs(j, "dead", sender[j].pane, sender[j].mark, sender[j].ok)
    BY <1>5, SenderGoes DEF SenderDies, SenderPCs
  <2>2. mail' \in [Jobs -> [lease : Leases, mark : Marks]]
    <3>1. mail' = [mail EXCEPT ![j].lease = IF @ = "sender" THEN "none" ELSE @]
      BY <1>5 DEF SenderDies
    <3> QED  BY <3>1 DEF TypeOK
  <2>3. /\ UNCHANGED <<owner, open, screen, late, cut, moves, box, receipt, watch, starving, hook, paneVars>>
        /\ deaths' \in Nat /\ sendLock' = IF sendLock = j THEN "free" ELSE sendLock
    BY <1>5 DEF SenderDies, Dies, TypeOK
  <2>4. /\ sendLock' \in Holders /\ sendLock' # j
        /\ \A k \in Jobs : sendLock' = k <=> sender'[k].pc \in LockedPCs
    BY <2>1, <2>3 DEF SenderIs, LockedPCs, TypeOK, Holders
  <2>5. /\ sendLock' = "watch" <=> sendLock = "watch"
        /\ sendLock' = "hook" <=> sendLock = "hook"
    BY <2>3
  <2> QED  BY <1>b, <2>1, <2>2, <2>3, <2>4, <2>5 DEF SenderIs, SenderRecords, TypeOK, PaneTypes
<1>6. ASSUME NEW j \in Jobs, Acknowledge(j) PROVE TypeOK'
  BY <1>6, <1>b DEF Acknowledge, Process, TypeOK, PaneTypes
<1>7. ASSUME NEW j \in Jobs, UserEnters(j) PROVE TypeOK'
  <2>1. PaneTypes'
    BY <1>7, PaneTyped DEF UserEnters, TypeOK
  <2> QED  BY <1>7, <2>1 DEF UserEnters, TypeOK, PaneTypes
<1>8. ASSUME NEW j \in Jobs, LeaseExpires(j) PROVE TypeOK'
  <2>1. mail' \in [Jobs -> [lease : Leases, mark : Marks]]
    BY <1>8 DEF LeaseExpires, TypeOK
  <2> QED  BY <1>8, <1>b, <2>1 DEF LeaseExpires, TypeOK, PaneTypes
<1>11. ASSUME NEW j \in Jobs, Cancelled(j) PROVE TypeOK'
  <2>1. SenderIs(j, "cancelled", sender[j].pane, sender[j].mark, sender[j].ok)
    BY <1>11, SenderGoes DEF Cancelled, SenderPCs
  <2>2. UNCHANGED <<envVars, fileVars, sendLock, watch, starving, hook, paneVars>>
        /\ sender[j].pc \notin LockedPCs
    BY <1>11 DEF Cancelled, LockedPCs
  <2>3. \A k \in Jobs : sendLock' = k <=> sender'[k].pc \in LockedPCs
    BY <2>1, <2>2 DEF SenderIs, LockedPCs, TypeOK
  <2> QED  BY <1>b, <2>1, <2>2, <2>3 DEF SenderIs, SenderRecords, TypeOK, PaneTypes, envVars, fileVars
<1>12. ASSUME NEW j \in Jobs, LeaseLapses(j) PROVE TypeOK'
  <2>1. mail' \in [Jobs -> [lease : Leases, mark : Marks]]
    BY <1>12 DEF LeaseLapses, TypeOK
  <2> QED  BY <1>12, <1>b, <2>1 DEF LeaseLapses, TypeOK, PaneTypes, envVars
<1>9. ASSUME NEW p \in Panes, Register(p) \/ PaneCloses(p) PROVE TypeOK'
  BY <1>9, <1>b DEF Register, PaneCloses, Dies, TypeOK, PaneTypes
<1>10. ASSUME ScreenChanges PROVE TypeOK'
  BY <1>10, <1>b DEF ScreenChanges, TypeOK, PaneTypes
<1> QED  BY <1>1, <1>2, <1>3, <1>4, <1>5, <1>6, <1>7, <1>8, <1>9, <1>10, <1>11, <1>12, WatchTypes
         DEF HookStep, Environment

-----------------------------------------------------------------------------
(* Who has a message, and what is known of it.                             *)
Active == SenderPCs \ {"new", "done", "failed", "cancelled", "dead"}

InWatch(j) == j \in watch.job
InHook(j) == j \in hook.todo \cup hook.blocks

\* It was given to one agent once, or lies in one compose box, or neither.
Single(j) ==
    /\ \A p, q \in Panes : handed[j][p] > 0 /\ handed[j][q] > 0 => p = q /\ handed[j][p] = 1
    /\ stuck[j] # NoPane => ~Handed(j)

New(j) == sender[j].pc \in {"new", "failed"} =>
    ~box[j] /\ ~Typed(j) /\ ~InWatch(j) /\ ~InHook(j) /\ sender[j].mark = "none"

\* While its sender is at work nobody else has it.
Sending(j) == sender[j].pc \in Active =>
    /\ ~InWatch(j) /\ ~InHook(j)
    /\ mail[j].lease = "sender"
    /\ sender[j].pc \in {"waiting", "renew", "stabilise", "dispatch"} => sender[j].mark = "none"
    /\ sender[j].pc \in {"inject", "unlink", "verify", "recreate"} => sender[j].mark # "none"
    /\ sender[j].pc = "inject" \/ sender[j].mark = "none" => ~Typed(j)
    /\ sender[j].mark # "none" => mail[j].mark # "none"

Hooked(j) == InHook(j) => ~Typed(j) /\ (j \in hook.todo \/ ~box[j])

Watched(j) == InWatch(j) =>
    /\ watch.pc \in {"capture", "mark", "inject"} => ~Typed(j)
    /\ watch.pc \notin {"capture", "mark"} => mail[j].mark # "none"

Marked(j) == box[j] /\ Typed(j) => mail[j].mark # "none"

Once(j) ==
    j \notin late => Single(j) /\ New(j) /\ Sending(j) /\ Hooked(j) /\ Watched(j) /\ Marked(j)

\* A message that is gone from the inbox is accounted for.
Accounted(j) == Typed(j) \/ receipt[j] \/ j \in cut \/ j \in hook.blocks \ hook.todo

Kept(j) ==
    /\ ~box[j] /\ sender[j].pc \notin {"new", "failed"} => Accounted(j)
    /\ sender[j].ok => Accounted(j)
    /\ sender[j].pc \in {"unlink", "verify"} => Typed(j)
    /\ sender[j].pc \in {"new", "failed"} => ~sender[j].ok

Shape ==
    /\ watch.pc \in {"down", "idle", "wake", "pick"} => watch.job = {}
    /\ \A i, j \in watch.job : i = j
    /\ hook.pc = "idle" => hook.todo = {} /\ hook.blocks = {}
    /\ hook.pc = "drain" => hook.pane \in Panes

DeliveryInv ==
    /\ TypeOK
    /\ Shape
    /\ \A j \in Jobs : Once(j) /\ Kept(j)

-----------------------------------------------------------------------------
(* Panes: what was typed stays typed.                                      *)
PaneKept(j) == (Typed(j)' <=> Typed(j)) /\ (Single(j) => Single(j)')

LEMMA PaneStill == UNCHANGED paneVars => \A k \in Jobs : PaneKept(k)
  BY DEF paneVars, PaneKept, Typed, Handed, Single

LEMMA PaneSubmitted ==
  ASSUME TypeOK, NEW j \in Jobs, NEW p \in Panes, Submitted(j, p)
  PROVE  /\ Typed(j)'
         /\ stuck[j] # NoPane \/ ~Typed(j) => (Single(j) => Single(j)')
         /\ \A k \in Jobs \ {j} : PaneKept(k)
<1>1. /\ handed'[j][p] = handed[j][p] + 1 /\ stuck'[j] = NoPane
      /\ \A q \in Panes \ {p} : handed'[j][q] = handed[j][q]
      /\ \A k \in Jobs \ {j} : handed'[k] = handed[k] /\ stuck'[k] = stuck[k]
      /\ \A q \in Panes : handed[j][q] \in Nat
  BY DEF TypeOK, Submitted
<1>2. Typed(j)'
  BY <1>1 DEF Typed, Handed
<1>3. stuck[j] # NoPane \/ ~Typed(j) => (Single(j) => Single(j)')
  <2> SUFFICES ASSUME Single(j), \A q \in Panes : ~(handed[j][q] > 0) PROVE Single(j)'
    BY DEF Single, Typed, Handed
  <2>1. \A q \in Panes : handed[j][q] = 0
    BY <1>1
  <2> QED  BY <1>1, <2>1 DEF Single, Handed
<1>4. \A k \in Jobs \ {j} : PaneKept(k)
  BY <1>1 DEF PaneKept, Typed, Handed, Single
<1> QED  BY <1>2, <1>3, <1>4

LEMMA PaneInjected ==
  ASSUME TypeOK, NEW j \in Jobs, NEW p, Injected(j, p)
  PROVE  /\ Typed(j)'
         /\ ~Typed(j) => (Single(j) => Single(j)')
         /\ \A k \in Jobs \ {j} : PaneKept(k)
<1>1. p \in Panes
  BY DEF Injected, TypeOK
<1>2. CASE Submitted(j, p)
  BY <1>1, <1>2, PaneSubmitted
<1>3. CASE stuck' = [stuck EXCEPT ![j] = p] /\ UNCHANGED handed
  BY <1>1, <1>3 DEF TypeOK, Typed, Handed, Single, PaneKept
<1> QED  BY <1>2, <1>3 DEF Injected

LEMMA PaneEntered ==
  ASSUME TypeOK, NEW j \in Jobs, Enter(j)
  PROVE  \A k \in Jobs : PaneKept(k)
<1>1. CASE stuck[j] # NoPane /\ Submitted(j, stuck[j])
  <2>1. stuck[j] \in Panes /\ Typed(j)
    BY <1>1 DEF TypeOK, Typed
  <2> QED  BY <1>1, <2>1, PaneSubmitted DEF PaneKept
<1>2. CASE UNCHANGED paneVars
  BY <1>2, PaneStill
<1> QED  BY <1>1, <1>2 DEF Enter

(* A message that a step does not touch.                                   *)
Untouched(i) ==
    /\ box'[i] = box[i] /\ mail'[i] = mail[i] /\ receipt'[i] = receipt[i] /\ sender'[i] = sender[i]
    /\ PaneKept(i)
    /\ i \in watch'.job <=> i \in watch.job
    /\ i \in watch.job => watch'.pc = watch.pc
    /\ i \in hook'.todo <=> i \in hook.todo
    /\ i \in hook'.blocks <=> i \in hook.blocks

LEMMA UntouchedKeeps ==
  ASSUME NEW i \in Jobs, Untouched(i), late \subseteq late', cut \subseteq cut', Once(i), Kept(i)
  PROVE  Once(i)' /\ Kept(i)'
  BY DEF Untouched, Once, Kept, PaneKept, New, Sending, Hooked, Watched, Marked, Accounted,
         InWatch, InHook

-----------------------------------------------------------------------------
(* The sender.                                                             *)
LEMMA SenderKeeps ==
  \A j \in Jobs : DeliveryInv /\ (Ask(j) \/ SenderStep(j)) => DeliveryInv'
<1> SUFFICES ASSUME NEW j \in Jobs, DeliveryInv, Ask(j) \/ SenderStep(j) PROVE DeliveryInv'
  OBVIOUS
<1>t. TypeOK /\ TypeOK' /\ Once(j) /\ Kept(j)
  BY SenderTypes DEF DeliveryInv
<1>0. /\ UNCHANGED <<open, screen, late, cut, deaths, moves, watch, hook>>
  BY DEF Ask, SenderStep, LockTake, LockTimeout, RenewLease, Stabilise, Dispatch, Inject, UnlinkEarly,
         Verify, Recreate, LockRelease, After, Fallback, envVars
<1>a. ASSUME \A i \in Jobs \ {j} : /\ box'[i] = box[i] /\ mail'[i] = mail[i]
                                   /\ receipt'[i] = receipt[i] /\ sender'[i] = sender[i]
                                   /\ PaneKept(i),
             Once(j)', Kept(j)'
      PROVE  DeliveryInv'
  <2>1. \A i \in Jobs \ {j} : Once(i)' /\ Kept(i)'
    <3> SUFFICES ASSUME NEW i \in Jobs \ {j} PROVE Once(i)' /\ Kept(i)'
      OBVIOUS
    <3>1. Untouched(i)
      BY <1>0, <1>a DEF Untouched
    <3> QED  BY <1>0, <3>1, UntouchedKeeps DEF DeliveryInv
  <2>2. Shape'
    BY <1>0 DEF DeliveryInv, Shape
  <2> QED  BY <1>a, <1>t, <2>1, <2>2 DEF DeliveryInv
<1>b. ASSUME NEW lease, NEW mark, Write(j, lease, mark)
      PROVE  /\ box'[j] = TRUE /\ mail'[j].lease = lease /\ mail'[j].mark = mark /\ receipt'[j] = receipt[j]
             /\ \A i \in Jobs \ {j} : box'[i] = box[i] /\ mail'[i] = mail[i] /\ receipt'[i] = receipt[i]
  BY <1>b, <1>t DEF Write, TypeOK
<1>c. ASSUME Unlink(j)
      PROVE  /\ box'[j] = FALSE /\ mail'[j] = mail[j] /\ receipt'[j] = receipt[j]
             /\ \A i \in Jobs \ {j} : box'[i] = box[i] /\ mail'[i] = mail[i] /\ receipt'[i] = receipt[i]
  BY <1>c, <1>t DEF Unlink, TypeOK
<1> USE DEF At, fileVars, envVars
<1>1. ASSUME Ask(j) PROVE DeliveryInv'
  <2>1. sender[j].pc = "new" /\ UNCHANGED paneVars
    BY <1>1 DEF Ask
  <2>2. \/ Write(j, "none", "none") /\ SenderIs(j, "done", sender[j].pane, sender[j].mark, sender[j].ok)
        \/ Write(j, "sender", "none") /\ \E p \in Panes : SenderIs(j, "waiting", p, sender[j].mark, sender[j].ok)
        \/ UNCHANGED fileVars /\ SenderIs(j, "failed", sender[j].pane, sender[j].mark, sender[j].ok)
    BY <1>1, <1>t, SenderGoes, SenderAims DEF Ask, Goes, SenderPCs, TypeOK
  <2>3. Once(j)' /\ Kept(j)'
    BY <1>0, <1>b, <1>t, <2>1, <2>2, PaneStill
       DEF SenderIs, SenderPCs, Once, Kept, New, Sending, Hooked, Watched, Marked, Accounted, InWatch, InHook, Active, PaneKept
  <2> QED  BY <1>a, <1>b, <2>1, <2>2, <2>3, PaneStill DEF SenderIs
<1>2. ASSUME LockTake(j) PROVE DeliveryInv'
  <2>1. \/ box[j] /\ SenderIs(j, "renew", sender[j].pane, sender[j].mark, sender[j].ok)
        \/ ~box[j] /\ SenderIs(j, "release", sender[j].pane, sender[j].mark, TRUE)
    BY <1>2, <1>t, SenderGoes, SenderSucceeds DEF LockTake, Goes, SenderPCs, Marks
  <2>2. Once(j)' /\ Kept(j)'
    BY <1>0, <1>b, <1>c, <1>t, <1>2, <2>1, PaneStill
       DEF LockTake, SenderIs, SenderPCs, Once, Kept, New, Sending, Hooked, Watched, Marked, Accounted, InWatch, InHook, Active, PaneKept
  <2> QED  BY <1>a, <1>b, <1>c, <1>t, <1>2, <2>1, <2>2, PaneStill DEF LockTake, SenderIs
<1>3. ASSUME LockTimeout(j) PROVE DeliveryInv'
  <2>1. SenderIs(j, "after", sender[j].pane, sender[j].mark, sender[j].ok)
    BY <1>3, <1>t, SenderGoes DEF LockTimeout, Goes, SenderPCs, Marks
  <2>2. Once(j)' /\ Kept(j)'
    BY <1>0, <1>b, <1>c, <1>t, <1>3, <2>1, PaneStill
       DEF LockTimeout, SenderIs, SenderPCs, Once, Kept, New, Sending, Hooked, Watched, Marked, Accounted, InWatch, InHook, Active, PaneKept
  <2> QED  BY <1>a, <1>b, <1>c, <1>t, <1>3, <2>1, <2>2, PaneStill DEF LockTimeout, SenderIs
<1>4. ASSUME RenewLease(j) PROVE DeliveryInv'
  <2>1. SenderIs(j, "stabilise", sender[j].pane, sender[j].mark, sender[j].ok)
    BY <1>4, <1>t, SenderGoes DEF RenewLease, Goes, SenderPCs, Marks
  <2>2. Once(j)' /\ Kept(j)'
    BY <1>0, <1>b, <1>c, <1>t, <1>4, <2>1, PaneStill
       DEF RenewLease, SenderIs, SenderPCs, Once, Kept, New, Sending, Hooked, Watched, Marked, Accounted, InWatch, InHook, Active, PaneKept
  <2> QED  BY <1>a, <1>b, <1>c, <1>t, <1>4, <2>1, <2>2, PaneStill DEF RenewLease, SenderIs
<1>5. ASSUME Stabilise(j) PROVE DeliveryInv'
  <2>1. \E pc \in {"dispatch", "release"} : SenderIs(j, pc, sender[j].pane, sender[j].mark, sender[j].ok)
    BY <1>5, <1>t, SenderGoes DEF Stabilise, Goes, SenderPCs, Marks
  <2>2. Once(j)' /\ Kept(j)'
    BY <1>0, <1>b, <1>c, <1>t, <1>5, <2>1, PaneStill
       DEF Stabilise, SenderIs, SenderPCs, Once, Kept, New, Sending, Hooked, Watched, Marked, Accounted, InWatch, InHook, Active, PaneKept
  <2> QED  BY <1>a, <1>b, <1>c, <1>t, <1>5, <2>1, <2>2, PaneStill DEF Stabilise, SenderIs
<1>6. ASSUME Dispatch(j) PROVE DeliveryInv'
  <2>1. SenderIs(j, "inject", sender[j].pane, "dispatching", sender[j].ok)
    BY <1>6, <1>t, SenderMarks DEF Dispatch, Goes, SenderPCs, Marks
  <2>2. Once(j)' /\ Kept(j)'
    <3>1. /\ box'[j] = TRUE /\ mail'[j].lease = "sender" /\ mail'[j].mark = "dispatching"
          /\ receipt'[j] = receipt[j] /\ PaneKept(j) /\ At(j, "dispatch")
      BY <1>b, <1>6, PaneStill DEF Dispatch
    <3>2. Once(j)'
      BY <1>0, <1>t, <2>1, <3>1
         DEF SenderIs, SenderPCs, Once, New, Sending, Hooked, Watched, Marked, InWatch, InHook, Active, PaneKept
    <3>3. Kept(j)'
      BY <1>0, <1>t, <2>1, <3>1 DEF SenderIs, Kept, Accounted, PaneKept
    <3> QED  BY <3>2, <3>3
  <2> QED  BY <1>a, <1>b, <1>c, <1>t, <1>6, <2>1, <2>2, PaneStill DEF Dispatch, SenderIs
<1>7. ASSUME Inject(j) PROVE DeliveryInv'
  <2>1. \/ Injected(j, sender[j].pane) /\ SenderIs(j, "unlink", sender[j].pane, sender[j].mark, sender[j].ok)
        \/ /\ Injected(j, sender[j].pane) \/ UNCHANGED paneVars
           /\ SenderIs(j, "release", sender[j].pane, "uncertain", sender[j].ok)
    BY <1>7, <1>t, SenderGoes, SenderMarks DEF Inject, Goes, SenderPCs, Marks
  <2>2. Once(j)' /\ Kept(j)'
    BY <1>0, <1>b, <1>c, <1>t, <1>7, <2>1, PaneStill, PaneInjected
       DEF Inject, SenderIs, SenderPCs, Once, Kept, New, Sending, Hooked, Watched, Marked, Accounted, InWatch, InHook, Active, PaneKept
  <2> QED  BY <1>a, <1>b, <1>c, <1>t, <1>7, <2>1, <2>2, PaneStill, PaneInjected DEF Inject, SenderIs
<1>8. ASSUME UnlinkEarly(j) PROVE DeliveryInv'
  <2>1. SenderIs(j, "verify", sender[j].pane, sender[j].mark, sender[j].ok)
    BY <1>8, <1>t, SenderGoes DEF UnlinkEarly, Goes, SenderPCs, Marks
  <2>2. Once(j)' /\ Kept(j)'
    BY <1>0, <1>b, <1>c, <1>t, <1>8, <2>1, PaneStill
       DEF UnlinkEarly, SenderIs, SenderPCs, Once, Kept, New, Sending, Hooked, Watched, Marked, Accounted, InWatch, InHook, Active, PaneKept
  <2> QED  BY <1>a, <1>b, <1>c, <1>t, <1>8, <2>1, <2>2, PaneStill DEF UnlinkEarly, SenderIs
<1>9. ASSUME Verify(j) PROVE DeliveryInv'
  <2>1. \/ SenderIs(j, "recreate", sender[j].pane, sender[j].mark, sender[j].ok)
        \/ SenderIs(j, "release", sender[j].pane, sender[j].mark, TRUE)
    BY <1>9, <1>t, SenderGoes, SenderSucceeds DEF Verify, Goes, SenderPCs, Marks
  <2>2. Once(j)' /\ Kept(j)'
    BY <1>0, <1>b, <1>c, <1>t, <1>9, <2>1, PaneStill, PaneEntered
       DEF Verify, SenderIs, SenderPCs, Once, Kept, New, Sending, Hooked, Watched, Marked, Accounted, InWatch, InHook, Active, PaneKept
  <2> QED  BY <1>a, <1>b, <1>c, <1>t, <1>9, <2>1, <2>2, PaneStill, PaneEntered DEF Verify, SenderIs
<1>10. ASSUME Recreate(j) PROVE DeliveryInv'
  <2>1. SenderIs(j, "release", sender[j].pane, sender[j].mark, sender[j].ok)
    BY <1>10, <1>t, SenderGoes DEF Recreate, Goes, SenderPCs, Marks
  <2>2. Once(j)' /\ Kept(j)'
    <3>1. /\ box'[j] = TRUE /\ mail'[j].lease = "sender" /\ mail'[j].mark = sender[j].mark
          /\ receipt'[j] = receipt[j] /\ PaneKept(j) /\ At(j, "recreate")
      BY <1>b, <1>10, PaneStill DEF Recreate
    <3>2. Once(j)'
      BY <1>0, <1>t, <2>1, <3>1
         DEF SenderIs, SenderPCs, Once, New, Sending, Hooked, Watched, Marked, InWatch, InHook, Active, PaneKept
    <3>3. Kept(j)'
      BY <1>0, <1>t, <2>1, <3>1 DEF SenderIs, Kept, Accounted, PaneKept
    <3> QED  BY <3>2, <3>3
  <2> QED  BY <1>a, <1>b, <1>c, <1>t, <1>10, <2>1, <2>2, PaneStill DEF Recreate, SenderIs
<1>11. ASSUME LockRelease(j) PROVE DeliveryInv'
  <2>1. SenderIs(j, "after", sender[j].pane, sender[j].mark, sender[j].ok)
    BY <1>11, <1>t, SenderGoes DEF LockRelease, Goes, SenderPCs, Marks
  <2>2. Once(j)' /\ Kept(j)'
    BY <1>0, <1>b, <1>c, <1>t, <1>11, <2>1, PaneStill
       DEF LockRelease, SenderIs, SenderPCs, Once, Kept, New, Sending, Hooked, Watched, Marked, Accounted, InWatch, InHook, Active, PaneKept
  <2> QED  BY <1>a, <1>b, <1>c, <1>t, <1>11, <2>1, <2>2, PaneStill DEF LockRelease, SenderIs
<1>12. ASSUME After(j) PROVE DeliveryInv'
  <2>1. \/ sender[j].ok /\ Unlink(j) /\ SenderIs(j, "done", sender[j].pane, sender[j].mark, sender[j].ok)
        \/ ~sender[j].ok /\ UNCHANGED fileVars /\ SenderIs(j, IF box[j] THEN "fallback" ELSE "done", sender[j].pane, sender[j].mark, sender[j].ok)
    BY <1>12, <1>t, SenderGoes DEF After, Goes, SenderPCs, Marks
  <2>2. Once(j)' /\ Kept(j)'
    BY <1>0, <1>b, <1>c, <1>t, <1>12, <2>1, PaneStill
       DEF After, SenderIs, SenderPCs, Once, Kept, New, Sending, Hooked, Watched, Marked, Accounted, InWatch, InHook, Active, PaneKept
  <2> QED  BY <1>a, <1>b, <1>c, <1>t, <1>12, <2>1, <2>2, PaneStill DEF After, SenderIs
<1>13. ASSUME Fallback(j) PROVE DeliveryInv'
  <2>1. SenderIs(j, "done", sender[j].pane, sender[j].mark, sender[j].ok)
    BY <1>13, <1>t, SenderGoes DEF Fallback, Goes, SenderPCs, Marks
  <2>2. Once(j)' /\ Kept(j)'
    <3>1. /\ box'[j] /\ mail'[j].lease = "none" /\ mail'[j].mark = sender[j].mark
          /\ receipt'[j] = receipt[j] /\ PaneKept(j) /\ sender[j].pc = "fallback"
      BY <1>b, <1>13, PaneStill DEF Fallback
    <3>2. Once(j)'
      BY <1>0, <1>t, <2>1, <3>1
         DEF SenderIs, SenderPCs, Once, New, Sending, Hooked, Watched, Marked, InWatch, InHook, Active, PaneKept
    <3>3. Kept(j)'
      BY <1>0, <1>t, <2>1, <3>1 DEF SenderIs, Kept, Accounted, PaneKept
    <3> QED  BY <3>2, <3>3
  <2> QED  BY <1>a, <1>b, <1>c, <1>t, <1>13, <2>1, <2>2, PaneStill DEF Fallback, SenderIs
<1> QED  BY <1>1, <1>2, <1>3, <1>4, <1>5, <1>6, <1>7, <1>8, <1>9, <1>10, <1>11, <1>12, <1>13
         DEF SenderStep

(* The watchdog.  Whoever has the lock has it alone: no hook runs while a  *)
(* message is in the watchdog's hands.                                     *)
LEMMA WatchKeeps == DeliveryInv /\ (WatchStep \/ WatchStarts \/ WatchDies) => DeliveryInv'
<1> SUFFICES ASSUME DeliveryInv, WatchStep \/ WatchStarts \/ WatchDies PROVE DeliveryInv'
  OBVIOUS
<1>t. TypeOK /\ TypeOK' /\ Shape /\ \A i \in Jobs : Once(i) /\ Kept(i)
  BY WatchTypes DEF DeliveryInv
<1>0. UNCHANGED <<sender, hook, late, cut>>
  BY DEF WatchStep, WatchStarts, WatchDies, Dies, Scan, Wake, Pick, Recheck, WatchMark, WatchInject,
         WatchVerify, WatchReceipt, WatchFailed, WatchUnmark, envVars
<1>h. watch.pc \in WatchPCs \ {"down", "idle", "wake"} => \A i \in Jobs : ~InHook(i)
  BY <1>t DEF TypeOK, Shape, InHook
<1>a. ASSUME \A i \in Jobs : Once(i)' /\ Kept(i)',
             watch'.pc \in {"down", "idle", "wake", "pick"} => watch'.job = {},
             \A i, k \in watch'.job : i = k
      PROVE  DeliveryInv'
  BY <1>0, <1>a, <1>t DEF DeliveryInv, Shape
\* The watchdog's own record changes, and nothing is in its hands after it
<1>b. ASSUME UNCHANGED <<fileVars, paneVars>>, watch'.job = {}
      PROVE  DeliveryInv'
  <2>1. \A i \in Jobs : Once(i)' /\ Kept(i)'
    BY <1>0, <1>b, <1>t, PaneStill DEF fileVars, Once, Kept, New, Sending, Hooked, Watched, Marked, Accounted, InWatch, InHook, Active, PaneKept
  <2> QED  BY <1>a, <1>b, <2>1
\* One message is in its hands, and nothing happens to the others
<1>c. ASSUME NEW j \in watch.job, watch'.job \in {{}, watch.job},
             watch'.pc \notin {"down", "idle", "wake", "pick"} \/ watch'.job = {},
             \A i \in Jobs \ {j} : /\ box'[i] = box[i] /\ mail'[i] = mail[i]
                                   /\ receipt'[i] = receipt[i] /\ PaneKept(i),
             Once(j)', Kept(j)'
      PROVE  DeliveryInv'
  <2>1. j \in Jobs /\ \A i \in Jobs \ {j} : i \notin watch.job /\ i \notin watch'.job
    BY <1>c, <1>t DEF TypeOK, Shape
  <2>2. \A i \in Jobs \ {j} : Once(i)' /\ Kept(i)'
    <3> SUFFICES ASSUME NEW i \in Jobs \ {j} PROVE Once(i)' /\ Kept(i)'
      OBVIOUS
    <3>1. Untouched(i)
      BY <1>0, <1>c, <2>1 DEF Untouched
    <3> QED  BY <1>0, <1>t, <3>1, UntouchedKeeps
  <2> QED  BY <1>a, <1>c, <1>t, <2>1, <2>2 DEF Shape
<1>w. ASSUME NEW j \in Jobs, NEW lease, NEW mark, Write(j, lease, mark)
      PROVE  /\ box'[j] = TRUE /\ mail'[j].lease = lease /\ mail'[j].mark = mark /\ receipt'[j] = receipt[j]
             /\ \A i \in Jobs \ {j} : box'[i] = box[i] /\ mail'[i] = mail[i] /\ receipt'[i] = receipt[i]
  BY <1>w, <1>t DEF Write, TypeOK
<1>1. ASSUME WatchStarts PROVE DeliveryInv'
  <2>1. watch'.job = {}
    BY <1>1, WatchIdle DEF WatchStarts
  <2> QED  BY <1>1, <1>b, <2>1 DEF WatchStarts
<1>2. ASSUME Scan PROVE DeliveryInv'
  <2>1. watch'.job = watch.job /\ watch.job = {} /\ UNCHANGED <<fileVars, paneVars>>
    <3>1. watch' = watch \/ watch' = [watch EXCEPT !.pc = "wake", !.pane = owner]
      BY <1>2 DEF Scan
    <3>2. watch'.job = watch.job
      BY <1>t, <3>1 DEF TypeOK
    <3> QED  BY <1>2, <1>t, <3>2 DEF Scan, Shape
  <2> QED  BY <1>b, <2>1
<1>3. ASSUME Wake PROVE DeliveryInv'
  <2>1. watch'.job = {} /\ UNCHANGED <<fileVars, paneVars>>
    BY <1>3, <1>t, WatchIdle, WatchWent DEF Wake, TypeOK, Shape, WatchPCs
  <2> QED  BY <1>b, <2>1
<1>4. ASSUME Pick PROVE DeliveryInv'
  <2>1. watch.job = {} /\ UNCHANGED <<fileVars, paneVars>>
    BY <1>4, <1>t DEF Pick, Shape
  <2>2. CASE WatchEnds
    BY <1>b, <2>1, <2>2, WatchIdle DEF WatchEnds
  <2>3. ASSUME NEW j \in Jobs, Available(j), watch' = [watch EXCEPT !.pc = "capture", !.job = {j}]
        PROVE  DeliveryInv'
    <3>1. watch'.pc = "capture" /\ watch'.job = {j}
      BY <2>3, <1>t DEF TypeOK
    <3>2. \A i \in Jobs \ {j} : Once(i)' /\ Kept(i)'
      BY <1>0, <1>t, <2>1, <3>1, PaneStill DEF fileVars, Once, Kept, New, Sending, Hooked, Watched, Marked, Accounted, InWatch, InHook, Active, PaneKept
    <3>3. Once(j)' /\ Kept(j)'
      BY <1>0, <1>t, <2>1, <2>3, <3>1, PaneStill
         DEF fileVars, Available, LeaseActive, Once, Kept, New, Sending, Hooked, Watched, Marked, Accounted, InWatch, InHook, Active, PaneKept
    <3> QED  BY <1>a, <3>1, <3>2, <3>3
  <2> QED  BY <1>4, <2>2, <2>3 DEF Pick
<1>5. ASSUME Recheck PROVE DeliveryInv'
  <2>1. UNCHANGED <<fileVars, paneVars>> /\ watch.pc = "capture"
    BY <1>5 DEF Recheck
  <2>2. CASE WatchEnds
    BY <1>b, <2>1, <2>2, WatchIdle DEF WatchEnds
  <2>3. CASE WatchGoes("mark")
    <3>1. watch'.pc = "mark" /\ watch'.job = watch.job
      BY <1>t, <2>3, WatchWent DEF WatchPCs
    <3>2. \A i \in Jobs : Once(i)' /\ Kept(i)'
      BY <1>0, <1>t, <2>1, <3>1, PaneStill DEF fileVars, Once, Kept, New, Sending, Hooked, Watched, Marked, Accounted, InWatch, InHook, Active, PaneKept
    <3> QED  BY <1>a, <1>t, <3>1, <3>2 DEF Shape
  <2> QED  BY <1>5, <2>2, <2>3 DEF Recheck
<1>6. ASSUME WatchMark PROVE DeliveryInv'
  <2>1. PICK j \in watch.job : Write(j, "watch", "dispatching")
    BY <1>6 DEF WatchMark
  <2>2. j \in Jobs /\ watch'.pc = "inject" /\ watch'.job = watch.job /\ watch.pc = "mark" /\ UNCHANGED paneVars
    BY <1>6, <1>t, WatchWent DEF WatchMark, WatchPCs, TypeOK
  <2>3. ~InHook(j)
    BY <1>h, <2>2 DEF WatchPCs
  <2>4. Once(j)' /\ Kept(j)'
    <3>1. /\ box'[j] = TRUE /\ mail'[j].mark = "dispatching" /\ receipt'[j] = receipt[j]
          /\ PaneKept(j) /\ ~InHook(j)' /\ sender'[j] = sender[j]
      <4>1. PaneKept(j) /\ ~InHook(j)' /\ sender'[j] = sender[j]
        BY <1>0, <2>2, <2>3, PaneStill DEF InHook
      <4>2. mail \in [Jobs -> [lease : Leases, mark : Marks]] /\ box \in [Jobs -> BOOLEAN]
        BY <1>t DEF TypeOK
      <4> QED  BY <2>1, <2>2, <4>1, <4>2 DEF Write
    <3>2. Once(j)'
      BY <1>0, <1>t, <2>1, <2>2, <3>1
         DEF Once, New, Sending, Hooked, Watched, Marked, InWatch, PaneKept
    <3>3. Kept(j)'
      BY <1>0, <1>t, <2>2, <3>1 DEF Kept, Accounted, PaneKept
    <3> QED  BY <3>2, <3>3
  <2> QED  BY <1>c, <1>w, <2>1, <2>2, <2>4, PaneStill
<1>7. ASSUME WatchInject PROVE DeliveryInv'
  <2>1. PICK j \in watch.job : Injected(j, watch.pane) \/ UNCHANGED paneVars
    BY <1>7 DEF WatchInject
  <2>2. /\ j \in Jobs /\ watch'.pc \in {"verify", "failed"} /\ watch'.job = watch.job
        /\ watch.pc = "inject" /\ UNCHANGED fileVars
    BY <1>7, <1>t, WatchWent DEF WatchInject, WatchPCs, TypeOK
  <2>3. ~InHook(j)
    BY <1>h, <2>2 DEF WatchPCs
  <2>4. Once(j)' /\ Kept(j)' /\ \A i \in Jobs \ {j} : PaneKept(i)
    BY <1>0, <1>t, <2>1, <2>2, <2>3, PaneStill, PaneInjected DEF fileVars, Once, Kept, New, Sending, Hooked, Watched, Marked, Accounted, InWatch, InHook, Active, PaneKept
  <2> QED  BY <1>c, <2>2, <2>4 DEF fileVars
<1>8. ASSUME WatchVerify PROVE DeliveryInv'
  <2>1. PICK j \in watch.job : Enter(j)
    BY <1>8 DEF WatchVerify
  <2>2. /\ j \in Jobs /\ watch'.pc \in {"receipt", "failed"} /\ watch'.job = watch.job
        /\ watch.pc = "verify" /\ UNCHANGED fileVars
    BY <1>8, <1>t, WatchWent DEF WatchVerify, WatchPCs, TypeOK
  <2>3. \A i \in Jobs : PaneKept(i)
    BY <1>t, <2>1, <2>2, PaneEntered
  <2>4. Once(j)' /\ Kept(j)'
    BY <1>0, <1>t, <2>2, <2>3 DEF fileVars, Once, Kept, New, Sending, Hooked, Watched, Marked, Accounted, InWatch, InHook, Active, PaneKept
  <2> QED  BY <1>c, <2>2, <2>3, <2>4 DEF fileVars
<1>9. ASSUME WatchReceipt PROVE DeliveryInv'
  <2>1. PICK j \in watch.job : Process(j)
    BY <1>9 DEF WatchReceipt
  <2>2. j \in Jobs /\ watch'.job = {} /\ watch.pc = "receipt" /\ UNCHANGED paneVars
    BY <1>9, <1>t, WatchIdle DEF WatchReceipt, WatchEnds, TypeOK
  <2>3. /\ box'[j] = FALSE /\ mail'[j] = mail[j] /\ receipt'[j] = TRUE
        /\ \A i \in Jobs \ {j} : box'[i] = box[i] /\ mail'[i] = mail[i] /\ receipt'[i] = receipt[i]
    BY <1>t, <2>1, <2>2 DEF Process, TypeOK
  <2>4. Once(j)' /\ Kept(j)'
    BY <1>0, <1>t, <2>2, <2>3, PaneStill DEF Once, Kept, New, Sending, Hooked, Watched, Marked, Accounted, InWatch, InHook, Active, PaneKept
  <2> QED  BY <1>c, <2>2, <2>3, <2>4, PaneStill
<1>10. ASSUME WatchFailed PROVE DeliveryInv'
  <2>1. UNCHANGED <<fileVars, paneVars>> /\ watch.pc = "failed"
    BY <1>10 DEF WatchFailed
  <2>2. CASE WatchEnds
    BY <1>b, <2>1, <2>2, WatchIdle DEF WatchEnds
  <2>3. CASE WatchGoes("unmark")
    <3>1. watch'.pc = "unmark" /\ watch'.job = watch.job
      BY <1>t, <2>3, WatchWent DEF WatchPCs
    <3>2. \A i \in Jobs : Once(i)' /\ Kept(i)'
      BY <1>0, <1>t, <2>1, <3>1, PaneStill DEF fileVars, Once, Kept, New, Sending, Hooked, Watched, Marked, Accounted, InWatch, InHook, Active, PaneKept
    <3> QED  BY <1>a, <1>t, <3>1, <3>2 DEF Shape
  <2> QED  BY <1>10, <2>2, <2>3 DEF WatchFailed
<1>11. ASSUME WatchUnmark PROVE DeliveryInv'
  <2>1. PICK j \in watch.job : Write(j, "none", "uncertain")
    BY <1>11 DEF WatchUnmark
  <2>2. j \in Jobs /\ watch'.job = {} /\ watch.pc = "unmark" /\ UNCHANGED paneVars
    BY <1>11, <1>t, WatchIdle DEF WatchUnmark, WatchEnds, TypeOK
  <2>3. ~InHook(j)
    BY <1>h, <2>2 DEF WatchPCs
  <2>4. Once(j)' /\ Kept(j)'
    <3>1. /\ box'[j] = TRUE /\ mail'[j].mark = "uncertain" /\ receipt'[j] = receipt[j]
          /\ PaneKept(j) /\ ~InHook(j)' /\ sender'[j] = sender[j]
      <4>1. PaneKept(j) /\ ~InHook(j)' /\ sender'[j] = sender[j]
        BY <1>0, <2>2, <2>3, PaneStill DEF InHook
      <4>2. mail \in [Jobs -> [lease : Leases, mark : Marks]] /\ box \in [Jobs -> BOOLEAN]
        BY <1>t DEF TypeOK
      <4> QED  BY <2>1, <2>2, <4>1, <4>2 DEF Write
    <3>2. Once(j)'
      BY <1>0, <1>t, <2>1, <2>2, <3>1
         DEF Once, New, Sending, Hooked, Watched, Marked, InWatch, PaneKept
    <3>3. Kept(j)'
      BY <1>0, <1>t, <2>2, <3>1 DEF Kept, Accounted, PaneKept
    <3> QED  BY <3>2, <3>3
  <2> QED  BY <1>c, <1>w, <2>1, <2>2, <2>4, PaneStill
<1>12. ASSUME WatchDies PROVE DeliveryInv'
  <2>1. /\ watch'.job = {} /\ watch'.pc = "down" /\ UNCHANGED <<box, receipt, paneVars>>
        /\ mail' = Unleased("watch")
    BY <1>12, WatchDown DEF WatchDies, Dies
  <2>2. \A i \in Jobs : mail'[i].mark = mail[i].mark /\ (mail[i].lease = "sender" => mail'[i].lease = "sender")
    BY <1>t, <2>1 DEF Unleased, TypeOK
  <2>3. \A i \in Jobs : Once(i)' /\ Kept(i)'
    BY <1>0, <1>t, <2>1, <2>2, PaneStill DEF Once, Kept, New, Sending, Hooked, Watched, Marked, Accounted, InWatch, InHook, Active, PaneKept
  <2> QED  BY <1>a, <2>1, <2>3
<1> QED  BY <1>1, <1>2, <1>3, <1>4, <1>5, <1>6, <1>7, <1>8, <1>9, <1>10, <1>11, <1>12 DEF WatchStep

(* The hooks, the receiver and its user, registrations and deaths.         *)
LEMMA OthersKeep ==
  DeliveryInv /\ (HookStep \/ (\E stop \in BOOLEAN : HookStart(stop)) \/ Environment) => DeliveryInv'
<1> SUFFICES ASSUME DeliveryInv, HookStep \/ (\E stop \in BOOLEAN : HookStart(stop)) \/ Environment
             PROVE  DeliveryInv'
  OBVIOUS
<1>t. TypeOK /\ TypeOK' /\ Shape /\ \A i \in Jobs : Once(i) /\ Kept(i)
  BY OthersType DEF DeliveryInv
<1>a. ASSUME \A i \in Jobs : Once(i)' /\ Kept(i)', UNCHANGED watch,
             hook'.pc = "idle" => hook'.todo = {} /\ hook'.blocks = {},
             hook'.pc = "drain" => hook'.pane \in Panes
      PROVE  DeliveryInv'
  BY <1>a, <1>t DEF DeliveryInv, Shape
<1>w. sendLock \in {"free", "hook"} => \A i \in Jobs : ~InWatch(i)
  BY <1>t DEF TypeOK, Shape, InWatch, WatchPCs
<1>1. ASSUME NEW stop \in BOOLEAN, HookStart(stop) PROVE DeliveryInv'
  <2>1. PICK batch \in SUBSET {j \in Jobs : Available(j)} :
           hook' = [pc |-> "drain", todo |-> batch, pane |-> owner,
                    blocks |-> IF stop THEN batch ELSE {}]
    BY <1>1 DEF HookStart
  <2>2. /\ UNCHANGED <<envVars, fileVars, sender, watch, paneVars>> /\ hook.todo = {} /\ hook.blocks = {}
        /\ owner \in Panes /\ \A i \in Jobs : ~InWatch(i)
    BY <1>1, <1>t, <1>w DEF HookStart, Shape, TypeOK
  <2>3. hook'.todo = batch /\ hook'.blocks \subseteq batch /\ hook'.pc = "drain" /\ hook'.pane = owner
    BY <2>1
  <2>4. \A i \in Jobs : Once(i)' /\ Kept(i)'
    <3> SUFFICES ASSUME NEW i \in Jobs PROVE Once(i)' /\ Kept(i)'
      OBVIOUS
    <3>1. i \in hook'.todo \cup hook'.blocks => Available(i)
      BY <2>3
    <3>2. Once(i)'
      BY <1>t, <2>2, <2>3, <3>1, PaneStill
         DEF envVars, fileVars, Available, LeaseActive, Once, New, Sending, Hooked, Watched, Marked,
             InWatch, InHook, Active, PaneKept
    <3>3. Kept(i)'
      BY <1>t, <2>2, <2>3, PaneStill DEF envVars, fileVars, Kept, Accounted, PaneKept
    <3> QED  BY <3>2, <3>3
  <2> QED  BY <1>a, <2>2, <2>3, <2>4
<1>2. ASSUME NEW j \in Jobs, HookMove(j) PROVE DeliveryInv'
  <2>1. /\ UNCHANGED <<envVars, sender, watch, paneVars, mail, receipt>>
        /\ hook.pc = "drain" /\ j \in hook.todo /\ \A i \in Jobs : ~InWatch(i)
    BY <1>2, <1>t, <1>w DEF HookMove, Unlink, TypeOK
  <2>2. /\ box'[j] = FALSE /\ \A i \in Jobs \ {j} : box'[i] = box[i]
        /\ hook'.pc = "drain" /\ hook'.pane = hook.pane /\ hook'.todo = hook.todo \ {j}
        /\ hook'.blocks = IF box[j] THEN hook.blocks \cup {j} ELSE hook.blocks
    BY <1>2, <1>t DEF HookMove, Unlink, TypeOK
  <2>3. \A i \in Jobs \ {j} : Once(i)' /\ Kept(i)'
    <3> SUFFICES ASSUME NEW i \in Jobs \ {j} PROVE Once(i)' /\ Kept(i)'
      OBVIOUS
    <3>1. Untouched(i)
      BY <2>1, <2>2, PaneStill DEF Untouched
    <3> QED  BY <1>t, <2>1, <3>1, UntouchedKeeps DEF envVars
  <2>4. Once(j)'
    BY <1>t, <2>1, <2>2, PaneStill
       DEF envVars, Once, New, Sending, Hooked, Watched, Marked, InWatch, InHook, PaneKept
  <2>5. Kept(j)'
    BY <1>t, <2>1, <2>2, PaneStill
       DEF envVars, Kept, Accounted, PaneKept
  <2> QED  BY <1>a, <1>t, <2>1, <2>2, <2>3, <2>4, <2>5 DEF Shape
<1>3. ASSUME HookPrint PROVE DeliveryInv'
  <2>1. /\ UNCHANGED <<envVars, fileVars, sender, watch, stuck>>
        /\ hook.pc = "drain" /\ hook.todo = {} /\ hook.pane \in Panes
        /\ hook' = NoHook /\ \A i \in Jobs : ~InWatch(i)
    BY <1>3, <1>t, <1>w DEF HookPrint, Shape, TypeOK
  <2>2. hook'.pc = "idle" /\ hook'.todo = {} /\ hook'.blocks = {}
    BY <2>1 DEF NoHook
  <2>3. handed' = [j \in Jobs |-> IF j \in hook.blocks
                                  THEN [handed[j] EXCEPT ![hook.pane] = @ + 1] ELSE handed[j]]
    BY <1>3 DEF HookPrint
  <2>4. ASSUME NEW i \in Jobs PROVE Once(i)' /\ Kept(i)'
    <3>1. CASE i \notin hook.blocks
      <4>1. PaneKept(i)
        BY <2>1, <2>3, <3>1 DEF PaneKept, Typed, Handed, Single
      <4> QED  BY <1>t, <2>1, <2>2, <3>1, <4>1 DEF envVars, fileVars, Once, Kept, New, Sending, Hooked, Watched, Marked, Accounted, InWatch, InHook, Active, PaneKept
    <3>2. CASE i \in hook.blocks
      <4>1. /\ handed'[i][hook.pane] = handed[i][hook.pane] + 1 /\ stuck'[i] = stuck[i]
            /\ \A q \in Panes \ {hook.pane} : handed'[i][q] = handed[i][q]
            /\ \A q \in Panes : handed[i][q] \in Nat
        BY <1>t, <2>1, <2>3, <3>2 DEF TypeOK
      <4>2. Typed(i)'
        BY <2>1, <4>1 DEF Typed, Handed
      <4>3. ~Typed(i) => Single(i)'
        <5> SUFFICES ASSUME stuck[i] = NoPane, \A q \in Panes : ~(handed[i][q] > 0) PROVE Single(i)'
          BY DEF Typed, Handed
        <5>1. \A q \in Panes : handed[i][q] = 0
          BY <4>1
        <5> QED  BY <4>1, <5>1 DEF Single, Handed
      <4>4. Once(i)'
        BY <1>t, <2>1, <2>2, <3>2, <4>2, <4>3
           DEF envVars, fileVars, Once, New, Sending, Hooked, Watched, Marked, InWatch, InHook
      <4>5. Kept(i)'
        BY <1>t, <2>1, <4>2 DEF fileVars, Kept, Accounted
      <4> QED  BY <4>4, <4>5
    <3> QED  BY <3>1, <3>2
  <2> QED  BY <1>a, <2>1, <2>2, <2>4
<1>4. ASSUME HookDies PROVE DeliveryInv'
  <2>1. /\ UNCHANGED <<late, box, mail, receipt, sender, watch, paneVars>>
        /\ cut' = cut \cup (hook.blocks \ hook.todo) /\ hook' = NoHook
    BY <1>4 DEF HookDies, Dies
  <2>2. hook'.pc = "idle" /\ hook'.todo = {} /\ hook'.blocks = {}
    BY <2>1 DEF NoHook
  <2>3. \A i \in Jobs : Once(i)' /\ Kept(i)'
    BY <1>t, <2>1, <2>2, PaneStill DEF Once, Kept, New, Sending, Hooked, Watched, Marked, Accounted, InWatch, InHook, Active, PaneKept
  <2> QED  BY <1>a, <2>1, <2>2, <2>3
<1>5. ASSUME NEW j \in Jobs, SenderDies(j) PROVE DeliveryInv'
  <2>1. SenderIs(j, "dead", sender[j].pane, sender[j].mark, sender[j].ok)
    BY <1>5, <1>t, SenderGoes DEF SenderDies, SenderPCs
  <2>2. /\ UNCHANGED <<late, cut, box, receipt, watch, hook, paneVars>>
        /\ mail' = [mail EXCEPT ![j].lease = IF @ = "sender" THEN "none" ELSE @]
        /\ sender[j].pc \notin {"new", "failed"}
    BY <1>5 DEF SenderDies, Dies
  <2>3. mail'[j].mark = mail[j].mark /\ \A i \in Jobs \ {j} : mail'[i] = mail[i]
    BY <1>t, <2>2 DEF TypeOK
  <2>4. \A i \in Jobs \ {j} : Once(i)' /\ Kept(i)'
    BY <1>t, <2>1, <2>2, <2>3, PaneStill, UntouchedKeeps DEF Untouched, SenderIs
  <2>5. Once(j)' /\ Kept(j)'
    BY <1>t, <2>1, <2>2, <2>3, PaneStill DEF SenderIs, Once, Kept, New, Sending, Hooked, Watched, Marked, Accounted, InWatch, InHook, Active, PaneKept
  <2> QED  BY <1>a, <1>t, <2>2, <2>4, <2>5 DEF Shape
<1>6. ASSUME NEW j \in Jobs, Acknowledge(j) PROVE DeliveryInv'
  <2>1. /\ UNCHANGED <<envVars, mail, sender, watch, hook, paneVars>>
        /\ box'[j] = FALSE /\ receipt'[j] = TRUE
        /\ \A i \in Jobs \ {j} : box'[i] = box[i] /\ receipt'[i] = receipt[i]
    BY <1>6, <1>t DEF Acknowledge, Process, TypeOK
  <2>2. \A i \in Jobs : Once(i)' /\ Kept(i)'
    BY <1>t, <2>1, PaneStill DEF envVars, Once, Kept, New, Sending, Hooked, Watched, Marked, Accounted, InWatch, InHook, Active, PaneKept
  <2> QED  BY <1>a, <1>t, <2>1, <2>2 DEF Shape
<1>7. ASSUME NEW j \in Jobs, UserEnters(j) PROVE DeliveryInv'
  <2>1. /\ UNCHANGED <<envVars, fileVars, sender, watch, hook>>
        /\ stuck[j] \in Panes /\ stuck[j] # NoPane /\ Submitted(j, stuck[j])
    BY <1>7, <1>t DEF UserEnters, TypeOK
  <2>2. \A i \in Jobs : PaneKept(i)
    BY <1>t, <2>1, PaneSubmitted DEF PaneKept, Typed
  <2>3. \A i \in Jobs : Once(i)' /\ Kept(i)'
    BY <1>t, <2>1, <2>2, UntouchedKeeps DEF Untouched, envVars, fileVars
  <2> QED  BY <1>a, <1>t, <2>1, <2>3 DEF Shape
<1>8. ASSUME NEW j \in Jobs, LeaseExpires(j) PROVE DeliveryInv'
  <2>1. /\ UNCHANGED <<cut, box, receipt, sender, watch, hook, paneVars>>
        /\ late' = late \cup {j} /\ \A i \in Jobs \ {j} : mail'[i] = mail[i]
    BY <1>8, <1>t DEF LeaseExpires, TypeOK
  <2>2. \A i \in Jobs \ {j} : Once(i)' /\ Kept(i)'
    BY <1>t, <2>1, PaneStill, UntouchedKeeps DEF Untouched
  <2>3. Once(j)' /\ Kept(j)'
    BY <1>t, <2>1, PaneStill DEF Once, Kept, Accounted, PaneKept
  <2> QED  BY <1>a, <1>t, <2>1, <2>2, <2>3 DEF Shape
<1>12. ASSUME NEW j \in Jobs, Cancelled(j) PROVE DeliveryInv'
  <2>1. SenderIs(j, "cancelled", sender[j].pane, sender[j].mark, sender[j].ok)
    BY <1>12, <1>t, SenderGoes DEF Cancelled, SenderPCs
  <2>2. /\ UNCHANGED <<late, cut, fileVars, watch, hook, paneVars>>
        /\ sender[j].pc \notin {"new", "failed"}
    BY <1>12 DEF Cancelled, envVars
  <2>3. \A i \in Jobs \ {j} : Once(i)' /\ Kept(i)'
    BY <1>t, <2>1, <2>2, PaneStill, UntouchedKeeps DEF Untouched, SenderIs, fileVars
  <2>4. Once(j)' /\ Kept(j)'
    BY <1>t, <2>1, <2>2, PaneStill DEF SenderIs, fileVars, Once, Kept, New, Sending, Hooked, Watched, Marked, Accounted, InWatch, InHook, Active, PaneKept
  <2> QED  BY <1>a, <1>t, <2>2, <2>3, <2>4 DEF Shape
<1>13. ASSUME NEW j \in Jobs, LeaseLapses(j) PROVE DeliveryInv'
  <2>1. /\ UNCHANGED <<late, cut, box, receipt, sender, watch, hook, paneVars>>
        /\ sender[j].pc = "cancelled"
        /\ mail'[j].mark = mail[j].mark
        /\ \A i \in Jobs \ {j} : mail'[i] = mail[i]
    BY <1>13, <1>t DEF LeaseLapses, Abandoned, TypeOK, envVars
  <2>2. \A i \in Jobs \ {j} : Once(i)' /\ Kept(i)'
    BY <1>t, <2>1, PaneStill, UntouchedKeeps DEF Untouched
  <2>3. Once(j)' /\ Kept(j)'
    BY <1>t, <2>1, PaneStill DEF Once, Kept, New, Sending, Hooked, Watched, Marked, Accounted, InWatch, InHook, Active, PaneKept
  <2> QED  BY <1>a, <1>t, <2>1, <2>2, <2>3 DEF Shape
<1>9. ASSUME UNCHANGED <<late, cut, fileVars, sender, watch, hook, paneVars>> PROVE DeliveryInv'
  <2>1. \A i \in Jobs : Once(i)' /\ Kept(i)'
    BY <1>9, <1>t, PaneStill, UntouchedKeeps DEF Untouched, fileVars
  <2> QED  BY <1>9, <1>a, <1>t, <2>1 DEF Shape
<1>10. ASSUME NEW p \in Panes, Register(p) \/ PaneCloses(p) PROVE DeliveryInv'
  BY <1>9, <1>10 DEF Register, PaneCloses, Dies, fileVars
<1>11. ASSUME ScreenChanges PROVE DeliveryInv'
  BY <1>9, <1>11 DEF ScreenChanges
<1> QED  BY <1>1, <1>2, <1>3, <1>4, <1>5, <1>6, <1>7, <1>8, <1>10, <1>11, <1>12, <1>13, WatchKeeps
         DEF HookStep, Environment

-----------------------------------------------------------------------------
(* The inductive invariant.                                                *)
THEOREM DeliveryInvariant == Spec => []DeliveryInv
<1>1. Init => DeliveryInv
  <2> SUFFICES ASSUME Init PROVE DeliveryInv
    OBVIOUS
  <2>1. TypeOK
    BY TypeInit
  <2>2. watch.job = {} /\ hook.pc = "idle" /\ hook.todo = {} /\ hook.blocks = {}
    BY WatchDown DEF Init, NoHook
  <2>3. \A j \in Jobs : ~Typed(j) /\ Single(j)
    BY DEF Init, Typed, Handed, Single
  <2>4. \A j \in Jobs : ~box[j] /\ sender[j].pc = "new" /\ sender[j].mark = "none" /\ ~sender[j].ok
    BY DEF Init
  <2> QED  BY <2>1, <2>2, <2>3, <2>4
           DEF DeliveryInv, Shape, Once, Kept, New, Sending, Hooked, Watched, Marked, InWatch, InHook, Active
<1>2. DeliveryInv /\ [Next]_vars => DeliveryInv'
  <2> SUFFICES ASSUME DeliveryInv, [Next]_vars PROVE DeliveryInv'
    OBVIOUS
  <2>1. CASE UNCHANGED vars
    <3>1. TypeOK' /\ Shape'
      BY <2>1 DEF vars, envVars, fileVars, paneVars, DeliveryInv, TypeOK, Shape
    <3>2. \A i \in Jobs : Untouched(i)
      BY <2>1, PaneStill DEF vars, fileVars, Untouched
    <3> QED  BY <2>1, <3>1, <3>2, UntouchedKeeps DEF DeliveryInv, vars, envVars
  <2>2. CASE Next
    BY <2>2, SenderKeeps, WatchKeeps, OthersKeep DEF Next
  <2> QED  BY <2>1, <2>2
<1> QED  BY <1>1, <1>2, PTL DEF Spec

(* Every variable holds what the code can put there, and .send-lock is     *)
(* held by the one process that is at a step that needs it.                *)
THEOREM PaneTypeCorrect == Spec => []TypeOK
<1>1. DeliveryInv => TypeOK
  BY DEF DeliveryInv
<1> QED  BY <1>1, DeliveryInvariant, PTL

(* A message is handed to one agent once by sender, watchdog and hooks,    *)
(* unless its lease ran out on a holder still at work.                     *)
THEOREM MessagesHandedOverOnce == Spec => []HandedOverOnce
<1>1. DeliveryInv => HandedOverOnce
  BY DEF DeliveryInv, Once, Single, HandedOverOnce
<1> QED  BY <1>1, DeliveryInvariant, PTL

(* An envelope whose body may have reached a pane carries a mark.          *)
THEOREM TypedMessagesAreMarked == Spec => []TypedIsMarked
<1>1. DeliveryInv => TypedIsMarked
  BY DEF DeliveryInv, Once, Marked, TypedIsMarked
<1> QED  BY <1>1, DeliveryInvariant, PTL

(* What left the inbox was given to an agent, is in a compose box or in a  *)
(* running hook's hands, or was acknowledged.                              *)
THEOREM MessagesAreNeverLost == Spec => []NeverLost
<1>1. DeliveryInv => NeverLost
  BY DEF DeliveryInv, Kept, Accounted, NeverLost
<1> QED  BY <1>1, DeliveryInvariant, PTL

-----------------------------------------------------------------------------
(* Leases.                                                                 *)
AtWork(j) == sender[j].pc \notin {"new", "done", "failed", "cancelled", "dead"}
WatchAtWork == watch.pc \in {"inject", "verify", "receipt", "failed", "unmark"}

Leased(j) == box[j] /\ mail[j].lease # "none" =>
    \/ mail[j].lease = "sender" /\ (AtWork(j) \/ sender[j].pc = "cancelled")
    \/ mail[j].lease = "watch" /\ j \in watch.job /\ WatchAtWork

LEMMA LeasedMeans ==
  /\ LeaseHasHolder <=> \A j \in Jobs : Leased(j)
  /\ LeaseHasHolder' <=> \A j \in Jobs : Leased(j)'
  BY DEF LeaseHasHolder, LeaseActive, Abandoned, Leased, AtWork, WatchAtWork

(* What writing, unlinking and archiving an envelope do to it and others.  *)
LEMMA EnvelopeChanges ==
  ASSUME TypeOK, NEW j \in Jobs
  PROVE  /\ \A lease, mark : Write(j, lease, mark) => box'[j] /\ mail'[j].lease = lease
         /\ Unlink(j) \/ Process(j) => ~box'[j]
         /\ (\E lease, mark : Write(j, lease, mark)) \/ Unlink(j) \/ Process(j) \/ UNCHANGED fileVars
              => \A i \in Jobs \ {j} : box'[i] = box[i] /\ mail'[i] = mail[i]
  BY DEF TypeOK, Write, Unlink, Process, fileVars

(* A sender keeps the lease to its last step, where it gives it back or    *)
(* the envelope is gone.                                                   *)
LEMMA SenderLease ==
  \A j \in Jobs : DeliveryInv /\ LeaseHasHolder /\ (Ask(j) \/ SenderStep(j)) => LeaseHasHolder'
<1> SUFFICES ASSUME NEW j \in Jobs, DeliveryInv, LeaseHasHolder, Ask(j) \/ SenderStep(j)
             PROVE  \A i \in Jobs : Leased(i)'
  BY LeasedMeans
<1>t. TypeOK /\ \A i \in Jobs : Leased(i)
  BY LeasedMeans DEF DeliveryInv
<1>0. UNCHANGED watch
  BY DEF Ask, SenderStep, LockTake, LockTimeout, RenewLease, Stabilise, Dispatch, Inject, UnlinkEarly,
         Verify, Recreate, LockRelease, After, Fallback
<1>p. ASSUME NEW pc, Goes(j, pc) PROVE sender'[j].pc = pc
  BY <1>p, <1>t DEF Goes, TypeOK
<1>1. \A i \in Jobs \ {j} : box'[i] = box[i] /\ mail'[i] = mail[i] /\ sender'[i] = sender[i]
  <2>1. (\E lease, mark : Write(j, lease, mark)) \/ Unlink(j) \/ UNCHANGED fileVars
    BY DEF Ask, SenderStep, LockTake, LockTimeout, RenewLease, Stabilise, Dispatch, Inject, UnlinkEarly,
           Verify, Recreate, LockRelease, After, Fallback
  <2>2. \A i \in Jobs \ {j} : sender'[i] = sender[i]
    BY <1>t DEF Ask, SenderStep, LockTake, LockTimeout, RenewLease, Stabilise, Dispatch, Inject, UnlinkEarly,
           Verify, Recreate, LockRelease, After, Fallback, Goes, TypeOK
  <2> QED  BY <1>t, <2>1, <2>2, EnvelopeChanges
<1>2. Leased(j)'
  <2> USE DEF Leased, AtWork, At
  <2>1. CASE Ask(j)
    <3>1. CASE owner \in open
      <4>1. CASE Write(j, "none", "none")
        BY <1>t, <4>1, EnvelopeChanges
      <4>2. CASE Write(j, "sender", "none") /\ sender' = [sender EXCEPT ![j].pc = "waiting", ![j].pane = owner]
        BY <1>t, <4>2, EnvelopeChanges DEF TypeOK
      <4> QED  BY <2>1, <3>1, <4>1, <4>2 DEF Ask
    <3>2. CASE owner \notin open
      BY <1>0, <1>t, <2>1, <3>2 DEF Ask, fileVars, WatchAtWork
    <3> QED  BY <3>1, <3>2
  <2>2. CASE RenewLease(j) \/ Dispatch(j) \/ Recreate(j)
    <3>1. \E mark : Write(j, "sender", mark)
      BY <2>2 DEF RenewLease, Dispatch, Recreate
    <3>2. sender'[j].pc \in {"stabilise", "inject", "release"}
      BY <1>p, <1>t, <2>2 DEF RenewLease, Dispatch, Recreate, TypeOK
    <3> QED  BY <1>t, <3>1, <3>2, EnvelopeChanges
  <2>3. CASE LockTake(j) \/ LockTimeout(j) \/ Stabilise(j) \/ Inject(j) \/ Verify(j) \/ LockRelease(j)
    <3>1. UNCHANGED fileVars
      BY <2>3 DEF LockTake, LockTimeout, Stabilise, Inject, Verify, LockRelease
    <3>2. sender'[j].pc \in {"renew", "release", "after", "dispatch", "unlink", "recreate"}
      BY <1>p, <1>t, <2>3 DEF LockTake, LockTimeout, Stabilise, Inject, Verify, LockRelease, Goes, TypeOK
    <3> QED  BY <1>0, <1>t, <3>1, <3>2 DEF fileVars, WatchAtWork
  <2>4. CASE UnlinkEarly(j)
    BY <1>t, <2>4, EnvelopeChanges DEF UnlinkEarly
  <2>5. CASE After(j)
    <3>1. CASE sender[j].ok
      BY <1>t, <2>5, <3>1, EnvelopeChanges DEF After
    <3>2. CASE ~sender[j].ok
      <4>1. UNCHANGED fileVars /\ Goes(j, IF box[j] THEN "fallback" ELSE "done")
        BY <2>5, <3>2 DEF After
      <4> QED  BY <1>0, <1>p, <1>t, <4>1 DEF fileVars, WatchAtWork
    <3> QED  BY <3>1, <3>2
  <2>6. CASE Fallback(j)
    BY <1>t, <2>6, EnvelopeChanges DEF Fallback
  <2> QED  BY <2>1, <2>2, <2>3, <2>4, <2>5, <2>6 DEF SenderStep
<1> QED  BY <1>0, <1>1, <1>2, <1>t DEF Leased, AtWork, WatchAtWork

(* The watchdog has one message at a time, and gives its lease back or     *)
(* removes the envelope before it lets go of it.                           *)
LEMMA WatchLease ==
  DeliveryInv /\ LeaseHasHolder /\ (WatchStep \/ WatchStarts \/ WatchDies) => LeaseHasHolder'
<1> SUFFICES ASSUME DeliveryInv, LeaseHasHolder, WatchStep \/ WatchStarts \/ WatchDies,
                    NEW i \in Jobs
             PROVE  Leased(i)'
  BY LeasedMeans
<1>t. TypeOK /\ Shape /\ Leased(i)
  BY LeasedMeans DEF DeliveryInv
<1> USE DEF Leased, AtWork, WatchAtWork
<1>1. UNCHANGED sender
  BY DEF WatchStep, WatchStarts, WatchDies, Scan, Wake, Pick, Recheck, WatchMark, WatchInject,
         WatchVerify, WatchReceipt, WatchFailed, WatchUnmark
<1>w. ASSUME NEW pc, WatchGoes(pc) PROVE watch'.pc = pc /\ watch'.job = watch.job
  BY <1>w, <1>t DEF WatchGoes, TypeOK
<1>2. CASE Scan \/ Wake \/ Pick \/ Recheck \/ WatchStarts
  <2>1. UNCHANGED fileVars /\ ~WatchAtWork
    BY <1>2 DEF Scan, Wake, Pick, Recheck, WatchStarts
  <2> QED  BY <1>1, <1>t, <2>1 DEF fileVars
<1>3. CASE WatchMark
  <2>1. PICK j \in watch.job : Write(j, "watch", "dispatching")
    BY <1>3 DEF WatchMark
  <2>2. j \in Jobs /\ watch.pc = "mark" /\ watch'.pc = "inject" /\ watch'.job = watch.job
    BY <1>3, <1>t, <1>w DEF WatchMark, TypeOK
  <2>3. CASE i = j
    BY <1>t, <2>1, <2>2, <2>3, EnvelopeChanges
  <2>4. CASE i # j
    <3>1. box'[i] = box[i] /\ mail'[i] = mail[i]
      BY <1>t, <2>1, <2>2, <2>4, EnvelopeChanges
    <3> QED  BY <1>1, <1>t, <2>2, <3>1
  <2> QED  BY <2>3, <2>4
<1>4. CASE WatchInject \/ WatchVerify
  <2>1. UNCHANGED fileVars /\ watch'.job = watch.job /\ watch'.pc \in {"verify", "failed", "receipt"}
        /\ WatchAtWork
    BY <1>4, <1>w DEF WatchInject, WatchVerify
  <2> QED  BY <1>1, <1>t, <2>1 DEF fileVars
<1>5. CASE WatchReceipt \/ WatchUnmark
  <2>1. PICK j \in watch.job : Process(j) \/ Write(j, "none", "uncertain")
    BY <1>5 DEF WatchReceipt, WatchUnmark
  <2>2. j \in Jobs
    BY <1>t DEF TypeOK
  <2>3. CASE i = j
    BY <1>t, <2>1, <2>2, <2>3, EnvelopeChanges
  <2>4. CASE i # j
    <3>1. box'[i] = box[i] /\ mail'[i] = mail[i] /\ i \notin watch.job
      BY <1>t, <2>1, <2>2, <2>4, EnvelopeChanges DEF Shape
    <3> QED  BY <1>1, <1>t, <3>1
  <2> QED  BY <2>3, <2>4
<1>6. CASE WatchFailed
  <2>1. UNCHANGED fileVars
    BY <1>6 DEF WatchFailed
  <2>2. CASE \A j \in watch.job : box[j]
    <3>1. watch'.pc = "unmark" /\ watch'.job = watch.job
      BY <1>6, <1>w, <2>2 DEF WatchFailed
    <3> QED  BY <1>1, <1>t, <2>1, <3>1 DEF fileVars
  <2>3. CASE ~\A j \in watch.job : box[j]
    <3>1. i \in watch.job => ~box[i]
      BY <1>t, <2>3 DEF Shape
    <3> QED  BY <1>1, <1>t, <2>1, <3>1 DEF fileVars
  <2> QED  BY <2>2, <2>3
<1>7. CASE WatchDies
  <2>1. UNCHANGED box /\ mail'[i].lease # "watch" /\ mail'[i].lease \in {mail[i].lease, "none"}
    BY <1>7, <1>t DEF WatchDies, Dies, Unleased, TypeOK
  <2> QED  BY <1>1, <1>t, <2>1
<1> QED  BY <1>2, <1>3, <1>4, <1>5, <1>6, <1>7 DEF WatchStep

(* Hooks, receivers and users take mail away; time, and the death of a     *)
(* sender, end leases.                                                     *)
LEMMA OthersLease ==
  DeliveryInv /\ LeaseHasHolder
    /\ (\/ HookStep \/ (\E stop \in BOOLEAN : HookStart(stop))
        \/ ScreenChanges \/ HookDies
        \/ (\E p \in Panes : Register(p) \/ PaneCloses(p))
        \/ (\E j \in Jobs : Acknowledge(j) \/ UserEnters(j) \/ SenderDies(j))
        \/ \E j \in Jobs : Cancelled(j) \/ LeaseLapses(j) \/ LeaseExpires(j))
   => LeaseHasHolder'
<1> SUFFICES ASSUME DeliveryInv, LeaseHasHolder, NEW i \in Jobs,
                    \/ HookStep \/ (\E stop \in BOOLEAN : HookStart(stop))
                    \/ ScreenChanges \/ HookDies
                    \/ (\E p \in Panes : Register(p) \/ PaneCloses(p))
                    \/ (\E j \in Jobs : Acknowledge(j) \/ UserEnters(j) \/ SenderDies(j))
                    \/ \E j \in Jobs : Cancelled(j) \/ LeaseLapses(j) \/ LeaseExpires(j)
             PROVE  Leased(i)'
  BY LeasedMeans
<1>t. TypeOK /\ Leased(i)
  BY LeasedMeans DEF DeliveryInv
<1> USE DEF Leased, AtWork, WatchAtWork
<1>1. ASSUME UNCHANGED <<box, mail, sender, watch>> PROVE Leased(i)'
  BY <1>1, <1>t
<1>2. CASE (\E stop \in BOOLEAN : HookStart(stop)) \/ HookPrint \/ ScreenChanges \/ HookDies
           \/ (\E p \in Panes : Register(p) \/ PaneCloses(p)) \/ \E j \in Jobs : UserEnters(j)
  BY <1>1, <1>2 DEF HookStart, HookPrint, ScreenChanges, HookDies, Dies, Register, PaneCloses,
                    UserEnters, fileVars
<1>3. ASSUME NEW j \in Jobs, HookMove(j) \/ Acknowledge(j) PROVE Leased(i)'
  <2>1. Unlink(j) \/ Process(j)
    BY <1>3 DEF HookMove, Acknowledge
  <2>2. UNCHANGED <<sender, watch>>
    BY <1>3 DEF HookMove, Acknowledge
  <2> QED  BY <1>t, <2>1, <2>2, EnvelopeChanges
<1>4. ASSUME NEW j \in Jobs, LeaseExpires(j) PROVE Leased(i)'
  <2>1. UNCHANGED <<box, sender, watch>> /\ mail'[i].lease \in {mail[i].lease, "none"}
    BY <1>4, <1>t DEF LeaseExpires, TypeOK
  <2> QED  BY <1>t, <2>1
<1>5. ASSUME NEW j \in Jobs, SenderDies(j) PROVE Leased(i)'
  <2>1. UNCHANGED <<box, watch>> /\ \A k \in Jobs \ {j} : mail'[k] = mail[k] /\ sender'[k] = sender[k]
    BY <1>5, <1>t DEF SenderDies, Dies, Goes, TypeOK
  <2>2. mail'[j].lease = IF mail[j].lease = "sender" THEN "none" ELSE mail[j].lease
    BY <1>5, <1>t DEF SenderDies, TypeOK
  <2> QED  BY <1>t, <2>1, <2>2
<1>6. ASSUME NEW j \in Jobs, Cancelled(j) PROVE Leased(i)'
  <2>1. UNCHANGED <<box, mail, watch>> /\ sender'[j].pc = "cancelled"
        /\ \A k \in Jobs \ {j} : sender'[k] = sender[k]
    BY <1>6, <1>t DEF Cancelled, Goes, fileVars, TypeOK
  <2> QED  BY <1>t, <2>1
<1>7. ASSUME NEW j \in Jobs, LeaseLapses(j) PROVE Leased(i)'
  <2>1. UNCHANGED <<box, sender, watch>> /\ mail'[i].lease \in {mail[i].lease, "none"}
    BY <1>7, <1>t DEF LeaseLapses, TypeOK
  <2> QED  BY <1>t, <2>1
<1> QED  BY <1>2, <1>3, <1>4, <1>5, <1>6, <1>7 DEF HookStep

(* A lease in the inbox is in the hands of the sender or the watchdog that *)
(* took it, and it has steps to go with it, unless the tool call was       *)
(* cancelled.                                                              *)
THEOREM LeasesHaveHolders == Spec => []LeaseHasHolder
<1>1. Init => LeaseHasHolder
  BY DEF Init, LeaseHasHolder
<1>2. DeliveryInv /\ LeaseHasHolder /\ [Next]_vars => LeaseHasHolder'
  <2> SUFFICES ASSUME DeliveryInv, LeaseHasHolder, [Next]_vars PROVE LeaseHasHolder'
    OBVIOUS
  <2>1. CASE UNCHANGED vars
    BY <2>1 DEF vars, fileVars, LeaseHasHolder, LeaseActive, Abandoned
  <2>2. CASE Next
    BY <2>2, SenderLease, WatchLease, OthersLease DEF Next, Environment
  <2> QED  BY <2>1, <2>2
<1> QED  BY <1>1, <1>2, DeliveryInvariant, PTL DEF Spec
=============================================================================
