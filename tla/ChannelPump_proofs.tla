------------------------- MODULE ChannelPump_proofs -------------------------
(***************************************************************************)
(* TLAPS proofs about ChannelPump, for any number of messages, sessions    *)
(* and connections:                                                        *)
(*                                                                         *)
(*   MarkInv    what a pump knows of its message's events and mark; with   *)
(*              any overlap of connections                                 *)
(*   WriteInv   a pump that writes an envelope has it and both its locks,  *)
(*              or lost them when the mailbox was renamed; who             *)
(*              acknowledges one that is still there has its lock          *)
(*   AloneInv   of two connections that are alive together one was started *)
(*              beside the other; for two that were not, a message about   *)
(*              to become an event of one has been one of neither          *)
(***************************************************************************)
EXTENDS ChannelPump, TLAPS

USE ChannelAssumption

-----------------------------------------------------------------------------
(* The inductive invariants.                                               *)

Updating(p) == pump[p].pc \in {"update", "write"}

(* p has the message at hand and has not sent it yet.                      *)
BeforeEvent(p) ==
    \/ pump[p].pc \in {"check", "notify"}
    \/ Updating(p) /\ pump[p].mark = "dispatching"

PumpKnows(p, j) ==
    /\ BeforeEvent(p) => events[j][p] = 0
    /\ pump[p].pc = "notify" => mail[j] \in HandedOver
    /\ Updating(p) /\ pump[p].mark = "sent" => events[j][p] > 0

MarkInv ==
    /\ TypeOK
    /\ \A j \in Jobs, p \in Pumps : events[j][p] > 0 => mail[j] \in HandedOver
    /\ \A j \in Jobs : mail[j] = "sent" => \E p \in Pumps : events[j][p] > 0
    /\ \A j \in Jobs, p \in Pumps : events[j][p] <= 1
    /\ \A p \in Pumps : Updating(p) => pump[p].mark \in HandedOver
    /\ \A p \in Pumps : \A i, j \in pump[p].job : i = j
    /\ \A p \in Pumps : \A j \in pump[p].job : PumpKnows(p, j)

WriteInv ==
    /\ TypeOK
    /\ \A p \in Pumps, j \in Jobs \ orphaned : Writing(p, j) =>
          box[j] = "inbox" /\ receiptLock[j] = "pump" /\ sendLock = p
    /\ \A j \in acks \ orphaned : receiptLock[j] = "ack" \/ box[j] # "inbox"
    /\ \A j \in acks \cup handled : box[j] # "unsent"

Alone(p, q) == ~pump[p].beside /\ ~pump[q].beside

AloneInv ==
    /\ MarkInv
    /\ \A p \in Pumps : pump[p].pc = "new" => ~pump[p].beside
    /\ \A p, q \in Pumps : Live(p) /\ Live(q) /\ Alone(p, q) => p = q
    /\ \A p, q \in Pumps : BeforeEvent(p) /\ Alone(p, q) =>
          \A j \in pump[p].job : events[j][q] = 0
    /\ AtMostOneEvent

-----------------------------------------------------------------------------
(* Types.                                                                  *)

(* The three ways a pump's record changes.                                 *)
LEMMA PumpFields ==
    ASSUME TypeOK, NEW p \in Pumps
    PROVE  /\ pump[p] \in PumpStates
           /\ \A pc \in PumpPCs : [pump EXCEPT ![p].pc = pc] \in [Pumps -> PumpStates]
           /\ \A pc \in PumpPCs, mark \in Marks :
                 [pump EXCEPT ![p].pc = pc, ![p].mark = mark] \in [Pumps -> PumpStates]
           /\ \A pc \in PumpPCs, ready \in BOOLEAN :
                 [pump EXCEPT ![p].pc = pc, ![p].ready = ready] \in [Pumps -> PumpStates]
           /\ \A ready \in BOOLEAN : [pump EXCEPT ![p].ready = ready] \in [Pumps -> PumpStates]
<1>1. pump \in [Pumps -> PumpStates]
  BY DEF TypeOK
<1>2. pump[p] \in PumpStates
  BY <1>1
<1>3. ASSUME NEW pc \in PumpPCs
      PROVE  [pump EXCEPT ![p].pc = pc] \in [Pumps -> PumpStates]
  <2>1. [pump[p] EXCEPT !.pc = pc] \in PumpStates
    BY <1>2 DEF PumpStates
  <2>2. QED
    BY <1>1, <2>1
<1>4. ASSUME NEW pc \in PumpPCs, NEW mark \in Marks
      PROVE  [pump EXCEPT ![p].pc = pc, ![p].mark = mark] \in [Pumps -> PumpStates]
  <2>1. [pump[p] EXCEPT !.pc = pc, !.mark = mark] \in PumpStates
    BY <1>2 DEF PumpStates
  <2>2. QED
    BY <1>1, <2>1
<1>5. ASSUME NEW pc \in PumpPCs, NEW ready \in BOOLEAN
      PROVE  [pump EXCEPT ![p].pc = pc, ![p].ready = ready] \in [Pumps -> PumpStates]
  <2>1. [pump[p] EXCEPT !.pc = pc, !.ready = ready] \in PumpStates
    BY <1>2 DEF PumpStates
  <2>2. QED
    BY <1>1, <2>1
<1>6. ASSUME NEW ready \in BOOLEAN
      PROVE  [pump EXCEPT ![p].ready = ready] \in [Pumps -> PumpStates]
  <2>1. [pump[p] EXCEPT !.ready = ready] \in PumpStates
    BY <1>2 DEF PumpStates
  <2>2. QED
    BY <1>1, <2>1
<1>7. QED
  BY <1>2, <1>3, <1>4, <1>5, <1>6

LEMMA PumpTypeStep ==
    ASSUME TypeOK, NEW p \in Pumps, PumpStep(p)
    PROVE  pump' \in [Pumps -> PumpStates]
<1>1. ASSUME NEW pc \in PumpPCs, Goes(p, pc) PROVE pump' \in [Pumps -> PumpStates]
  BY <1>1, PumpFields DEF Goes
<1>2. /\ pump \in [Pumps -> PumpStates]
      /\ pump[p] \in PumpStates
  BY PumpFields DEF TypeOK
<1>3. CASE Start(p) \/ Connect(p) \/ Greet(p)
  <2>1. CASE Start(p)
    <3>1. ASSUME NEW s \in SomeSession
          PROVE  [pump[p] EXCEPT !.pc = "connect", !.session = s,
                                 !.beside = \E q \in Pumps : Live(q)] \in PumpStates
      BY <1>2 DEF PumpStates, PumpPCs
    <3>2. PICK s \in SomeSession :
             pump' = [pump EXCEPT ![p].pc = "connect", ![p].session = s,
                                  ![p].beside = \E q \in Pumps : Live(q)]
      BY <2>1 DEF Start, TypeOK, Records
    <3>3. QED
      BY <1>2, <3>1, <3>2
  <2>2. CASE Connect(p) \/ Greet(p)
    BY <1>1, <2>2 DEF Connect, Greet, PumpPCs
  <2>3. QED
    BY <1>3, <2>1, <2>2
<1>4. CASE Confirm(p)
  BY <1>4, PumpFields DEF Confirm
<1>5. CASE Loop(p) \/ Beat(p) \/ UpdateSkipped(p)
  <2>1. /\ "closing" \in PumpPCs /\ "each" \in PumpPCs
        /\ "beat" \in PumpPCs /\ "scan" \in PumpPCs /\ "loop" \in PumpPCs
    BY DEF PumpPCs
  <2>2. CASE Loop(p)
    BY <1>1, <2>1, <2>2 DEF Loop
  <2>3. CASE Beat(p)
    BY <1>1, <2>1, <2>3 DEF Beat
  <2>4. CASE UpdateSkipped(p)
    BY <1>1, <2>1, <2>4 DEF UpdateSkipped
  <2>5. QED
    BY <1>5, <2>2, <2>3, <2>4
<1>6. CASE Close(p)
  <2>1. PICK pc \in PumpPCs : pump' = [pump EXCEPT ![p].pc = pc, ![p].ready = FALSE]
    BY <1>2, <1>6 DEF Close, PumpPCs
  <2>2. QED
    BY <2>1, PumpFields
<1>7. CASE Scan(p)
  <2>1. [pump[p] EXCEPT !.pc = "each", !.todo = {j \in Jobs : box[j] = "inbox"}] \in PumpStates
    BY <1>2 DEF PumpStates, PumpPCs
  <2>2. [pump[p] EXCEPT !.pc = "loop"] \in PumpStates
    BY <1>2 DEF PumpStates, PumpPCs
  <2>3. QED
    BY <1>2, <1>7, <2>1, <2>2 DEF Scan
<1>8. CASE NextPath(p)
  <2>1. ASSUME NEW j \in pump[p].todo
        PROVE  [pump[p] EXCEPT !.pc = "read", !.job = {j}, !.todo = pump[p].todo \ {j}] \in PumpStates
    BY <1>2 DEF PumpStates, PumpPCs
  <2>2. "loop" \in PumpPCs
    BY DEF PumpPCs
  <2>3. QED
    BY <1>1, <1>2, <1>8, <2>1, <2>2 DEF NextPath
<1>9. CASE Read(p)
  <2>1. "check" \in PumpPCs /\ "each" \in PumpPCs
    BY DEF PumpPCs
  <2>2. QED
    BY <1>1, <1>9, <2>1 DEF Read
<1>10. CASE Check(p)
  <2>1. /\ "update" \in PumpPCs /\ "each" \in PumpPCs
        /\ "dispatching" \in Marks /\ "failed" \in Marks
    BY DEF PumpPCs, Marks
  <2>2. /\ [pump EXCEPT ![p].pc = "update", ![p].mark = "dispatching"] \in [Pumps -> PumpStates]
        /\ [pump EXCEPT ![p].pc = "update", ![p].mark = "failed"] \in [Pumps -> PumpStates]
        /\ [pump EXCEPT ![p].pc = "each"] \in [Pumps -> PumpStates]
    BY <2>1, PumpFields
  <2>3. QED
    BY <1>10, <2>2 DEF Check
<1>11. CASE UpdateBegin(p)
  BY <1>1, <1>11 DEF UpdateBegin, PumpPCs
<1>12. CASE UpdateWrite(p)
  <2>1. PICK pc \in PumpPCs : Goes(p, pc)
    BY <1>12 DEF UpdateWrite, PumpPCs
  <2>2. QED
    BY <1>1, <2>1
<1>13. CASE Notify(p) \/ NotifyRaises(p)
  <2>1. "update" \in PumpPCs /\ "sent" \in Marks /\ "uncertain" \in Marks
    BY DEF PumpPCs, Marks
  <2>2. PICK mark \in Marks : pump' = [pump EXCEPT ![p].pc = "update", ![p].mark = mark]
    BY <1>13, <2>1 DEF Notify, NotifyRaises
  <2>3. QED
    BY <2>1, <2>2, PumpFields
<1>14. CASE Cancel(p)
  <2>1. PICK pc \in PumpPCs : Goes(p, pc)
    BY <1>14 DEF Cancel, PumpPCs
  <2>2. QED
    BY <1>1, <2>1
<1>15. CASE Killed(p)
  BY <1>15, PumpFields DEF Killed, PumpPCs
<1>16. QED
  BY <1>3, <1>4, <1>5, <1>6, <1>7, <1>8, <1>9, <1>10, <1>11, <1>12, <1>13, <1>14, <1>15
  DEF PumpStep

LEMMA RecordTypeStep ==
    ASSUME TypeOK, NEW p \in Pumps, PumpStep(p)
    PROVE  record' \in Records /\ registrations' \in Nat
<1>1. record \in Records /\ registrations \in Nat
  BY DEF TypeOK
<1>2. \A state \in ChannelStates : StateWritten(p, state) => record' \in Records
  BY <1>1 DEF StateWritten, Records
<1>3. CASE Start(p)
  BY <1>1, <1>3 DEF Start, Unchannelled, Records, ChannelStates, SomeSession
<1>4. CASE Connect(p)
  BY <1>1, <1>4 DEF Connect, Records, ChannelStates
<1>5. CASE Confirm(p) \/ Close(p)
  BY <1>1, <1>2, <1>5 DEF Confirm, Close, ChannelStates
<1>6. CASE Beat(p)
  BY <1>1, <1>2, <1>6 DEF Beat, ChannelStates
<1>7. CASE Greet(p) \/ Loop(p) \/ Scan(p) \/ NextPath(p) \/ Read(p) \/ Check(p)
  BY <1>1, <1>7 DEF Greet, Loop, Scan, NextPath, Read, Check, registryVars
<1>8. CASE UpdateSkipped(p) \/ UpdateBegin(p) \/ UpdateWrite(p)
  BY <1>1, <1>8 DEF UpdateSkipped, UpdateBegin, UpdateWrite, registryVars
<1>9. CASE Notify(p) \/ NotifyRaises(p) \/ Cancel(p) \/ Killed(p)
  BY <1>1, <1>9 DEF Notify, NotifyRaises, Cancel, Killed, registryVars
<1>10. QED
  BY <1>3, <1>4, <1>5, <1>6, <1>7, <1>8, <1>9 DEF PumpStep

(* The steps of a pump that write no envelope, take no lock and send       *)
(* nothing.                                                                *)
Quiet(p) ==
    \/ Start(p) \/ Connect(p) \/ Greet(p) \/ Confirm(p) \/ Loop(p) \/ Beat(p) \/ Close(p)
    \/ Scan(p) \/ NextPath(p) \/ Read(p) \/ Check(p) \/ UpdateSkipped(p)

LEMMA QuietStep ==
    ASSUME NEW p \in Pumps, Quiet(p)
    PROVE  UNCHANGED <<box, recipient, mail, sendLock, receiptLock, ackVars, events, stops>>
<1> USE DEF mailVars, lockVars
<1>1. CASE Start(p) \/ Connect(p) \/ Greet(p) \/ Confirm(p) \/ Loop(p) \/ Beat(p)
  BY <1>1 DEF Start, Connect, Greet, Confirm, Loop, Beat
<1>2. CASE Close(p) \/ Scan(p) \/ NextPath(p) \/ Read(p) \/ Check(p) \/ UpdateSkipped(p)
  BY <1>2 DEF Close, Scan, NextPath, Read, Check, UpdateSkipped
<1>3. QED
  BY <1>1, <1>2 DEF Quiet

LEMMA TypeStep == ASSUME TypeOK, [Next]_vars PROVE TypeOK'
<1>1. CASE UNCHANGED vars
  BY <1>1 DEF TypeOK, vars, registryVars, mailVars, lockVars, ackVars
<1>2. CASE MailboxStep
  <2> USE DEF TypeOK, Records, ChannelStates, Unchannelled, SomeSession
  <2>1. CASE Unregister
    <3>1. record' \in Records
      BY <2>1 DEF Unregister
    <3>2. /\ box' \in [Jobs -> {"unsent", "inbox", "done", "archived"}]
          /\ sendLock' \in Pumps \cup {NoPump}
          /\ receiptLock' \in [Jobs -> {"free", "ack", "pump"}]
          /\ orphaned' \in SUBSET Jobs
      BY <2>1 DEF Unregister, lockVars
    <3>3. UNCHANGED <<registrations, recipient, mail, acks, handled, pump, events, stops>>
      BY <2>1 DEF Unregister
    <3>4. QED
      BY <3>1, <3>2, <3>3
  <2>2. CASE \E s \in Sessions : Register(s)
    <3>1. PICK s \in Sessions : Register(s)
      BY <2>2
    <3>2. record' \in Records
      BY <3>1 DEF Register
    <3>3. QED
      BY <3>1, <3>2 DEF Register, mailVars, lockVars, ackVars
  <2>3. CASE \E j \in Jobs : Ask(j)
    BY <2>3 DEF Ask, registryVars, lockVars, ackVars
  <2>4. CASE \E j \in Jobs : AckBegin(j) \/ AckEnd(j) \/ AckStops(j)
    <3>1. PICK j \in Jobs : AckBegin(j) \/ AckEnd(j) \/ AckStops(j)
      BY <2>4
    <3>2. UNCHANGED <<record, registrations, recipient, mail, sendLock, orphaned, pump, events, stops>>
      BY <3>1 DEF AckBegin, AckEnd, AckStops, registryVars, mailVars
    <3>3. /\ acks' \in SUBSET Jobs /\ handled' \in SUBSET Jobs
          /\ receiptLock' \in [Jobs -> {"free", "ack", "pump"}]
      BY <3>1 DEF AckBegin, AckEnd, AckStops, AckUnlocks
    <3>4. box' \in [Jobs -> {"unsent", "inbox", "done", "archived"}]
      BY <3>1 DEF AckBegin, AckEnd, AckStops, mailVars
    <3>5. QED
      BY <3>2, <3>3, <3>4
  <2>5. QED
    BY <1>2, <2>1, <2>2, <2>3, <2>4 DEF MailboxStep
<1>3. ASSUME NEW p \in Pumps, PumpStep(p) PROVE TypeOK'
  <2>1. pump' \in [Pumps -> PumpStates] /\ record' \in Records /\ registrations' \in Nat
    BY <1>3, PumpTypeStep, RecordTypeStep
  <2>2. /\ box' \in [Jobs -> {"unsent", "inbox", "done", "archived"}]
        /\ recipient' \in [Jobs -> Sessions \cup {NoSession}]
        /\ mail' \in [Jobs -> Marks]
        /\ sendLock' \in Pumps \cup {NoPump}
        /\ receiptLock' \in [Jobs -> {"free", "ack", "pump"}]
        /\ acks' \in SUBSET Jobs /\ handled' \in SUBSET Jobs /\ orphaned' \in SUBSET Jobs
        /\ events' \in [Jobs -> [Pumps -> Nat]]
        /\ stops' \in Nat
    <3> USE DEF ackVars
    <3>1. CASE Quiet(p)
      BY <3>1, QuietStep DEF TypeOK
    <3>2. CASE UpdateBegin(p)
      BY <3>2 DEF UpdateBegin, TypeOK, mailVars
    <3>3. CASE UpdateWrite(p)
      <4>1. pump[p].mark \in Marks
        BY PumpFields DEF PumpStates, PumpPCs, Marks
      <4>2. QED
        BY <3>3, <4>1 DEF UpdateWrite, LocksReleased, TypeOK
    <3>4. ASSUME Happens(p) PROVE events' \in [Jobs -> [Pumps -> Nat]]
      BY <3>4 DEF Happens, TypeOK
    <3>5. CASE Notify(p) \/ NotifyRaises(p) \/ Cancel(p)
      <4>1. UNCHANGED <<mailVars, lockVars, ackVars>> /\ stops' \in Nat
        BY <3>5 DEF Notify, NotifyRaises, Cancel, TypeOK
      <4>2. Happens(p) \/ UNCHANGED events
        BY <3>5 DEF Notify, NotifyRaises, Cancel
      <4>3. QED
        BY <3>4, <4>1, <4>2 DEF TypeOK, mailVars, lockVars
    <3>6. CASE Killed(p)
      BY <3>4, <3>6 DEF Killed, LocksReleased, TypeOK, mailVars, lockVars
    <3>7. QED
      BY <1>3, <3>1, <3>2, <3>3, <3>5, <3>6 DEF PumpStep, Quiet
  <2>3. QED
    BY <2>1, <2>2 DEF TypeOK
<1>4. QED
  BY <1>1, <1>2, <1>3 DEF Next

(* Every variable holds what the code can put there.                       *)
THEOREM ChannelTypeCorrect == Spec => []TypeOK
<1>1. Init => TypeOK
  BY DEF Init, TypeOK, Records, ChannelStates, SomeSession, Marks, NewPump, PumpStates, PumpPCs
<1>2. TypeOK /\ [Next]_vars => TypeOK'
  BY TypeStep
<1>3. QED
  BY <1>1, <1>2, PTL DEF Spec

-----------------------------------------------------------------------------
(* Marks and events.                                                       *)

LEMMA MailboxKeeps ==
    ASSUME MailboxStep
    PROVE  UNCHANGED <<mail, pump, events>>
<1>1. CASE Unregister \/ \E s \in Sessions : Register(s)
  BY <1>1 DEF Unregister, Register, mailVars
<1>2. CASE \E j \in Jobs : Ask(j) \/ AckBegin(j) \/ AckEnd(j) \/ AckStops(j)
  BY <1>2 DEF Ask, AckBegin, AckEnd, AckStops, mailVars
<1>3. QED
  BY <1>1, <1>2 DEF MailboxStep

(* A step of p leaves the other pumps alone.                               *)
LEMMA OthersKeep ==
    ASSUME TypeOK, NEW p \in Pumps, PumpStep(p), NEW q \in Pumps, q # p
    PROVE  pump'[q] = pump[q]
<1>1. pump \in [Pumps -> PumpStates]
  BY DEF TypeOK
<1>2. CASE Start(p) \/ Connect(p) \/ Greet(p) \/ Confirm(p) \/ Loop(p) \/ Beat(p) \/ Close(p)
  BY <1>1, <1>2 DEF Start, Connect, Greet, Confirm, Loop, Beat, Close, Goes
<1>3. CASE Scan(p) \/ NextPath(p) \/ Read(p) \/ Check(p) \/ UpdateSkipped(p)
  BY <1>1, <1>3 DEF Scan, NextPath, Read, Check, UpdateSkipped, Goes
<1>4. CASE UpdateBegin(p) \/ UpdateWrite(p) \/ Notify(p) \/ NotifyRaises(p) \/ Cancel(p) \/ Killed(p)
  BY <1>1, <1>4 DEF UpdateBegin, UpdateWrite, Notify, NotifyRaises, Cancel, Killed, Goes
<1>5. QED
  BY <1>2, <1>3, <1>4 DEF PumpStep

(* Where a step of p may leave p with a message at hand.                   *)
LEMMA QuietPump ==
    ASSUME TypeOK, NEW p \in Pumps, Quiet(p), ~Read(p), ~Check(p)
    PROVE  \/ pump'[p].pc \notin {"check", "update", "write", "notify"}
              /\ \A i, j \in pump'[p].job : i = j \/ {i, j} \subseteq pump[p].job
           \/ UNCHANGED <<pump[p].pc, pump[p].job, pump[p].mark>>
<1>1. pump \in [Pumps -> PumpStates] /\ pump[p] \in PumpStates
  BY DEF TypeOK
<1> USE <1>1 DEF PumpStates
<1>2. CASE Start(p) \/ Connect(p) \/ Greet(p) \/ Loop(p) \/ Beat(p)
  BY <1>2 DEF Start, Connect, Greet, Loop, Beat, Goes
<1>3. CASE Confirm(p)
  BY <1>3 DEF Confirm
<1>4. CASE Close(p)
  BY <1>4 DEF Close
<1>5. CASE Scan(p)
  BY <1>5 DEF Scan
<1>6. CASE NextPath(p)
  <2>1. CASE Goes(p, "loop")
    BY <2>1 DEF Goes
  <2>2. CASE \E j \in pump[p].todo :
               pump' = [pump EXCEPT ![p].pc = "read", ![p].job = {j}, ![p].todo = @ \ {j}]
    BY <2>2
  <2>3. QED
    BY <1>6, <2>1, <2>2 DEF NextPath
<1>7. CASE UpdateSkipped(p)
  BY <1>7 DEF UpdateSkipped, Goes
<1>8. QED
  BY <1>2, <1>3, <1>4, <1>5, <1>6, <1>7 DEF Quiet

(* What q knows survives a step that leaves q alone and unmarks nothing.   *)
LEMMA KnowsKept ==
    ASSUME NEW q \in Pumps, NEW j \in pump[q].job, PumpKnows(q, j),
           UNCHANGED <<pump[q].pc, pump[q].mark, events[j][q]>>,
           mail[j] \in HandedOver => mail'[j] \in HandedOver
    PROVE  PumpKnows(q, j)'
  BY DEF PumpKnows, BeforeEvent, Updating

LEMMA MarkStep == ASSUME MarkInv, [Next]_vars PROVE MarkInv'
<1>0. TypeOK /\ TypeOK'
  BY TypeStep DEF MarkInv
<1>1. CASE UNCHANGED vars \/ MailboxStep
  <2>1. UNCHANGED <<mail, pump, events>>
    BY <1>1, MailboxKeeps DEF vars, mailVars
  <2>2. QED
    BY <1>0, <2>1 DEF MarkInv, PumpKnows, BeforeEvent, Updating
<1>2. ASSUME NEW p \in Pumps, PumpStep(p) PROVE MarkInv'
  <2>0. /\ pump[p] \in PumpStates
        /\ pump \in [Pumps -> PumpStates] /\ mail \in [Jobs -> Marks]
        /\ events \in [Jobs -> [Pumps -> Nat]]
    BY <1>0 DEF TypeOK
  <2>1. \A q \in Pumps \ {p} : pump'[q] = pump[q]
    BY <1>0, <1>2, OthersKeep
  <2>2. SUFFICES /\ \A j \in Jobs : mail[j] \in HandedOver => mail'[j] \in HandedOver
                 /\ \A j \in Jobs, q \in Pumps : q # p => events'[j][q] = events[j][q]
                 /\ \A j \in Jobs : events'[j][p] > 0 => mail'[j] \in HandedOver
                 /\ \A j \in Jobs : events'[j][p] >= events[j][p] /\ events'[j][p] <= 1
                 /\ \A j \in Jobs : mail'[j] = "sent" => mail[j] = "sent" \/ events'[j][p] > 0
                 /\ Updating(p)' => pump'[p].mark \in HandedOver
                 /\ \A i, j \in pump'[p].job : i = j
                 /\ \A j \in pump'[p].job : PumpKnows(p, j)'
    <3>1. \A q \in Pumps : Updating(q)' => pump'[q].mark \in HandedOver
      BY <2>1, <2>2 DEF Updating, MarkInv
    <3>2. ASSUME NEW q \in Pumps, NEW j \in pump'[q].job PROVE PumpKnows(q, j)'
      <4>1. CASE q = p
        BY <2>2, <4>1, <3>2
      <4>2. CASE q # p
        <5>1. j \in pump[q].job /\ j \in Jobs
          BY <2>0, <2>1, <3>2, <4>2 DEF PumpStates
        <5>2. PumpKnows(q, j)
          BY <5>1 DEF MarkInv
        <5>3. QED
          BY <2>1, <2>2, <4>2, <5>1, <5>2, KnowsKept
      <4>3. QED
        BY <4>1, <4>2
    <3>3. \A q \in Pumps : \A i, j \in pump'[q].job : i = j
      BY <2>1, <2>2 DEF MarkInv
    <3>4. \A j \in Jobs : mail'[j] = "sent" => \E q \in Pumps : events'[j][q] > 0
      <4>1. TAKE j \in Jobs
      <4>2. HAVE mail'[j] = "sent"
      <4>3. CASE events'[j][p] > 0
        BY <4>3
      <4>4. CASE mail[j] = "sent"
        <5>1. PICK q \in Pumps : events[j][q] > 0
          BY <4>4 DEF MarkInv
        <5>2. events'[j][q] > 0
          <6>1. events[j][q] \in Nat /\ events'[j][q] \in Nat
            BY <1>0 DEF TypeOK
          <6>2. QED
            BY <2>2, <5>1, <6>1
        <5>3. QED
          BY <5>2
      <4>5. QED
        BY <2>2, <4>2, <4>3, <4>4
    <3>5. \A j \in Jobs, q \in Pumps :
             (events'[j][q] > 0 => mail'[j] \in HandedOver) /\ events'[j][q] <= 1
      BY <2>2 DEF MarkInv
    <3>6. QED
      BY <1>0, <3>1, <3>2, <3>3, <3>4, <3>5 DEF MarkInv
  <2>3. ASSUME NEW j \in Jobs
        PROVE  events[j][p] \in Nat /\ events[j][p] <= 1 /\ (events[j][p] > 0 => mail[j] \in HandedOver)
    BY <2>0 DEF MarkInv
  <2>4. \A i, j \in pump[p].job : i = j
    BY DEF MarkInv
  <2>5. pump[p].job \subseteq Jobs
    BY <2>0 DEF PumpStates
  <2>6. \A j \in pump[p].job : PumpKnows(p, j)
    BY DEF MarkInv
  <2>7. Updating(p) => pump[p].mark \in HandedOver
    BY DEF MarkInv
  <2>8. CASE Quiet(p)
    <3>1. UNCHANGED <<mail, events>>
      BY <2>8, QuietStep
    <3>2. CASE ~Read(p) /\ ~Check(p)
      <4>1. CASE UNCHANGED <<pump[p].pc, pump[p].job, pump[p].mark>>
        BY <2>3, <2>4, <2>5, <2>6, <2>7, <3>1, <4>1 DEF PumpKnows, BeforeEvent, Updating
      <4>2. CASE /\ pump'[p].pc \notin {"check", "update", "write", "notify"}
                 /\ \A i, j \in pump'[p].job : i = j \/ {i, j} \subseteq pump[p].job
        BY <2>3, <2>4, <3>1, <4>2 DEF PumpKnows, BeforeEvent, Updating
      <4>3. QED
        BY <1>0, <2>8, <3>2, <4>1, <4>2, QuietPump
    <3>3. CASE Read(p)
      <4>1. PICK j \in pump[p].job :
               Goes(p, IF box[j] = "inbox" /\ mail[j] \notin HandedOver THEN "check" ELSE "each")
        BY <3>3 DEF Read
      <4>2. /\ pump'[p].pc = IF box[j] = "inbox" /\ mail[j] \notin HandedOver THEN "check" ELSE "each"
            /\ pump'[p].job = pump[p].job
        BY <2>0, <4>1 DEF Goes, PumpStates
      <4>3. pump'[p].pc = "check" => events[j][p] = 0
        BY <2>3, <2>5, <4>2
      <4>4. QED
        BY <2>3, <2>4, <3>1, <4>2, <4>3 DEF PumpKnows, BeforeEvent, Updating
    <3>4. CASE Check(p)
      <4>1. \A j \in pump[p].job : events[j][p] = 0
        BY <2>6, <3>4 DEF Check, PumpKnows, BeforeEvent
      <4>2. /\ pump'[p].job = pump[p].job
            /\ \/ pump'[p].pc = "update" /\ pump'[p].mark \in {"dispatching", "failed"}
               \/ pump'[p].pc = "each"
        BY <2>0, <3>4 DEF Check, PumpStates
      <4>3. QED
        BY <2>3, <2>4, <3>1, <4>1, <4>2 DEF PumpKnows, BeforeEvent, Updating, HandedOver
    <3>5. QED
      BY <3>2, <3>3, <3>4
  <2>9. CASE UpdateBegin(p)
    <3>1. UNCHANGED <<mail, events>>
      BY <2>9 DEF UpdateBegin, mailVars
    <3>2. pump[p].pc = "update" /\ pump'[p] = [pump[p] EXCEPT !.pc = "write"]
      BY <2>0, <2>9 DEF UpdateBegin, Goes
    <3>3. QED
      BY <2>0, <2>3, <2>4, <2>6, <2>7, <3>1, <3>2 DEF PumpKnows, BeforeEvent, Updating, PumpStates
  <2>10. CASE UpdateWrite(p)
    <3>1. /\ pump[p].pc = "write" /\ UNCHANGED events
          /\ mail' = [j \in Jobs |-> IF j \in pump[p].job THEN pump[p].mark ELSE mail[j]]
      BY <2>10 DEF UpdateWrite
    <3>2. /\ pump'[p].job = pump[p].job
          /\ pump'[p].pc \in {"notify", "closing", "each"}
          /\ pump'[p].pc = "notify" => pump[p].mark = "dispatching"
      BY <2>0, <2>10 DEF UpdateWrite, Goes, PumpStates
    <3>3. pump[p].mark \in HandedOver
      BY <2>7, <3>1 DEF Updating
    <3>4. ASSUME NEW j \in pump[p].job
          PROVE  /\ pump[p].mark = "dispatching" => events[j][p] = 0
                 /\ pump[p].mark = "sent" => events[j][p] > 0
      BY <2>6, <3>1 DEF PumpKnows, BeforeEvent, Updating
    <3>5. \A j \in pump'[p].job : PumpKnows(p, j)'
      BY <2>5, <3>1, <3>2, <3>3, <3>4 DEF PumpKnows, BeforeEvent, Updating
    <3>6. QED
      BY <2>3, <2>4, <3>1, <3>2, <3>3, <3>4, <3>5 DEF Updating
  <2>11. ASSUME Happens(p), pump[p].pc = "notify"
         PROVE  /\ \A j \in Jobs, q \in Pumps : q # p => events'[j][q] = events[j][q]
                /\ \A j \in Jobs \ pump[p].job : events'[j][p] = events[j][p]
                /\ \A j \in pump[p].job : events'[j][p] = 1 /\ events[j][p] = 0
    BY <2>0, <2>5, <2>6, <2>11 DEF Happens, PumpKnows, BeforeEvent
  <2>12. pump[p].pc = "notify" => \A j \in pump[p].job : mail[j] \in HandedOver
    BY <2>6 DEF PumpKnows
  <2>13. CASE Notify(p) \/ NotifyRaises(p)
    <3>1. pump[p].pc = "notify" /\ UNCHANGED mail
      BY <2>13 DEF Notify, NotifyRaises, mailVars
    <3>2. /\ pump'[p].job = pump[p].job
          /\ pump'[p].pc = "update"
          /\ \/ pump'[p].mark = "sent" /\ Happens(p)
             \/ pump'[p].mark = "uncertain" /\ (Happens(p) \/ UNCHANGED events)
      BY <2>0, <2>13 DEF Notify, NotifyRaises, PumpStates
    <3>3. CASE Happens(p)
      BY <2>3, <2>4, <2>5, <2>11, <2>12, <3>1, <3>2, <3>3 DEF PumpKnows, BeforeEvent, Updating, HandedOver
    <3>4. CASE UNCHANGED events /\ pump'[p].mark = "uncertain"
      BY <2>3, <2>4, <3>1, <3>2, <3>4 DEF PumpKnows, BeforeEvent, Updating, HandedOver
    <3>5. QED
      BY <3>2, <3>3, <3>4
  <2>14. CASE Cancel(p) \/ Killed(p)
    <3>1. /\ UNCHANGED mail
          /\ (pump[p].pc = "notify" /\ Happens(p)) \/ UNCHANGED events
      BY <2>14 DEF Cancel, Killed, mailVars
    <3>2. pump'[p].job = pump[p].job /\ pump'[p].pc \in {"closing", "ended", "dead"}
      BY <2>0, <2>14 DEF Cancel, Killed, Goes, PumpStates
    <3>3. CASE pump[p].pc = "notify" /\ Happens(p)
      BY <2>3, <2>4, <2>11, <2>12, <3>1, <3>2, <3>3 DEF PumpKnows, BeforeEvent, Updating
    <3>4. CASE UNCHANGED events
      BY <2>3, <2>4, <3>1, <3>2, <3>4 DEF PumpKnows, BeforeEvent, Updating
    <3>5. QED
      BY <3>1, <3>3, <3>4
  <2>15. QED
    BY <1>2, <2>8, <2>9, <2>10, <2>13, <2>14 DEF PumpStep, Quiet
<1>3. QED
  BY <1>1, <1>2 DEF Next

LEMMA MarkInit == Init => MarkInv
<1> SUFFICES ASSUME Init PROVE MarkInv
  OBVIOUS
<1>1. TypeOK
  BY DEF Init, TypeOK, Records, ChannelStates, SomeSession, Marks, NewPump, PumpStates, PumpPCs
<1>2. QED
  BY <1>1 DEF Init, MarkInv, NewPump, PumpKnows, BeforeEvent, Updating

(* What a pump knows of marks and events holds in every reachable state,   *)
(* however connections overlap.                                            *)
THEOREM MarkInvariant == Spec => []MarkInv
<1>1. MarkInv /\ [Next]_vars => MarkInv'
  BY MarkStep
<1>2. QED
  BY MarkInit, <1>1, PTL DEF Spec

(* A message that became an event of any session is marked: no later scan  *)
(* takes it again.                                                         *)
THEOREM EventsAreMarked == Spec => []EventIsMarked
<1>1. MarkInv => EventIsMarked
  BY DEF MarkInv, EventIsMarked, Delivered
<1>2. QED
  BY <1>1, MarkInvariant, PTL

(* The mark "sent" is never there without an event.                        *)
THEOREM SentIsTrue == Spec => []SentTruthful
<1>1. MarkInv => SentTruthful
  BY DEF MarkInv, SentTruthful, Delivered
<1>2. QED
  BY <1>1, MarkInvariant, PTL

(* No connection sends a message twice.                                    *)
THEOREM ConnectionSendsOnce == Spec => []OncePerConnection
<1>1. MarkInv => OncePerConnection
  BY DEF MarkInv, OncePerConnection
<1>2. QED
  BY <1>1, MarkInvariant, PTL

-----------------------------------------------------------------------------
(* Handled messages.                                                       *)

(* Only UpdateBegin starts a write.                                        *)
LEMMA WritingFrom ==
    ASSUME TypeOK, NEW p \in Pumps, PumpStep(p), ~UpdateBegin(p), NEW j \in Jobs,
           NEW q \in Pumps, Writing(q, j)'
    PROVE  /\ Writing(q, j)
           /\ ~UpdateWrite(q) /\ ~Killed(q)
<1>1. pump \in [Pumps -> PumpStates]
  BY DEF TypeOK
<1>2. pump[p] \in PumpStates /\ pump[q] \in PumpStates
  BY <1>1
<1>3. CASE q # p
  <2>1. pump'[q] = pump[q]
    BY <1>3, OthersKeep
  <2>2. Writing(q, j)
    BY <2>1 DEF Writing
  <2>3. ~UpdateWrite(q) /\ ~Killed(q)
    BY <1>1, <2>1, <2>2 DEF UpdateWrite, Killed, Goes, Writing, PumpStates
  <2>4. QED
    BY <2>2, <2>3
<1>4. CASE q = p
  <2>1. CASE Quiet(p)
    <3>1. CASE Read(p) \/ Check(p)
      BY <1>1, <1>2, <1>4, <3>1 DEF Read, Check, Goes, Writing, PumpStates
    <3>2. CASE ~Read(p) /\ ~Check(p)
      <4>1. Writing(q, j)
        BY <1>4, <2>1, <3>2, QuietPump DEF Writing
      <4>2. ~UpdateWrite(q) /\ ~Killed(q)
        BY <1>1, <1>2, <1>4 DEF UpdateWrite, Killed, Goes, Writing, PumpStates
      <4>3. QED
        BY <4>1, <4>2
    <3>3. QED
      BY <3>1, <3>2
  <2>2. CASE UpdateWrite(p) \/ Notify(p) \/ NotifyRaises(p)
    BY <1>1, <1>2, <1>4, <2>2 DEF UpdateWrite, Notify, NotifyRaises, Goes, Writing, PumpStates
  <2>3. CASE Cancel(p) \/ Killed(p)
    BY <1>1, <1>2, <1>4, <2>3 DEF Cancel, Killed, Goes, Writing, PumpStates
  <2>4. QED
    BY <2>1, <2>2, <2>3 DEF PumpStep, Quiet
<1>5. QED
  BY <1>3, <1>4

LEMMA AckWriteStep ==
    ASSUME WriteInv, TypeOK', NEW j \in Jobs, AckBegin(j) \/ AckEnd(j) \/ AckStops(j)
    PROVE  WriteInv'
<1>1. /\ UNCHANGED <<sendLock, pump, orphaned>>
      /\ \A i \in Jobs \ {j} : /\ box'[i] = box[i] /\ receiptLock'[i] = receiptLock[i]
                               /\ i \in acks' <=> i \in acks
                               /\ i \in handled' <=> i \in handled
  BY DEF AckBegin, AckEnd, AckStops, AckUnlocks, WriteInv, TypeOK, mailVars
<1>2. \A p \in Pumps, i \in Jobs : Writing(p, i)' <=> Writing(p, i)
  BY <1>1 DEF Writing
<1>3. j \notin orphaned => \A p \in Pumps : ~Writing(p, j)
  BY DEF AckBegin, AckEnd, AckStops, AckUnlocks, WriteInv
<1>4. j \in acks' => receiptLock'[j] = "ack"
  BY DEF AckBegin, AckEnd, AckStops, AckUnlocks, WriteInv, TypeOK
<1>5. box[j] # "unsent" /\ box'[j] # "unsent"
  BY DEF AckBegin, AckEnd, AckStops, AckUnlocks, WriteInv, TypeOK, mailVars
<1>6. acks' \subseteq Jobs /\ handled' \subseteq Jobs
  BY DEF TypeOK
<1>7. QED
  BY <1>1, <1>2, <1>3, <1>4, <1>5, <1>6 DEF WriteInv

LEMMA WriteStep == ASSUME WriteInv, [Next]_vars PROVE WriteInv'
<1>0. TypeOK /\ TypeOK'
  BY TypeStep DEF WriteInv
<1>1. CASE UNCHANGED vars
  BY <1>0, <1>1 DEF WriteInv, Writing, vars, mailVars, lockVars, ackVars
<1>2. CASE MailboxStep
  <2>1. UNCHANGED pump
    BY <1>2, MailboxKeeps
  <2>2. /\ \A j \in Jobs : box[j] \in {"unsent", "inbox", "done", "archived"}
        /\ acks \subseteq Jobs /\ handled \subseteq Jobs
    BY <1>0 DEF TypeOK
  <2>3. CASE Unregister
    <3>1. CASE UNCHANGED <<box, lockVars, orphaned>>
      BY <1>0, <2>1, <2>3, <3>1 DEF Unregister, WriteInv, Writing, lockVars
    <3>2. CASE /\ box' = [j \in Jobs |-> IF box[j] = "inbox" THEN "archived" ELSE box[j]]
               /\ orphaned' = orphaned \cup {j \in Jobs : \E p \in Pumps : Writing(p, j)}
      <4>1. \A p \in Pumps, j \in Jobs : Writing(p, j)' => j \in orphaned'
        BY <2>1, <3>2 DEF Writing
      <4>2. \A j \in Jobs : box'[j] # "inbox" /\ (box'[j] = "unsent" => box[j] = "unsent")
        BY <3>2
      <4>3. UNCHANGED <<acks, handled>>
        BY <2>3 DEF Unregister
      <4>4. QED
        BY <1>0, <2>2, <4>1, <4>2, <4>3 DEF WriteInv
    <3>3. QED
      BY <2>3, <3>1, <3>2 DEF Unregister
  <2>4. CASE \E s \in Sessions : Register(s)
    BY <1>0, <2>1, <2>4 DEF Register, WriteInv, Writing, mailVars, lockVars, ackVars
  <2>5. CASE \E j \in Jobs : Ask(j)
    BY <1>0, <2>1, <2>5 DEF Ask, WriteInv, Writing, lockVars, ackVars, TypeOK
  <2>6. CASE \E j \in Jobs : AckBegin(j) \/ AckEnd(j) \/ AckStops(j)
    BY <1>0, <2>6, AckWriteStep
  <2>7. QED
    BY <1>2, <2>3, <2>4, <2>5, <2>6 DEF MailboxStep
<1>3. ASSUME NEW p \in Pumps, PumpStep(p) PROVE WriteInv'
  <2>0. /\ pump[p] \in PumpStates /\ pump \in [Pumps -> PumpStates]
        /\ box \in [Jobs -> {"unsent", "inbox", "done", "archived"}]
        /\ receiptLock \in [Jobs -> {"free", "ack", "pump"}]
        /\ acks \subseteq Jobs /\ handled \subseteq Jobs
    BY <1>0 DEF TypeOK
  <2>1. CASE UpdateBegin(p)
    <3>1. /\ pump[p].pc = "update" /\ sendLock = NoPump
          /\ \A j \in pump[p].job : receiptLock[j] = "free" /\ box[j] = "inbox"
          /\ sendLock' = p /\ UNCHANGED <<box, acks, handled, orphaned>>
          /\ \A j \in Jobs : receiptLock'[j] = IF j \in pump[p].job THEN "pump" ELSE receiptLock[j]
      BY <2>0, <2>1 DEF UpdateBegin, Exists, mailVars, ackVars
    <3>2. pump'[p] = [pump[p] EXCEPT !.pc = "write"]
      BY <2>0, <2>1 DEF UpdateBegin, Goes
    <3>3. \A j \in Jobs : Writing(p, j)' <=> j \in pump[p].job
      BY <2>0, <3>2 DEF Writing, PumpStates
    <3>4. \A q \in Pumps \ {p}, j \in Jobs : Writing(q, j)' <=> Writing(q, j)
      BY <1>0, <1>3, OthersKeep DEF Writing
    <3>5. \A q \in Pumps, j \in Jobs \ orphaned : ~Writing(q, j)
      BY <3>1 DEF WriteInv
    <3>6. \A j \in acks \ orphaned : receiptLock'[j] = "ack" \/ box'[j] # "inbox"
      BY <2>0, <3>1 DEF WriteInv
    <3>7. QED
      BY <1>0, <3>1, <3>3, <3>4, <3>5, <3>6 DEF WriteInv
  <2>2. CASE ~UpdateBegin(p)
    <3>1. \A q \in Pumps, j \in Jobs : Writing(q, j)' =>
             Writing(q, j) /\ ~UpdateWrite(q) /\ ~Killed(q)
      BY <1>0, <1>3, <2>2, WritingFrom
    <3>2. CASE Quiet(p)
      BY <1>0, <3>1, <3>2, QuietStep DEF WriteInv, ackVars
    <3>3. CASE Notify(p) \/ NotifyRaises(p) \/ Cancel(p)
      <4>1. UNCHANGED <<box, sendLock, receiptLock, acks, handled, orphaned>>
        BY <3>3 DEF Notify, NotifyRaises, Cancel, mailVars, lockVars, ackVars
      <4>2. QED
        BY <1>0, <3>1, <4>1 DEF WriteInv
    <3>4. CASE UpdateWrite(p) \/ Killed(p)
      <4>1. UNCHANGED <<acks, handled, orphaned>>
        BY <3>4 DEF UpdateWrite, Killed, ackVars
      <4>2. CASE UNCHANGED <<box, sendLock, receiptLock>>
        BY <1>0, <3>1, <4>1, <4>2 DEF WriteInv
      <4>3. CASE pump[p].pc = "write" /\ LocksReleased(p)
        <5>1. \A j \in Jobs \ pump[p].job : box'[j] = box[j] /\ receiptLock'[j] = receiptLock[j]
          BY <2>0, <3>4, <4>3 DEF UpdateWrite, Killed, LocksReleased, mailVars
        <5>2. \A q \in Pumps : sendLock = q /\ q # p => sendLock' = q
          BY <4>3 DEF LocksReleased
        <5>3. \A j \in pump[p].job \ orphaned : sendLock = p /\ j \notin acks
          BY <2>0, <4>3 DEF WriteInv, Writing, PumpStates
        <5>4. ASSUME NEW q \in Pumps, NEW j \in Jobs \ orphaned, Writing(q, j)'
              PROVE  box'[j] = "inbox" /\ receiptLock'[j] = "pump" /\ sendLock' = q
          <6>1. q # p /\ Writing(q, j)
            BY <3>1, <3>4, <5>4
          <6>2. box[j] = "inbox" /\ receiptLock[j] = "pump" /\ sendLock = q
            BY <6>1 DEF WriteInv
          <6>3. j \notin pump[p].job
            BY <5>3, <6>1, <6>2
          <6>4. QED
            BY <5>1, <5>2, <6>1, <6>2, <6>3
        <5>5. \A j \in acks \ orphaned : receiptLock'[j] = "ack" \/ box'[j] # "inbox"
          BY <2>0, <5>1, <5>3 DEF WriteInv
        <5>6. \A j \in acks \cup handled : box'[j] # "unsent"
          BY <2>0, <3>4 DEF WriteInv, UpdateWrite, Killed, mailVars
        <5>7. QED
          BY <1>0, <4>1, <5>4, <5>5, <5>6 DEF WriteInv
      <4>4. QED
        BY <3>4, <4>2, <4>3 DEF UpdateWrite, Killed, mailVars, lockVars
    <3>5. QED
      BY <1>3, <2>2, <3>2, <3>3, <3>4 DEF PumpStep, Quiet
  <2>3. QED
    BY <2>1, <2>2
<1>4. QED
  BY <1>1, <1>2, <1>3 DEF Next

LEMMA GoneStays ==
    ASSUME WriteInv, [Next]_vars, NEW j \in Jobs \ orphaned, j \in handled, box[j] # "inbox"
    PROVE  box'[j] # "inbox"
<1>1. /\ box \in [Jobs -> {"unsent", "inbox", "done", "archived"}]
      /\ box[j] # "unsent"
  BY DEF WriteInv, TypeOK
<1>2. CASE UNCHANGED vars
  BY <1>2 DEF vars, mailVars
<1>3. CASE MailboxStep
  <2>1. CASE Unregister \/ \E s \in Sessions : Register(s)
    BY <1>1, <2>1 DEF Unregister, Register, mailVars
  <2>2. CASE \E i \in Jobs : Ask(i) \/ AckBegin(i) \/ AckEnd(i) \/ AckStops(i)
    BY <1>1, <2>2 DEF Ask, AckBegin, AckEnd, AckStops, mailVars
  <2>3. QED
    BY <1>3, <2>1, <2>2 DEF MailboxStep
<1>4. ASSUME NEW p \in Pumps, PumpStep(p) PROVE box'[j] # "inbox"
  <2>1. CASE UpdateWrite(p)
    BY <1>1, <2>1 DEF UpdateWrite, WriteInv, Writing
  <2>2. CASE Quiet(p)
    BY <2>2, QuietStep
  <2>3. CASE UpdateBegin(p) \/ Notify(p) \/ NotifyRaises(p) \/ Cancel(p) \/ Killed(p)
    BY <2>3 DEF UpdateBegin, Notify, NotifyRaises, Cancel, Killed, mailVars
  <2>4. QED
    BY <1>4, <2>1, <2>2, <2>3 DEF PumpStep, Quiet
<1>5. QED
  BY <1>2, <1>3, <1>4 DEF Next

(* An acknowledged message that has left the inbox, whether its envelope   *)
(* was unlinked or archived, is not recreated by the mark of a slow pump,  *)
(* unless that pump was past its check when the mailbox was renamed.       *)
THEOREM HandledMessagesStayHandled == Spec => HandledStaysHandled
<1>1. Init => WriteInv
  <2> SUFFICES ASSUME Init PROVE WriteInv
    OBVIOUS
  <2>1. TypeOK
    BY MarkInit DEF MarkInv
  <2>2. QED
    BY <2>1 DEF Init, WriteInv, Writing, NewPump
<1>2. WriteInv /\ [Next]_vars => WriteInv'
  BY WriteStep
<1>3. WriteInv /\ [Next]_vars => [\A j \in Jobs \ orphaned :
          j \in handled /\ box[j] # "inbox" => box'[j] # "inbox"]_vars
  BY GoneStays
<1>4. QED
  BY <1>1, <1>2, <1>3, PTL DEF Spec, HandledStaysHandled

-----------------------------------------------------------------------------
(* Connections that do not overlap.                                        *)

(* Only Start gives a pump life, and it notes who is alive already.        *)
LEMMA BesideStep ==
    ASSUME TypeOK, NEW p \in Pumps, PumpStep(p)
    PROVE  /\ pump'[p].pc # "new"
           /\ \/ Live(p) /\ ~Start(p) /\ pump'[p].beside = pump[p].beside
              \/ /\ Start(p) /\ pump[p].pc = "new" /\ pump'[p].pc = "connect"
                 /\ pump'[p].beside = \E q \in Pumps : Live(q)
<1>1. pump \in [Pumps -> PumpStates] /\ pump[p] \in PumpStates
  BY DEF TypeOK
<1> USE <1>1 DEF PumpStates, Live
<1>2. CASE Start(p)
  BY <1>2 DEF Start
<1>3. ASSUME NEW pc \in PumpPCs \ {"new"}, Goes(p, pc)
      PROVE  pump'[p].pc # "new" /\ pump'[p].beside = pump[p].beside
  BY <1>3 DEF Goes
<1>4. ~Start(p) => Live(p)
  <2>1. CASE Connect(p) \/ Greet(p) \/ Confirm(p) \/ Loop(p) \/ Beat(p) \/ Close(p)
    BY <2>1 DEF Connect, Greet, Confirm, Loop, Beat, Close
  <2>2. CASE Scan(p) \/ NextPath(p) \/ Read(p) \/ Check(p) \/ UpdateSkipped(p)
    BY <2>2 DEF Scan, NextPath, Read, Check, UpdateSkipped
  <2>3. CASE UpdateBegin(p) \/ UpdateWrite(p) \/ Notify(p) \/ NotifyRaises(p)
    BY <2>3 DEF UpdateBegin, UpdateWrite, Notify, NotifyRaises
  <2>4. CASE Cancel(p) \/ Killed(p)
    BY <2>4 DEF Cancel, Killed
  <2>5. QED
    BY <2>1, <2>2, <2>3, <2>4 DEF PumpStep
<1>5. ~Start(p) => pump'[p].pc # "new" /\ pump'[p].beside = pump[p].beside
  <2>1. CASE Connect(p) \/ Greet(p)
    BY <1>3, <2>1 DEF Connect, Greet, PumpPCs
  <2>2. CASE Confirm(p)
    BY <2>2 DEF Confirm
  <2>3. CASE Loop(p) \/ Beat(p) \/ UpdateSkipped(p)
    BY <2>3 DEF Loop, Beat, UpdateSkipped, Goes
  <2>4. CASE Close(p)
    BY <2>4 DEF Close
  <2>5. CASE Scan(p)
    BY <2>5 DEF Scan
  <2>6. CASE NextPath(p)
    <3>1. CASE Goes(p, "loop")
      BY <3>1 DEF Goes
    <3>2. CASE \E j \in pump[p].todo :
                 pump' = [pump EXCEPT ![p].pc = "read", ![p].job = {j}, ![p].todo = @ \ {j}]
      BY <3>2
    <3>3. QED
      BY <2>6, <3>1, <3>2 DEF NextPath
  <2>7. CASE Read(p) \/ Check(p)
    BY <2>7 DEF Read, Check, Goes
  <2>8. CASE UpdateBegin(p) \/ UpdateWrite(p)
    BY <2>8 DEF UpdateBegin, UpdateWrite, Goes
  <2>9. CASE Notify(p) \/ NotifyRaises(p)
    BY <2>9 DEF Notify, NotifyRaises
  <2>10. CASE Cancel(p) \/ Killed(p)
    BY <2>10 DEF Cancel, Killed, Goes
  <2>11. QED
    BY <2>1, <2>2, <2>3, <2>4, <2>5, <2>6, <2>7, <2>8, <2>9, <2>10 DEF PumpStep
<1>6. QED
  BY <1>2, <1>4, <1>5 DEF Start

LEMMA AloneStep == ASSUME AloneInv, [Next]_vars PROVE AloneInv'
<1>0. MarkInv /\ MarkInv' /\ TypeOK
  BY MarkStep DEF AloneInv, MarkInv
<1>1. CASE UNCHANGED vars \/ MailboxStep
  <2>1. UNCHANGED <<pump, events>>
    BY <1>1, MailboxKeeps DEF vars
  <2>2. QED
    BY <1>0, <2>1 DEF AloneInv, Live, Alone, BeforeEvent, Updating, AtMostOneEvent
<1>2. ASSUME NEW p \in Pumps, PumpStep(p) PROVE AloneInv'
  <2>0. /\ pump[p] \in PumpStates /\ pump \in [Pumps -> PumpStates]
        /\ events \in [Jobs -> [Pumps -> Nat]]
        /\ pump[p].job \subseteq Jobs
    BY <1>0 DEF TypeOK, PumpStates
  <2>1. \A q \in Pumps \ {p} : pump'[q] = pump[q]
    BY <1>0, <1>2, OthersKeep
  <2>2. /\ pump'[p].pc # "new"
        /\ \/ Live(p) /\ ~Start(p) /\ pump'[p].beside = pump[p].beside
           \/ /\ Start(p) /\ pump[p].pc = "new" /\ pump'[p].pc = "connect"
              /\ pump'[p].beside = \E q \in Pumps : Live(q)
    BY <1>0, <1>2, BesideStep
  <2>3. \A q \in Pumps : pump[q].beside => pump'[q].beside
    BY <2>1, <2>2 DEF AloneInv
  <2>4. \A q, r \in Pumps : Live(q)' /\ Live(r)' /\ Alone(q, r)' => q = r
    BY <2>1, <2>2 DEF AloneInv, Live, Alone
  <2>5. \A q \in Pumps : BeforeEvent(q) => Live(q)
    BY DEF BeforeEvent, Updating, Live
  <2>6. \A q \in Pumps \ {p}, r \in Pumps : BeforeEvent(q)' /\ Alone(q, r)' =>
           /\ BeforeEvent(q) /\ Alone(q, r) /\ pump'[q].job = pump[q].job
    <3>1. ASSUME NEW q \in Pumps \ {p}, NEW r \in Pumps, BeforeEvent(q)', Alone(q, r)'
          PROVE  BeforeEvent(q) /\ Alone(q, r) /\ pump'[q].job = pump[q].job
      <4>1. pump'[q] = pump[q]
        BY <2>1
      <4>2. BeforeEvent(q)
        BY <3>1, <4>1 DEF BeforeEvent, Updating
      <4>3. Alone(q, r)
        BY <2>3, <3>1 DEF Alone
      <4>4. QED
        BY <4>1, <4>2, <4>3
    <3>2. QED
      BY <3>1
  <2>7. CASE UNCHANGED events
    <3>1. AtMostOneEvent'
      BY <2>3, <2>7 DEF AloneInv, AtMostOneEvent
    <3>2. ASSUME NEW r \in Pumps, BeforeEvent(p)', Alone(p, r)', NEW j \in pump'[p].job
          PROVE  events[j][r] = 0
      <4>1. Live(p) /\ ~Start(p)
        BY <2>2, <3>2 DEF BeforeEvent, Updating
      <4>2. Alone(p, r)
        BY <2>3, <3>2 DEF Alone
      <4>3. CASE Read(p)
        <5>1. PICK i \in pump[p].job :
                 Goes(p, IF box[i] = "inbox" /\ mail[i] \notin HandedOver THEN "check" ELSE "each")
          BY <4>3 DEF Read
        <5>2. /\ pump'[p].pc = IF box[i] = "inbox" /\ mail[i] \notin HandedOver THEN "check" ELSE "each"
              /\ pump'[p].job = pump[p].job
          BY <2>0, <5>1 DEF Goes, PumpStates
        <5>3. i = j /\ mail[i] \notin HandedOver
          BY <1>0, <3>2, <5>2 DEF MarkInv, BeforeEvent, Updating
        <5>4. events[j][r] \in Nat /\ ~(events[j][r] > 0)
          BY <1>0, <2>0, <5>3 DEF MarkInv
        <5>5. QED
          BY <5>4
      <4>4. CASE ~Read(p)
        <5>1. BeforeEvent(p)' => BeforeEvent(p) /\ pump'[p].job = pump[p].job
          <6>1. CASE Quiet(p) /\ ~Check(p)
            BY <1>0, <4>4, <6>1, QuietPump DEF BeforeEvent, Updating
          <6>2. CASE Check(p)
            BY <2>0, <6>2 DEF Check, BeforeEvent, Updating, PumpStates
          <6>3. CASE UpdateBegin(p)
            BY <2>0, <6>3 DEF UpdateBegin, Goes, BeforeEvent, Updating, PumpStates
          <6>4. CASE UpdateWrite(p)
            BY <2>0, <6>4 DEF UpdateWrite, Goes, BeforeEvent, Updating, PumpStates
          <6>5. CASE Notify(p) \/ NotifyRaises(p)
            BY <2>0, <6>5 DEF Notify, NotifyRaises, BeforeEvent, Updating, PumpStates
          <6>6. CASE Cancel(p) \/ Killed(p)
            BY <2>0, <6>6 DEF Cancel, Killed, Goes, BeforeEvent, Updating, PumpStates
          <6>7. QED
            BY <1>2, <6>1, <6>2, <6>3, <6>4, <6>5, <6>6 DEF PumpStep, Quiet
        <5>2. QED
          BY <3>2, <4>2, <5>1 DEF AloneInv
      <4>5. QED
        BY <4>3, <4>4
    <3>3. ASSUME NEW q \in Pumps, NEW r \in Pumps, BeforeEvent(q)', Alone(q, r)'
          PROVE  \A j \in pump'[q].job : events'[j][r] = 0
      BY <2>6, <2>7, <3>2, <3>3 DEF AloneInv
    <3>4. QED
      BY <1>0, <2>1, <2>2, <2>4, <3>1, <3>3 DEF AloneInv
  <2>8. CASE pump[p].pc = "notify" /\ Happens(p)
        /\ (Notify(p) \/ NotifyRaises(p) \/ Cancel(p) \/ Killed(p))
    <3>1. ~BeforeEvent(p)'
      BY <2>0, <2>8 DEF Notify, NotifyRaises, Cancel, Killed, Goes, BeforeEvent, Updating, PumpStates
    <3>2. BeforeEvent(p) /\ ~Start(p) /\ Live(p)
      BY <2>2, <2>8 DEF BeforeEvent, Start, Live
    <3>3. ASSUME NEW j \in Jobs, NEW q \in Pumps
          PROVE  events'[j][q] = IF j \in pump[p].job /\ q = p THEN events[j][q] + 1 ELSE events[j][q]
      BY <2>0, <2>8, <3>3 DEF Happens
    <3>4. \A q \in Pumps : pump'[q].beside = pump[q].beside
      BY <2>1, <2>2, <3>2
    <3>5. AtMostOneEvent'
      <4>1. \A q \in Pumps : Alone(p, q) => \A j \in pump[p].job : events[j][q] = 0
        BY <3>2 DEF AloneInv
      <4>2. ASSUME NEW j \in Jobs, NEW q \in Pumps, NEW r \in Pumps,
                   events'[j][q] > 0, events'[j][r] > 0, q # r
            PROVE  pump'[q].beside \/ pump'[r].beside
        <5>1. CASE q # p /\ r # p
          BY <3>3, <3>4, <4>2, <5>1 DEF AloneInv, AtMostOneEvent
        <5>2. CASE q = p \/ r = p
          <6>1. PICK o \in {q, r} : o # p /\ events[j][o] > 0
            BY <3>3, <4>2, <5>2
          <6>2. CASE j \in pump[p].job
            <7>1. ~Alone(p, o)
              BY <4>1, <6>1, <6>2
            <7>2. QED
              BY <3>4, <4>2, <5>2, <6>1, <7>1 DEF Alone
          <6>3. CASE j \notin pump[p].job
            BY <3>3, <3>4, <4>2, <6>3 DEF AloneInv, AtMostOneEvent
          <6>4. QED
            BY <6>2, <6>3
        <5>3. QED
          BY <5>1, <5>2
      <4>3. QED
        BY <4>2 DEF AtMostOneEvent
    <3>6. ASSUME NEW q \in Pumps, NEW r \in Pumps, BeforeEvent(q)', Alone(q, r)'
          PROVE  \A j \in pump'[q].job : events'[j][r] = 0
      <4>1. q # p
        BY <3>1, <3>6
      <4>2. BeforeEvent(q) /\ Alone(q, r) /\ pump'[q].job = pump[q].job
        BY <2>6, <3>6, <4>1
      <4>3. r # p
        BY <2>5, <3>2, <4>1, <4>2 DEF AloneInv
      <4>4. \A j \in pump[q].job : events[j][r] = 0
        BY <4>2 DEF AloneInv
      <4>5. pump[q].job \subseteq Jobs
        BY <2>0 DEF PumpStates
      <4>6. QED
        BY <3>3, <4>2, <4>3, <4>4, <4>5
    <3>7. QED
      BY <1>0, <2>1, <2>2, <2>4, <3>5, <3>6 DEF AloneInv
  <2>9. QED
    <3>1. CASE Quiet(p)
      BY <2>7, <3>1, QuietStep
    <3>2. CASE UpdateBegin(p) \/ UpdateWrite(p)
      BY <2>7, <3>2 DEF UpdateBegin, UpdateWrite
    <3>3. CASE Notify(p) \/ NotifyRaises(p)
      BY <2>7, <2>8, <3>3 DEF Notify, NotifyRaises
    <3>4. CASE Cancel(p) \/ Killed(p)
      BY <2>7, <2>8, <3>4 DEF Cancel, Killed
    <3>5. QED
      BY <1>2, <3>1, <3>2, <3>3, <3>4 DEF PumpStep, Quiet
<1>3. QED
  BY <1>1, <1>2 DEF Next

(* Of two connections that turned one message into events, one was started *)
(* beside a running connection, however they are cancelled or killed.      *)
THEOREM OneEventWithoutOverlap == Spec => []AtMostOneEvent
<1>1. Init => AloneInv
  <2> SUFFICES ASSUME Init PROVE AloneInv
    OBVIOUS
  <2>1. MarkInv
    BY MarkInit
  <2>2. QED
    BY <2>1 DEF Init, AloneInv, Live, Alone, BeforeEvent, Updating, NewPump, AtMostOneEvent
<1>2. AloneInv /\ [Next]_vars => AloneInv'
  BY AloneStep
<1>3. AloneInv => AtMostOneEvent
  BY DEF AloneInv
<1>4. QED
  BY <1>1, <1>2, <1>3, PTL DEF Spec

=============================================================================
