------------------------- MODULE Conversation_proofs ------------------------
(***************************************************************************)
(* TLAPS proofs about Conversation, for every set of calls and any number  *)
(* of failures:                                                            *)
(*                                                                         *)
(*   ReplyInv      who holds reply.lock, and what the response record says *)
(*                 of the message that may have been posted                *)
(*   ReceiptInv    what the receipt says while receipts are written; when  *)
(*                 no hook takes the question                              *)
(*   RecordInv     what is reported as sent is what the response record    *)
(*                 says; with it every step is a step of ReplyContract     *)
(*                                                                         *)
(* Calls fail at any step; "off" is where hook and sender are and stay     *)
(* without keystroke delivery.                                             *)
(***************************************************************************)
EXTENDS Conversation, TLAPS

USE ConversationAssumption

-----------------------------------------------------------------------------
(* The inductive invariants.                                               *)

(* What a reply call knows at each of its steps.                           *)
CallKnows(c) ==
    /\ call[c].pc = "mark" => posted = {}
    /\ call[c].pc = "send" =>
          posted = {} /\ response.state = "dispatching" /\ response.answer = c
    /\ call[c].pc = "sent" =>
          c \in posted /\ response.state = "dispatching" /\ response.answer = c
    /\ call[c].pc = "rejected" => posted = {}

(* An answer the questioner has is on record at the receiver, as sent or   *)
(* as uncertain, with its text: never as failed, which would invite        *)
(* another reply.                                                          *)
PostedIsKnown ==
    \A c \in posted : response.state \in {"dispatching", "sent"} /\ response.answer = c

(* A receipt that reports a sent answer reports the answer that was sent,  *)
(* also when it is repaired by a call with another text.                   *)
ReceiptMatchesMessage == receipt.terminal.sent => receipt.terminal.answer \in posted

ReplyInv ==
    /\ TypeOK
    /\ PostedIsKnown
    /\ ReceiptMatchesMessage
    /\ hook = "off" => sender = "off"
    /\ response.state = "sent" => response.answer \in posted
    /\ \A w \in Writers :
          /\ call[w].pc \in ReplySteps => w \in Replies /\ replyLock = w
          /\ CallKnows(w)
          /\ call[w].pc \in ReceiptSteps /\ call[w].terminal.sent
                => call[w].terminal.answer \in posted

(* Without hooks: a receipt is written under its lock, and what a call is  *)
(* about to write is at least as strong as what it replaces.               *)
ReceiptInv ==
    hook = "off" =>
    \A w \in Writers :
       /\ call[w].pc \in {"read", "written"} => receiptLock = w
       /\ w \in Replies /\ call[w].pc \in {"receipt", "read"} => HasAnswer(call[w].terminal)
       /\ w \in Replies /\ call[w].pc = "written" => HasAnswer(receipt.terminal)

(* While no call has stopped between writing a receipt and unlinking the   *)
(* envelope, the two exist together only in between.                       *)
SurvivalInv ==
    hook = "off" /\ ~Torn =>
    /\ inbox /\ HasAnswer(receipt.terminal) => \E w \in Writers : call[w].pc = "written"
    /\ \A w \in Writers :
          call[w].pc = "read" /\ HasAnswer(receipt.terminal) => HasAnswer(call[w].terminal)

-----------------------------------------------------------------------------
(* Receipts.                                                               *)

(* A written receipt is no weaker than the one before and the new one.     *)
LEMMA StrongerType ==
    ASSUME NEW old \in Terminals, NEW new \in Terminals
    PROVE  /\ Stronger(old, new) \in Terminals
           /\ Stronger(old, new) \in {old, new}
           /\ HasAnswer(old) \/ HasAnswer(new) => HasAnswer(Stronger(old, new))
  BY DEF Stronger, HasAnswer, Terminals

LEMMA TerminalsType ==
    /\ NoTerminal \in Terminals
    /\ Drained \in Terminals
    /\ \A a \in Answers, s \in BOOLEAN : Completed(a, s) \in Terminals
  BY DEF NoTerminal, Drained, Completed, Terminals, Answers

-----------------------------------------------------------------------------
(* The sender: it touches the envelope and nothing else.                   *)

LEMMA SenderShape ==
    ASSUME SenderStep
    PROVE  UNCHANGED <<receipt, response, posted, lockVars, call, hook>> /\ sender # "off"
  BY DEF SenderStep, SenderLocks, SenderWrites, SenderUnlinks, SenderVerifies, SenderGivesUp,
     SenderLooks, SenderStops

LEMMA SenderType ==
    ASSUME TypeOK, SenderStep
    PROVE  inbox' \in BOOLEAN /\ sender' \in SenderPCs /\ failures' \in Nat
<1> USE DEF TypeOK, SenderPCs, Typing
<1>1. CASE SenderWrites
  BY <1>1 DEF SenderWrites, AfterWrite
<1>2. CASE SenderLocks \/ SenderUnlinks \/ SenderVerifies \/ SenderGivesUp
  BY <1>2 DEF SenderLocks, SenderUnlinks, SenderVerifies, SenderGivesUp
<1>3. CASE SenderLooks \/ SenderStops
  BY <1>3 DEF SenderLooks, SenderStops
<1>4. QED
  BY <1>1, <1>2, <1>3 DEF SenderStep

-----------------------------------------------------------------------------
(* Types.                                                                  *)

LEMMA TypeStep == ASSUME TypeOK, [Next]_vars PROVE TypeOK'
<1> USE DEF TypeOK
<1>1. CASE UNCHANGED vars
  BY <1>1 DEF vars, lockVars
<1>2. ASSUME NEW c \in Replies, ReplyStep(c) PROVE TypeOK'
  <2>1. c \in Writers /\ c \in Answers
    BY DEF Writers, Answers
  <2>2. CASE ReplyBusy(c) \/ ReplyUncertain(c) \/ ReplyBegin(c)
    BY <2>1, <2>2 DEF ReplyBusy, ReplyUncertain, ReplyBegin, Goes, Calls, ReplySteps, Ends, lockVars
  <2>3. CASE ReplyAgain(c)
    BY <2>1, <2>3, TerminalsType DEF ReplyAgain, Becomes, Repair, Calls, ReceiptSteps, Responses
  <2>4. CASE ReplyMark(c)
    BY <2>1, <2>4 DEF ReplyMark, Goes, Calls, ReplySteps, Responses, lockVars
  <2>5. CASE ReplyPost(c) \/ ReplyPostFails(c)
    BY <2>1, <2>5 DEF ReplyPost, ReplyPostFails, Goes, Calls, ReplySteps, lockVars
  <2>6. CASE ReplySaveSent(c)
    BY <2>1, <2>6, TerminalsType DEF ReplySaveSent, Becomes, Calls, ReceiptSteps, Responses, lockVars
  <2>7. CASE ReplySaveFailed(c)
    BY <2>1, <2>7 DEF ReplySaveFailed, Goes, Freed, Calls, Ends, Responses, Answers
  <2>8. QED
    BY <1>2, <2>2, <2>3, <2>4, <2>5, <2>6, <2>7 DEF ReplyStep
<1>3. ASSUME NEW a \in Acks, AckBegin(a) PROVE TypeOK'
  <2>1. a \in Writers /\ a \in Answers /\ Nobody \in Answers
    BY DEF Writers, Answers
  <2>2. PICK t \in {Drained, Completed(Nobody, FALSE), Completed(a, FALSE)} : Becomes(a, "receipt", t)
    BY <1>3 DEF AckBegin
  <2>3. t \in Terminals
    BY <2>1, TerminalsType
  <2>4. QED
    BY <1>3, <2>1, <2>2, <2>3 DEF AckBegin, Becomes, Calls, ReceiptSteps, lockVars
<1>4. ASSUME NEW w \in Writers, ReceiptStep(w) \/ Fails(w) PROVE TypeOK'
  <2>1. w \in Answers /\ Nobody \in Answers /\ call[w] \in Calls
    BY DEF Answers
  <2>2. CASE ReceiptRead(w)
    <3>1. Previous \in Terminals /\ call[w].terminal \in Terminals
      BY <2>1, TerminalsType DEF Previous, Receipts, Calls
    <3>2. QED
      BY <2>1, <2>2, <3>1, StrongerType DEF ReceiptRead, Becomes, Calls, ReceiptSteps
  <2>3. CASE ReceiptWrite(w)
    BY <2>1, <2>3 DEF ReceiptWrite, Goes, Calls, ReceiptSteps, Receipts, lockVars
  <2>4. CASE ReceiptUnlink(w)
    BY <2>1, <2>4 DEF ReceiptUnlink, Goes, Freed, Calls, Ends
  <2>5. CASE Fails(w)
    BY <2>1, <2>5 DEF Fails, Goes, Freed, Calls, Ends
  <2>6. QED
    BY <1>4, <2>2, <2>3, <2>4, <2>5 DEF ReceiptStep
<1>5. CASE HookStep
  <2>1. CASE HookRead
    BY <2>1 DEF HookRead, lockVars
  <2>2. CASE HookWrite
    BY <2>2, TerminalsType DEF HookWrite, Receipts, lockVars
  <2>3. CASE HookUnlink
    BY <2>3 DEF HookUnlink, lockVars
  <2>4. CASE HookStops
    BY <2>4 DEF HookStops, lockVars
  <2>5. QED
    BY <1>5, <2>1, <2>2, <2>3, <2>4 DEF HookStep
<1>6. CASE SenderStep
  BY <1>6, SenderShape, SenderType DEF lockVars
<1>7. QED
  BY <1>1, <1>2, <1>3, <1>4, <1>5, <1>6 DEF Next

LEMMA TypeInit == ASSUME Init PROVE TypeOK
<1>1. Nobody \in Answers
  BY DEF Answers
<1>2. QED
  BY <1>1, TerminalsType DEF Init, TypeOK, Receipts, Responses, Calls, SenderPCs

-----------------------------------------------------------------------------
(* One reply.                                                              *)

LEMMA ReplyInit == ASSUME Init PROVE ReplyInv
<1>1. TypeOK
  BY TypeInit
<1>2. QED
  BY <1>1 DEF Init, ReplyInv, PostedIsKnown, ReceiptMatchesMessage, CallKnows, NoTerminal,
     ReplySteps, ReceiptSteps

LEMMA ReplyInductive == ASSUME ReplyInv, [Next]_vars PROVE ReplyInv'
<1> USE DEF ReplyInv
<1>1. TypeOK'
  BY TypeStep
<1>2. CASE UNCHANGED vars
  BY <1>1, <1>2 DEF vars, lockVars, PostedIsKnown, ReceiptMatchesMessage, CallKnows
<1>3. ASSUME NEW c \in Replies, ReplyStep(c) PROVE ReplyInv'
  <2>1. c \in Writers /\ call \in [Writers -> Calls] /\ posted \in SUBSET Replies /\ c # Nobody
    BY DEF TypeOK, Writers
  <2> USE DEF PostedIsKnown, ReceiptMatchesMessage, CallKnows
  <2>2. CASE ReplyBusy(c) \/ ReplyUncertain(c)
    <3>1. /\ Goes(c, "refused")
          /\ UNCHANGED <<response, posted, replyLock, receipt, hook, sender>>
      BY <2>2 DEF ReplyBusy, ReplyUncertain, lockVars
    <3>2. QED
      BY <1>1, <2>1, <3>1 DEF Goes, ReplySteps, ReceiptSteps
  <2>3. CASE ReplyAgain(c)
    BY <1>1, <2>1, <2>3 DEF ReplyAgain, Becomes, Repair, Completed, ReplySteps, ReceiptSteps
  <2>4. CASE ReplyBegin(c)
    BY <1>1, <2>1, <2>4 DEF ReplyBegin, Goes, Sendable, ReplySteps, ReceiptSteps
  <2>5. CASE ReplyMark(c)
    BY <1>1, <2>1, <2>5 DEF ReplyMark, Goes, lockVars, ReplySteps, ReceiptSteps
  <2>6. CASE ReplyPost(c)
    BY <1>1, <2>1, <2>6 DEF ReplyPost, Goes, lockVars, ReplySteps, ReceiptSteps
  <2>7. CASE ReplyPostFails(c)
    BY <1>1, <2>1, <2>7 DEF ReplyPostFails, Goes, lockVars, ReplySteps, ReceiptSteps
  <2>8. CASE ReplySaveSent(c)
    BY <1>1, <2>1, <2>8 DEF ReplySaveSent, Becomes, Completed, lockVars, ReplySteps, ReceiptSteps
  <2>9. CASE ReplySaveFailed(c)
    BY <1>1, <2>1, <2>9 DEF ReplySaveFailed, Goes, Freed, ReplySteps, ReceiptSteps
  <2>10. QED
    BY <1>3, <2>2, <2>3, <2>4, <2>5, <2>6, <2>7, <2>8, <2>9 DEF ReplyStep
<1>4. ASSUME NEW a \in Acks, AckBegin(a) PROVE ReplyInv'
  <2>1. PICK t \in {Drained, Completed(Nobody, FALSE), Completed(a, FALSE)} : Becomes(a, "receipt", t)
    BY <1>4 DEF AckBegin
  <2>2. ~t.sent
    BY DEF Drained, Completed
  <2>3. QED
    BY <1>1, <1>4, <2>1, <2>2 DEF AckBegin, Becomes, lockVars, TypeOK, Writers, PostedIsKnown,
       ReceiptMatchesMessage, CallKnows, ReplySteps, ReceiptSteps
<1>5. ASSUME NEW w \in Writers, ReceiptStep(w) \/ Fails(w) PROVE ReplyInv'
  <2>1. call \in [Writers -> Calls] /\ w # Nobody /\ ReplySteps \cap ReceiptSteps = {}
    BY DEF TypeOK, ReplySteps, ReceiptSteps
  <2> USE DEF PostedIsKnown, ReceiptMatchesMessage, CallKnows
  <2>2. CASE ReceiptRead(w)
    <3>1. Previous \in Terminals /\ call[w].terminal \in Terminals
      BY <2>1, TerminalsType DEF TypeOK, Previous, Receipts, Calls
    <3>2. Previous.sent => Previous.answer \in posted
      BY DEF Previous, NoTerminal
    <3>3. DEFINE t == Stronger(Previous, call[w].terminal)
    <3>4. t.sent => t.answer \in posted
      BY <2>2, <3>1, <3>2, StrongerType DEF ReceiptRead, ReceiptSteps
    <3>5. QED
      BY <1>1, <2>1, <2>2, <3>4 DEF ReceiptRead, Becomes, ReplySteps, ReceiptSteps
  <2>3. CASE ReceiptWrite(w)
    BY <1>1, <2>1, <2>3 DEF ReceiptWrite, Goes, lockVars, ReplySteps, ReceiptSteps
  <2>4. CASE ReceiptUnlink(w)
    BY <1>1, <2>1, <2>4 DEF ReceiptUnlink, Goes, Freed, ReplySteps, ReceiptSteps
  <2>5. CASE Fails(w)
    BY <1>1, <2>1, <2>5 DEF Fails, Goes, Freed, ReplySteps, ReceiptSteps
  <2>6. QED
    BY <1>5, <2>2, <2>3, <2>4, <2>5 DEF ReceiptStep
<1>6. CASE HookStep
  BY <1>1, <1>6 DEF HookStep, HookRead, HookWrite, HookUnlink, HookStops, NoTerminal, lockVars,
     PostedIsKnown, ReceiptMatchesMessage, CallKnows
<1>7. CASE SenderStep
  BY <1>1, <1>7, SenderShape DEF lockVars, PostedIsKnown, ReceiptMatchesMessage, CallKnows
<1>8. QED
  BY <1>2, <1>3, <1>4, <1>5, <1>6, <1>7 DEF Next

(* ReplyInv is inductive, hence an invariant.                              *)
THEOREM ReplyInvariant == Spec => []ReplyInv
<1>1. Init => ReplyInv
  BY ReplyInit
<1>2. ReplyInv /\ [Next]_vars => ReplyInv'
  BY ReplyInductive
<1>3. QED
  BY <1>1, <1>2, PTL DEF Spec

(* Every variable of the answering code keeps its type.                    *)
THEOREM ConversationTypeCorrect == Spec => []TypeOK
BY ReplyInvariant, PTL DEF ReplyInv

(* An answer that reached the questioner is on record as sent or uncertain,*)
(* through overlapping calls, failures at any step and hooks.              *)
THEOREM PostedAnswersAreKnown == Spec => []PostedIsKnown
BY ReplyInvariant, PTL DEF ReplyInv

(* reply never sends a second answer to one question.                      *)
THEOREM AtMostOneReply == Spec => []OneReply
<1>1. PostedIsKnown => OneReply
  BY DEF PostedIsKnown, OneReply
<1>2. QED
  BY <1>1, PostedAnswersAreKnown, PTL

(* A receipt that reports a sent answer reports the one that was sent.     *)
THEOREM ReceiptsAreTrue == Spec => []ReceiptMatchesMessage
BY ReplyInvariant, PTL DEF ReplyInv

-----------------------------------------------------------------------------
(* Receipts, when no hook takes the question.                              *)

(* There is a hook from the start or never, and no sender without it.      *)
LEMMA HookStaysOff ==
    ASSUME ReplyInv, [Next]_vars
    PROVE  /\ hook' = "off" <=> hook = "off"
           /\ hook = "off" => ~HookStep /\ ~SenderStep
<1>1. HookStep => hook # "off" /\ hook' # "off"
  BY DEF HookStep, HookRead, HookWrite, HookUnlink, HookStops
<1>2. SenderStep => hook # "off" /\ hook' = hook
  BY SenderShape DEF ReplyInv
<1>3. ASSUME NEW c \in Replies, ReplyStep(c) PROVE hook' = hook
  BY <1>3 DEF ReplyStep, ReplyBusy, ReplyAgain, ReplyUncertain, ReplyBegin, ReplyMark,
     ReplyPost, ReplyPostFails, ReplySaveSent, ReplySaveFailed
<1>4. ASSUME NEW a \in Acks, AckBegin(a) PROVE hook' = hook
  BY <1>4 DEF AckBegin
<1>5. ASSUME NEW w \in Writers, ReceiptStep(w) \/ Fails(w) PROVE hook' = hook
  BY <1>5 DEF ReceiptStep, ReceiptRead, ReceiptWrite, ReceiptUnlink, Fails
<1>6. QED
  BY <1>1, <1>2, <1>3, <1>4, <1>5 DEF Next, vars

LEMMA ReceiptInit == ASSUME Init PROVE ReceiptInv /\ SurvivalInv
  BY DEF Init, ReceiptInv, SurvivalInv, HasAnswer, NoTerminal

LEMMA ReceiptInductive ==
    ASSUME ReplyInv, ReceiptInv, [Next]_vars
    PROVE  ReceiptInv'
<1> SUFFICES ASSUME hook' = "off" PROVE ReceiptInv'
  BY DEF ReceiptInv
<1> hook = "off" /\ ~HookStep /\ ~SenderStep
  BY HookStaysOff
<1> USE DEF ReceiptInv
<1>0. /\ call \in [Writers -> Calls] /\ Nobody \notin Writers
      /\ \A w \in Writers : call[w].terminal \in Terminals
  BY DEF ReplyInv, TypeOK, Calls
<1>1. CASE UNCHANGED vars
  BY <1>1 DEF vars, lockVars
<1>2. ASSUME NEW c \in Replies, ReplyStep(c) PROVE ReceiptInv'
  <2>1. c \in Writers /\ c # Nobody
    BY DEF Writers
  <2>2. /\ UNCHANGED <<hook, receiptLock, receipt>>
        /\ \/ \E pc \in ReplySteps \cup {"refused"} : Goes(c, pc)
           \/ \E t : Becomes(c, "receipt", t) /\ HasAnswer(t)
    <3>1. CASE ReplyAgain(c)
      <4>1. response.answer \in Replies
        BY <3>1 DEF ReplyAgain, ReplyInv, TypeOK
      <4>2. HasAnswer(Repair(c))
        BY <4>1 DEF Repair, HasAnswer, Completed, Writers
      <4>3. QED
        BY <3>1, <4>2 DEF ReplyAgain
    <3>2. CASE ReplySaveSent(c)
      <4>1. HasAnswer(Completed(c, TRUE))
        BY <2>1 DEF HasAnswer, Completed
      <4>2. QED
        BY <3>2, <4>1 DEF ReplySaveSent, lockVars
    <3>3. CASE ReplyBusy(c) \/ ReplyUncertain(c) \/ ReplyBegin(c) \/ ReplyMark(c)
      BY <3>3 DEF ReplyBusy, ReplyUncertain, ReplyBegin, ReplyMark, lockVars, ReplySteps
    <3>4. CASE ReplyPost(c) \/ ReplyPostFails(c) \/ ReplySaveFailed(c)
      BY <3>4 DEF ReplyPost, ReplyPostFails, ReplySaveFailed, lockVars, ReplySteps
    <3>5. QED
      BY <1>2, <3>1, <3>2, <3>3, <3>4 DEF ReplyStep
  <2>3. CASE \E pc \in ReplySteps \cup {"refused"} : Goes(c, pc)
    <3>1. PICK pc \in ReplySteps \cup {"refused"} : Goes(c, pc)
      BY <2>3
    <3>2. pc \notin {"receipt", "read", "written"}
      BY DEF ReplySteps
    <3>3. QED
      BY <1>0, <2>1, <2>2, <3>1, <3>2 DEF Goes
  <2>4. CASE \E t : Becomes(c, "receipt", t) /\ HasAnswer(t)
    <3>1. PICK t : Becomes(c, "receipt", t) /\ HasAnswer(t)
      BY <2>4
    <3>2. QED
      BY <1>0, <2>1, <2>2, <3>1 DEF Becomes
  <2>5. QED
    BY <2>2, <2>3, <2>4
<1>3. ASSUME NEW a \in Acks, AckBegin(a) PROVE ReceiptInv'
  <2>1. PICK t : Becomes(a, "receipt", t)
    BY <1>3 DEF AckBegin
  <2>2. a \in Writers /\ a \notin Replies
    BY DEF Writers
  <2>3. QED
    BY <1>0, <1>3, <2>1, <2>2 DEF AckBegin, Becomes, lockVars
<1>4. ASSUME NEW w \in Writers, ReceiptStep(w) \/ Fails(w) PROVE ReceiptInv'
  <2>2. CASE ReceiptRead(w)
    <3>1. Previous \in Terminals
      BY TerminalsType DEF ReplyInv, TypeOK, Previous, Receipts
    <3>2. DEFINE t == Stronger(Previous, call[w].terminal)
    <3>3. w \in Replies => HasAnswer(t)
      BY <1>0, <2>2, <3>1, StrongerType DEF ReceiptRead
    <3>4. \A u \in Writers : call[u].pc \notin {"read", "written"}
      BY <1>0, <2>2 DEF ReceiptRead
    <3>5. QED
      BY <1>0, <2>2, <3>3, <3>4 DEF ReceiptRead, Becomes
  <2>3. CASE ReceiptWrite(w)
    <3>1. \A u \in Writers : call[u].pc \in {"read", "written"} => u = w
      BY <1>0, <2>3 DEF ReceiptWrite
    <3>2. QED
      BY <1>0, <2>3, <3>1 DEF ReceiptWrite, Goes, lockVars
  <2>4. CASE ReceiptUnlink(w)
    <3>1. \A u \in Writers : call[u].pc \in {"read", "written"} => u = w
      BY <1>0, <2>4 DEF ReceiptUnlink
    <3>2. QED
      BY <1>0, <2>4, <3>1 DEF ReceiptUnlink, Goes
  <2>5. CASE Fails(w)
    BY <1>0, <2>5 DEF Fails, Goes, Freed
  <2>6. QED
    BY <1>4, <2>2, <2>3, <2>4, <2>5 DEF ReceiptStep
<1>5. QED
  BY <1>1, <1>2, <1>3, <1>4 DEF Next

(* A reply's answer is never stored weaker than it is, and a finished reply*)
(* leaves it there.                                                        *)
LEMMA ReportedStep ==
    ASSUME ReplyInv, ReceiptInv, [Next]_vars, hook = "off",
           NEW c \in Replies, call[c].pc # "done", call'[c].pc = "done"
    PROVE  HasAnswer(receipt'.terminal)
<1>1. /\ call \in [Writers -> Calls] /\ c \in Writers
  BY DEF ReplyInv, TypeOK, Writers
<1>2. Next /\ ~HookStep /\ ~SenderStep
  BY HookStaysOff DEF vars
<1>3. ReceiptUnlink(c)
  <2>1. ASSUME NEW d \in Replies, ReplyStep(d) PROVE FALSE
    <3>1. \/ \E pc \in ReplySteps \cup {"refused"} : Goes(d, pc)
          \/ \E t : Becomes(d, "receipt", t)
      BY <2>1 DEF ReplyStep, ReplyBusy, ReplyAgain, ReplyUncertain, ReplyBegin, ReplyMark,
         ReplyPost, ReplyPostFails, ReplySaveSent, ReplySaveFailed, ReplySteps
    <3>2. CASE \E pc \in ReplySteps \cup {"refused"} : Goes(d, pc)
      BY <1>1, <3>2 DEF Goes, ReplySteps
    <3>3. CASE \E t : Becomes(d, "receipt", t)
      BY <1>1, <3>3 DEF Becomes
    <3>4. QED
      BY <3>1, <3>2, <3>3
  <2>2. ASSUME NEW a \in Acks, AckBegin(a) PROVE FALSE
    BY <1>1, <2>2 DEF AckBegin, Becomes
  <2>3. ASSUME NEW w \in Writers, ReceiptStep(w) \/ Fails(w) PROVE ReceiptUnlink(c)
    <3>1. CASE ReceiptRead(w)
      BY <1>1, <3>1 DEF ReceiptRead, Becomes
    <3>2. CASE ReceiptWrite(w)
      BY <1>1, <3>2 DEF ReceiptWrite, Goes
    <3>3. CASE ReceiptUnlink(w)
      <4>1. c = w
        BY <1>1, <3>3 DEF ReceiptUnlink, Goes
      <4>2. QED
        BY <3>3, <4>1
    <3>4. CASE Fails(w)
      BY <1>1, <3>4 DEF Fails, Goes
    <3>5. QED
      BY <2>3, <3>1, <3>2, <3>3, <3>4 DEF ReceiptStep
  <2>4. QED
    BY <1>2, <2>1, <2>2, <2>3 DEF Next
<1>4. QED
  BY <1>1, <1>3 DEF ReceiptUnlink, ReceiptInv

(* A reply that reports success has left a completed receipt with an       *)
(* answer, unless a hook writes to processed/ as well; failures at every   *)
(* step are allowed.                                                       *)
THEOREM RepliesAreRecorded == Spec => ReportedReplyIsRecorded
<1>1. Init => ReceiptInv
  BY ReceiptInit
<1>2. ReplyInv /\ ReceiptInv /\ [Next]_vars => ReceiptInv'
  BY ReceiptInductive
<1>3. ReplyInv /\ ReceiptInv /\ [Next]_vars =>
        [hook = "off" =>
            \A c \in Replies :
               call[c].pc # "done" /\ call'[c].pc = "done" => HasAnswer(receipt'.terminal)]_vars
  BY ReportedStep
<1>4. QED
  BY <1>1, <1>2, <1>3, ReplyInvariant, PTL DEF Spec, ReportedReplyIsRecorded

-----------------------------------------------------------------------------
(* Completed answers, when moreover no call stops between writing its      *)
(* receipt and unlinking the envelope.                                     *)

(* The steps of reply before its receipt touch no receipt and no envelope. *)
LEMMA ReplyStepShape ==
    ASSUME TypeOK, NEW c \in Replies, ReplyStep(c)
    PROVE  /\ UNCHANGED <<inbox, receipt, hook>>
           /\ c \in Writers
           /\ call[c].pc \notin {"read", "written"}
           /\ call'[c].pc \notin {"read", "written"}
           /\ \A u \in Writers \ {c} : call'[u] = call[u]
<1>1. c \in Writers /\ call \in [Writers -> Calls]
  BY DEF Writers, TypeOK
<1>2. ASSUME NEW pc \in ReplySteps \cup {"refused"}, Goes(c, pc)
      PROVE  /\ call'[c].pc \notin {"read", "written"}
             /\ \A u \in Writers \ {c} : call'[u] = call[u]
  <2>1. call'[c].pc = pc
    BY <1>1, <1>2 DEF Goes
  <2>2. \A u \in Writers \ {c} : call'[u] = call[u]
    BY <1>1, <1>2 DEF Goes
  <2>3. QED
    BY <2>1, <2>2 DEF ReplySteps
<1>3. ASSUME NEW t, Becomes(c, "receipt", t)
      PROVE  /\ call'[c].pc \notin {"read", "written"}
             /\ \A u \in Writers \ {c} : call'[u] = call[u]
  BY <1>1, <1>3 DEF Becomes
<1>4. CASE ReplyBusy(c) \/ ReplyUncertain(c)
  BY <1>1, <1>2, <1>4 DEF ReplyBusy, ReplyUncertain
<1>5. CASE ReplyAgain(c) \/ ReplySaveSent(c)
  BY <1>1, <1>3, <1>5 DEF ReplyAgain, ReplySaveSent
<1>6. CASE ReplyBegin(c) \/ ReplyMark(c)
  BY <1>1, <1>2, <1>6 DEF ReplyBegin, ReplyMark, ReplySteps
<1>7. CASE ReplyPost(c) \/ ReplyPostFails(c)
  BY <1>1, <1>2, <1>7 DEF ReplyPost, ReplyPostFails, ReplySteps
<1>8. CASE ReplySaveFailed(c)
  BY <1>1, <1>2, <1>8 DEF ReplySaveFailed
<1>9. QED
  BY <1>4, <1>5, <1>6, <1>7, <1>8 DEF ReplyStep

(* A call that stopped there stays where it stopped.                       *)
LEMMA TornStays ==
    ASSUME TypeOK, [Next]_vars, Torn
    PROVE  Torn'
<1>0. call \in [Writers -> Calls]
  BY DEF TypeOK
<1>1. PICK w \in Writers : call[w].pc = "torn"
  BY DEF Torn
<1>2. call'[w].pc = "torn"
  <2>1. ASSUME NEW c \in Replies, ReplyStep(c) PROVE call'[w] = call[w]
    <3>1. c # w
      BY <1>1, <2>1 DEF ReplyStep, ReplyBusy, ReplyAgain, ReplyUncertain, ReplyBegin, ReplyMark,
         ReplyPost, ReplyPostFails, ReplySaveSent, ReplySaveFailed
    <3>2. QED
      BY <2>1, <3>1, ReplyStepShape
  <2>2. ASSUME NEW a \in Acks, AckBegin(a) PROVE call'[w] = call[w]
    BY <1>0, <1>1, <2>2 DEF AckBegin, Becomes
  <2>3. ASSUME NEW u \in Writers, ReceiptStep(u) \/ Fails(u) PROVE call'[w] = call[w]
    <3>1. u # w
      BY <1>1, <2>3 DEF ReceiptStep, ReceiptRead, ReceiptWrite, ReceiptUnlink, Fails,
         ReplySteps, ReceiptSteps
    <3>2. QED
      BY <1>0, <2>3, <3>1 DEF ReceiptStep, ReceiptRead, ReceiptWrite, ReceiptUnlink, Fails,
         Becomes, Goes
  <2>4. CASE HookStep \/ SenderStep \/ UNCHANGED vars
    BY <1>1, <2>4, SenderShape DEF HookStep, HookRead, HookWrite, HookUnlink, HookStops, vars
  <2>5. QED
    BY <1>1, <2>1, <2>2, <2>3, <2>4 DEF Next
<1>3. QED
  BY <1>2 DEF Torn

LEMMA SurvivalStep ==
    ASSUME ReplyInv, ReceiptInv, SurvivalInv, [Next]_vars, hook' = "off", ~Torn'
    PROVE  /\ SurvivalInv'
           /\ HasAnswer(receipt.terminal) => HasAnswer(receipt'.terminal)
<1> hook = "off" /\ ~HookStep /\ ~SenderStep
  BY HookStaysOff
<1> ~Torn
  BY TornStays DEF ReplyInv
<1> USE DEF SurvivalInv
<1>0. /\ call \in [Writers -> Calls] /\ Nobody \notin Writers
      /\ \A w \in Writers : call[w].terminal \in Terminals
  BY DEF ReplyInv, TypeOK, Calls
<1>1. CASE UNCHANGED vars
  BY <1>1 DEF vars, lockVars
<1>2. ASSUME NEW w \in Writers, UNCHANGED <<inbox, receipt>>,
             call[w].pc # "written", call'[w].pc # "read",
             \A u \in Writers \ {w} : call'[u] = call[u]
      PROVE  SurvivalInv'
  BY <1>0, <1>2
<1>3. ASSUME NEW c \in Replies, ReplyStep(c)
      PROVE  /\ UNCHANGED <<inbox, receipt>> /\ c \in Writers
             /\ call[c].pc # "written" /\ call'[c].pc # "read"
             /\ \A u \in Writers \ {c} : call'[u] = call[u]
  BY <1>3, ReplyStepShape DEF ReplyInv
<1>4. ASSUME NEW a \in Acks, AckBegin(a)
      PROVE  /\ UNCHANGED <<inbox, receipt>> /\ a \in Writers
             /\ call[a].pc # "written" /\ call'[a].pc # "read"
             /\ \A u \in Writers \ {a} : call'[u] = call[u]
  <2>1. a \in Writers
    BY DEF Writers
  <2>2. PICK t : Becomes(a, "receipt", t)
    BY <1>4 DEF AckBegin
  <2>3. QED
    BY <1>0, <1>4, <2>1, <2>2 DEF AckBegin, Becomes
<1>5. ASSUME NEW w \in Writers, ReceiptRead(w) PROVE SurvivalInv'
  <2>1. \A u \in Writers : call[u].pc \notin {"read", "written"}
    BY <1>0, <1>5 DEF ReceiptRead, ReceiptInv
  <2>2. HasAnswer(receipt.terminal) => ~inbox /\ Previous = receipt.terminal
    BY <2>1 DEF Previous
  <2>3. Previous \in Terminals
    BY TerminalsType DEF ReplyInv, TypeOK, Previous, Receipts
  <2>4. HasAnswer(receipt.terminal) => HasAnswer(Stronger(Previous, call[w].terminal))
    BY <1>0, <2>2, <2>3, StrongerType
  <2>5. QED
    BY <1>0, <1>5, <2>1, <2>2, <2>4 DEF ReceiptRead, Becomes
<1>6. ASSUME NEW w \in Writers, ReceiptWrite(w)
      PROVE  /\ SurvivalInv'
             /\ HasAnswer(receipt.terminal) => HasAnswer(receipt'.terminal)
  <2>1. \A u \in Writers : call[u].pc = "read" => u = w
    BY <1>0, <1>6 DEF ReceiptWrite, ReceiptInv
  <2>2. call'[w].pc = "written" /\ \A u \in Writers \ {w} : call'[u] = call[u]
    BY <1>0, <1>6 DEF ReceiptWrite, Goes
  <2>3. QED
    BY <1>6, <2>1, <2>2 DEF ReceiptWrite
<1>7. ASSUME NEW w \in Writers, ReceiptUnlink(w) PROVE SurvivalInv'
  BY <1>0, <1>7 DEF ReceiptUnlink, Goes
<1>8. ASSUME NEW w \in Writers, Fails(w) PROVE SurvivalInv'
  <2>1. call[w].pc # "written"
    BY <1>0, <1>8 DEF Fails, Goes, Torn
  <2>2. QED
    BY <1>0, <1>8, <2>1 DEF Fails, Goes
<1>9. ASSUME NEW w \in Writers, ReceiptRead(w) \/ ReceiptUnlink(w) \/ Fails(w)
      PROVE  receipt' = receipt
  BY <1>9 DEF ReceiptRead, ReceiptUnlink, Fails
<1>10. QED
  BY <1>1, <1>2, <1>3, <1>4, <1>5, <1>6, <1>7, <1>8, <1>9 DEF Next, ReceiptStep

(* A completed answer survives every later acknowledgement, unless a hook  *)
(* takes the question or a call stops between receipt and unlink; a run    *)
(* shows that it does not without these conditions.                        *)
THEOREM CompletedAnswersSurvive == Spec => AnswerSurvives
<1>1. Init => ReceiptInv /\ SurvivalInv
  BY ReceiptInit
<1>2. ReplyInv /\ ReceiptInv /\ [Next]_vars => ReceiptInv'
  BY ReceiptInductive
<1>3. ReplyInv /\ ReceiptInv /\ SurvivalInv /\ [Next]_vars =>
         /\ SurvivalInv'
         /\ [hook = "off" /\ ~Torn' =>
               (HasAnswer(receipt.terminal) => HasAnswer(receipt'.terminal))]_vars
  <2> SUFFICES ASSUME ReplyInv, ReceiptInv, SurvivalInv, [Next]_vars
               PROVE  /\ SurvivalInv'
                      /\ [hook = "off" /\ ~Torn' =>
                            (HasAnswer(receipt.terminal) => HasAnswer(receipt'.terminal))]_vars
    OBVIOUS
  <2>1. CASE hook' = "off" /\ ~Torn'
    BY <2>1, SurvivalStep
  <2>2. CASE ~(hook' = "off" /\ ~Torn')
    <3>1. SurvivalInv'
      BY <2>2 DEF SurvivalInv
    <3>2. CASE hook = "off" /\ ~Torn'
      <4>1. hook' # "off"
        BY <2>2, <3>2
      <4>2. FALSE
        BY <4>1, <3>2, HookStaysOff
      <4>3. QED
        BY <4>2
    <3>3. CASE ~(hook = "off" /\ ~Torn')
      BY <3>1, <3>3
    <3>4. QED
      BY <3>2, <3>3
  <2>3. QED
    BY <2>1, <2>2
<1>4. QED
  BY <1>1, <1>2, <1>3, ReplyInvariant, PTL DEF Spec, AnswerSurvives

-----------------------------------------------------------------------------
(* The contract with the agent that asked.                                 *)

(* A reply that holds the lock has found the question open; what a call    *)
(* will write into the receipt as sent, and what the receipt shows as      *)
(* sent, is the answer on record.                                          *)
Sent(t) == t.sent => response.state = "sent" /\ response.answer = t.answer

RecordInv ==
    /\ response.state \in {"none", "failed"} => response.answer = Nobody
    /\ Sent(receipt.terminal)
    /\ \A w \in Writers :
          /\ call[w].pc = "mark" => response.state \in {"none", "failed"}
          /\ call[w].pc = "rejected" => response.state = "dispatching"
          /\ call[w].pc \in ReceiptSteps => Sent(call[w].terminal)

LEMMA RecordInit == ASSUME Init PROVE RecordInv
  BY DEF Init, RecordInv, Sent, NoTerminal, ReceiptSteps

LEMMA RecordInductive ==
    ASSUME ReplyInv, RecordInv, [Next]_vars
    PROVE  RecordInv'
<1> USE DEF RecordInv, Sent
<1>0. /\ call \in [Writers -> Calls] /\ Nobody \notin Writers
      /\ \A w \in Writers : call[w].pc \in ReplySteps => replyLock = w
  BY DEF ReplyInv, TypeOK
<1>1. CASE UNCHANGED vars
  BY <1>1 DEF vars, lockVars
<1>2. ASSUME NEW c \in Replies, ReplyStep(c) PROVE RecordInv'
  <2>1. c \in Writers
    BY DEF Writers
  <2>2. CASE ReplyBusy(c) \/ ReplyUncertain(c)
    <3>1. Goes(c, "refused") /\ UNCHANGED <<response, receipt>>
      BY <2>2 DEF ReplyBusy, ReplyUncertain
    <3>2. QED
      BY <1>0, <2>1, <3>1 DEF Goes, ReceiptSteps
  <2>3. CASE ReplyAgain(c)
    BY <1>0, <2>1, <2>3 DEF ReplyAgain, Becomes, Repair, Completed, ReceiptSteps
  <2>4. CASE ReplyBegin(c)
    BY <1>0, <2>1, <2>4 DEF ReplyBegin, Goes, Sendable, ReceiptSteps
  <2>5. CASE ReplyMark(c)
    BY <1>0, <2>1, <2>5 DEF ReplyMark, Goes, ReplySteps, ReceiptSteps
  <2>6. CASE ReplyPost(c)
    BY <1>0, <2>1, <2>6 DEF ReplyPost, Goes, ReceiptSteps
  <2>7. CASE ReplyPostFails(c)
    <3>1. response.state = "dispatching"
      BY <2>1, <2>7 DEF ReplyPostFails, ReplyInv, CallKnows
    <3>2. QED
      BY <1>0, <2>1, <2>7, <3>1 DEF ReplyPostFails, Goes, ReceiptSteps
  <2>8. CASE ReplySaveSent(c)
    <3>1. response.state = "dispatching"
      BY <2>1, <2>8 DEF ReplySaveSent, ReplyInv, CallKnows
    <3>2. QED
      BY <1>0, <2>1, <2>8, <3>1 DEF ReplySaveSent, Becomes, Completed, ReplySteps, ReceiptSteps
  <2>9. CASE ReplySaveFailed(c)
    BY <1>0, <2>1, <2>9 DEF ReplySaveFailed, Goes, ReplySteps, ReceiptSteps
  <2>10. QED
    BY <1>2, <2>2, <2>3, <2>4, <2>5, <2>6, <2>7, <2>8, <2>9 DEF ReplyStep
<1>3. ASSUME NEW a \in Acks, AckBegin(a) PROVE RecordInv'
  <2>1. PICK t \in {Drained, Completed(Nobody, FALSE), Completed(a, FALSE)} : Becomes(a, "receipt", t)
    BY <1>3 DEF AckBegin
  <2>2. ~t.sent /\ a \in Writers
    BY DEF Drained, Completed, Writers
  <2>3. QED
    BY <1>0, <1>3, <2>1, <2>2 DEF AckBegin, Becomes
<1>4. ASSUME NEW w \in Writers, ReceiptStep(w) \/ Fails(w) PROVE RecordInv'
  <2>1. CASE ReceiptRead(w)
    <3>1. Previous \in Terminals /\ call[w].terminal \in Terminals
      BY TerminalsType DEF ReplyInv, TypeOK, Previous, Receipts, Calls
    <3>2. Sent(Previous) /\ Sent(call[w].terminal)
      BY <2>1 DEF ReceiptRead, ReceiptSteps, Previous, NoTerminal
    <3>3. Sent(Stronger(Previous, call[w].terminal))
      BY <3>1, <3>2, StrongerType
    <3>4. QED
      BY <1>0, <2>1, <3>3 DEF ReceiptRead, Becomes
  <2>2. CASE ReceiptWrite(w)
    BY <1>0, <2>2 DEF ReceiptWrite, Goes, ReceiptSteps
  <2>3. CASE ReceiptUnlink(w)
    BY <1>0, <2>3 DEF ReceiptUnlink, Goes, ReceiptSteps
  <2>4. CASE Fails(w)
    BY <1>0, <2>4 DEF Fails, Goes, ReceiptSteps
  <2>5. QED
    BY <1>4, <2>1, <2>2, <2>3, <2>4 DEF ReceiptStep
<1>5. CASE HookStep
  BY <1>5 DEF HookStep, HookRead, HookWrite, HookUnlink, HookStops, NoTerminal
<1>6. CASE SenderStep
  BY <1>6, SenderShape
<1>7. QED
  BY <1>1, <1>2, <1>3, <1>4, <1>5, <1>6 DEF Next

(* Steps that leave the response record, the messages and the receipt are  *)
(* no steps of the contract.                                               *)
LEMMA ContractStutters ==
    ASSUME UNCHANGED <<response, posted, receipt>>
    PROVE  UNCHANGED Contract!contractVars
  BY DEF Contract!contractVars

LEMMA ReplyKeepsContract ==
    ASSUME ReplyInv, RecordInv, NEW c \in Replies, ReplyStep(c)
    PROVE  Contract!Next \/ UNCHANGED Contract!contractVars
<1>0. c \in Writers /\ CallKnows(c) /\ response \in Responses
  BY DEF ReplyInv, TypeOK, Writers
<1>1. CASE ReplyBusy(c) \/ ReplyAgain(c) \/ ReplyUncertain(c) \/ ReplyBegin(c) \/ ReplyPostFails(c)
  BY <1>1, ContractStutters DEF ReplyBusy, ReplyAgain, ReplyUncertain, ReplyBegin, ReplyPostFails
<1>2. CASE ReplyMark(c)
  <2>1. response.state \in {"none", "failed"}
    BY <1>0, <1>2 DEF ReplyMark, RecordInv
  <2>2. response' = [state |-> "dispatching", answer |-> c] /\ UNCHANGED <<posted, receipt>>
    BY <1>2 DEF ReplyMark
  <2>3. Contract!Claim(c)
    BY <2>1, <2>2 DEF Contract!Claim
  <2>4. QED
    BY <2>3 DEF Contract!Next
<1>3. CASE ReplyPost(c)
  <2>1. posted = {} /\ response.state = "dispatching" /\ response.answer = c
    BY <1>0, <1>3 DEF ReplyPost, CallKnows
  <2>2. posted' = {c} /\ UNCHANGED <<response, receipt>>
    BY <1>3, <2>1 DEF ReplyPost
  <2>3. Contract!Deliver
    BY <2>1, <2>2 DEF Contract!Deliver
  <2>4. QED
    BY <2>3 DEF Contract!Next
<1>4. CASE ReplySaveSent(c)
  <2>1. c \in posted /\ response.state = "dispatching" /\ response.answer = c
    BY <1>0, <1>4 DEF ReplySaveSent, CallKnows
  <2>2. posted = {c}
    BY <2>1 DEF ReplyInv, PostedIsKnown
  <2>3. response' = [state |-> "sent", answer |-> c] /\ UNCHANGED <<posted, receipt>>
    BY <1>4 DEF ReplySaveSent
  <2>4. Contract!Settle
    BY <2>1, <2>2, <2>3 DEF Contract!Settle
  <2>5. QED
    BY <2>4 DEF Contract!Next
<1>5. CASE ReplySaveFailed(c)
  <2>1. posted = {} /\ response.state = "dispatching"
    BY <1>0, <1>5 DEF ReplySaveFailed, CallKnows, RecordInv
  <2>2. response' = [state |-> "failed", answer |-> Nobody] /\ UNCHANGED <<posted, receipt>>
    BY <1>5 DEF ReplySaveFailed
  <2>3. Contract!Withdraw
    BY <2>1, <2>2 DEF Contract!Withdraw
  <2>4. QED
    BY <2>3 DEF Contract!Next
<1>6. QED
  BY <1>1, <1>2, <1>3, <1>4, <1>5 DEF ReplyStep

LEMMA ReceiptKeepsContract ==
    ASSUME ReplyInv, RecordInv, UNCHANGED <<response, posted>>, NEW t \in Terminals, Sent(t),
           receipt' = [exists |-> TRUE, terminal |-> t]
    PROVE  Contract!Next
<1>1. CASE t.sent
  <2>1. response.state = "sent" /\ response.answer = t.answer
    BY <1>1 DEF Sent
  <2>2. Contract!Report
    BY <1>1, <2>1 DEF Contract!Report
  <2>3. QED
    BY <2>2 DEF Contract!Next
<1>2. CASE ~t.sent
  <2>1. Contract!Unreport
    BY <1>2 DEF Contract!Unreport
  <2>2. QED
    BY <2>1 DEF Contract!Next
<1>3. QED
  BY <1>1, <1>2

LEMMA ContractStep ==
    ASSUME ReplyInv, RecordInv, [Next]_vars
    PROVE  [Contract!Next]_(Contract!contractVars)
<1>1. CASE UNCHANGED vars
  BY <1>1, ContractStutters DEF vars
<1>2. ASSUME NEW c \in Replies, ReplyStep(c) PROVE Contract!Next \/ UNCHANGED Contract!contractVars
  BY <1>2, ReplyKeepsContract
<1>3. ASSUME NEW a \in Acks, AckBegin(a) PROVE UNCHANGED Contract!contractVars
  BY <1>3, ContractStutters DEF AckBegin
<1>4. ASSUME NEW w \in Writers, ReceiptStep(w) \/ Fails(w)
      PROVE  Contract!Next \/ UNCHANGED Contract!contractVars
  <2>1. CASE ReceiptRead(w) \/ ReceiptUnlink(w) \/ Fails(w)
    BY <2>1, ContractStutters DEF ReceiptRead, ReceiptUnlink, Fails
  <2>2. CASE ReceiptWrite(w)
    <3>1. call[w].terminal \in Terminals
      BY DEF ReplyInv, TypeOK, Calls
    <3>2. Sent(call[w].terminal)
      BY <2>2 DEF ReceiptWrite, RecordInv, ReceiptSteps
    <3>3. receipt' = [exists |-> TRUE, terminal |-> call[w].terminal] /\ UNCHANGED <<response, posted>>
      BY <2>2 DEF ReceiptWrite
    <3>4. QED
      BY <3>1, <3>2, <3>3, ReceiptKeepsContract
  <2>3. QED
    BY <1>4, <2>1, <2>2 DEF ReceiptStep
<1>5. CASE HookStep
  <2>1. CASE HookWrite
    <3>1. Sent(NoTerminal)
      BY DEF Sent, NoTerminal
    <3>2. receipt' = [exists |-> TRUE, terminal |-> NoTerminal] /\ UNCHANGED <<response, posted>>
      BY <2>1 DEF HookWrite
    <3>3. QED
      BY <3>1, <3>2, TerminalsType, ReceiptKeepsContract
  <2>2. CASE HookRead \/ HookUnlink \/ HookStops
    BY <2>2, ContractStutters DEF HookRead, HookUnlink, HookStops
  <2>3. QED
    BY <1>5, <2>1, <2>2 DEF HookStep
<1>6. CASE SenderStep
  BY <1>6, SenderShape, ContractStutters
<1>7. QED
  BY <1>1, <1>2, <1>3, <1>4, <1>5, <1>6 DEF Next

LEMMA ContractInit == ASSUME Init PROVE Contract!Init
  BY DEF Init, Contract!Init, NoTerminal

(* However calls of reply repeat, overlap, raise or die, and whoever       *)
(* acknowledges the question meanwhile, answering it keeps the contract    *)
(* with the agent that asked.                                              *)
THEOREM AnsweringKeepsContract == Spec => ImplementsReplyContract
<1>1. Init => RecordInv /\ Contract!Init
  BY RecordInit, ContractInit
<1>2. ReplyInv /\ RecordInv /\ [Next]_vars
         => RecordInv' /\ [Contract!Next]_(Contract!contractVars)
  BY RecordInductive, ContractStep
<1>3. QED
  BY <1>1, <1>2, ReplyInvariant, PTL DEF Spec, ImplementsReplyContract, Contract!Spec

-----------------------------------------------------------------------------
(* What the contract is worth: whoever keeps it has given one answer at    *)
(* most, closes the question only when that answer was delivered, and      *)
(* reports no other.                                                       *)
THEOREM ContractGivesOneAnswer == Contract!Spec => []Contract!OneAnswerGiven
<1>1. Contract!Init => Contract!OneAnswerGiven
  BY DEF Contract!Init, Contract!OneAnswerGiven
<1>2. Contract!OneAnswerGiven /\ [Contract!Next]_(Contract!contractVars)
         => Contract!OneAnswerGiven'
  <2> SUFFICES ASSUME Contract!OneAnswerGiven, [Contract!Next]_(Contract!contractVars)
               PROVE  Contract!OneAnswerGiven'
    OBVIOUS
  <2> USE DEF Contract!OneAnswerGiven
  <2>1. CASE UNCHANGED Contract!contractVars
    BY <2>1 DEF Contract!contractVars
  <2>2. ASSUME NEW c \in Replies, Contract!Claim(c) PROVE Contract!OneAnswerGiven'
    BY <2>2 DEF Contract!Claim
  <2>3. CASE Contract!Deliver
    BY <2>3 DEF Contract!Deliver
  <2>4. CASE Contract!Withdraw
    BY <2>4 DEF Contract!Withdraw
  <2>5. CASE Contract!Settle
    BY <2>5 DEF Contract!Settle
  <2>6. CASE Contract!Report
    BY <2>6 DEF Contract!Report
  <2>7. CASE Contract!Unreport
    BY <2>7 DEF Contract!Unreport
  <2>8. QED
    BY <2>1, <2>2, <2>3, <2>4, <2>5, <2>6, <2>7 DEF Contract!Next
<1>3. QED
  BY <1>1, <1>2, PTL DEF Contract!Spec
=============================================================================
