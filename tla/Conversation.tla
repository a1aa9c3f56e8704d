---------------------------- MODULE Conversation ----------------------------
(***************************************************************************)
(* Answering one question that lies in the mailbox of its receiver:        *)
(*                                                                         *)
(*   reply       server.reply: sends the answer as a message of its own    *)
(*               and keeps responses/<q>.json, under <q>.reply.lock        *)
(*   receipts    server._save_processed_receipt: processed/<q>.json        *)
(*               replaces inbox/<q>.json, under <q>.lock; called by reply, *)
(*               mark_processed, the CLI's mark and drain, the watchdog    *)
(*   hook        hooks/user_prompt_submit_inbox_drain.py: moves the        *)
(*               question to processed/ without <q>.lock                   *)
(*   sender      server._ask_async, keystroke delivery: writes, types and  *)
(*               unlinks inbox/<q>.json without <q>.lock and leaves no     *)
(*               receipt                                                   *)
(*                                                                         *)
(* Calls may overlap: a receiver repeats a call, an old MCP process lives  *)
(* beside its successor.  Each may raise or die at any step; its flocks    *)
(* are released then.  The mailbox belongs to one registration of the      *)
(* address: archiving it is not part of this module.                       *)
(***************************************************************************)
EXTENDS Naturals

CONSTANTS
    Replies,        \* calls of reply; each brings an answer of its own
    Acks,           \* other calls that write a receipt
    Nobody,         \* holder of a free lock, and the text of an empty answer
    MaxFailures     \* bound: calls, hooks and senders that raise or die

Writers == Replies \cup Acks
Answers == Writers \cup {Nobody}

ASSUME ConversationAssumption ==
    /\ Replies \cap Acks = {}
    /\ Nobody \notin Writers
    /\ MaxFailures \in Nat

VARIABLES
    inbox,          \* inbox/<q>.json exists
    receipt,        \* processed/<q>.json
    response,       \* responses/<q>.json
    posted,         \* reply messages the questioner has in its mailbox (history)
    replyLock,      \* holder of locks/<q>.reply.lock
    receiptLock,    \* holder of locks/<q>.lock
    call,           \* call[w]: the process that executes call w
    hook,           \* the drain hook: "off", "idle", "read" or "written"
    sender,         \* where the question's keystroke delivery is; "off" without it
    failures        \* calls, hooks and senders that raised or died so far

lockVars == <<replyLock, receiptLock>>
vars == <<inbox, receipt, response, posted, lockVars, call, hook, sender, failures>>

-----------------------------------------------------------------------------
(* Data.                                                                   *)

(* The terminal entry of a receipt; sent: it carries a delivery_result.    *)
Terminals == [status : {"none", "drained", "completed"}, answer : Answers, sent : BOOLEAN]

NoTerminal == [status |-> "none", answer |-> Nobody, sent |-> FALSE]
Drained    == [status |-> "drained", answer |-> Nobody, sent |-> FALSE]

Completed(a, sent) == [status |-> "completed", answer |-> a, sent |-> sent]

HasAnswer(t) == t.status = "completed" /\ t.answer # Nobody

Receipts == [exists : BOOLEAN, terminal : Terminals]

Responses == [state : {"none", "dispatching", "failed", "sent"}, answer : Answers]

ReplySteps   == {"mark", "send", "sent", "rejected"}
ReceiptSteps == {"receipt", "read", "written"}
Ends         == {"done", "refused", "raised", "torn"}

Calls == [pc : {"new"} \cup ReplySteps \cup ReceiptSteps \cup Ends, terminal : Terminals]

\* Variant: only a completed receipt is held to be stronger.
KeepUnlessCompleted(old, new) ==
    IF old.status = "completed" /\ new.status # "completed" THEN old ELSE new

\* Variant: a completed receipt is never replaced.
KeepCompleted(old, new) == IF old.status = "completed" THEN old ELSE new

(* The terminal to keep when a receipt is written over another.            *)
Stronger(old, new) ==
    IF old.status = "completed" /\ (new.status # "completed" \/ new.answer = Nobody)
    THEN old ELSE new

(* The sender holds the send lock of the pane while it is at one of these. *)
Typing == {"locked", "ready", "marked", "typed", "stuck"}

SenderPCs == Typing \cup {"off", "waiting", "delivered", "undelivered", "fallback"}

(* The sender has written the question.  With keystroke delivery enabled   *)
(* there is a hook, and the sender goes on to type it into the pane.       *)
Init ==
    /\ hook \in {"off", "idle"}
    /\ sender = IF hook = "off" THEN "off" ELSE "waiting"
    /\ inbox = TRUE
    /\ receipt = [exists |-> FALSE, terminal |-> NoTerminal]
    /\ response = [state |-> "none", answer |-> Nobody]
    /\ posted = {}
    /\ replyLock = Nobody
    /\ receiptLock = Nobody
    /\ call = [w \in Writers |-> [pc |-> "new", terminal |-> NoTerminal]]
    /\ failures = 0

Becomes(w, pc, terminal) == call' = [call EXCEPT ![w] = [pc |-> pc, terminal |-> terminal]]

Goes(w, pc) == call' = [call EXCEPT ![w].pc = pc]

Freed(lock, w) == IF lock = w THEN Nobody ELSE lock

-----------------------------------------------------------------------------
(* server.reply                                                            *)

\* Variant: an interrupted reply may be sent again.
SendableAfterInterruption == {"none", "failed", "dispatching"}

(* States of the response record in which an answer may be sent.           *)
Sendable == {"none", "failed"}

\* Variant: the wrong field of the response record is stored.
RepairWithState(c) == Completed(response.state, TRUE)

(* What repeating a reply that was sent writes into the receipt.           *)
Repair(c) == Completed(response.answer, TRUE)

(* reply.lock is taken without waiting.                                    *)
ReplyBusy(c) ==
    /\ call[c].pc = "new"
    /\ replyLock # Nobody
    /\ Goes(c, "refused")
    /\ UNCHANGED <<inbox, receipt, response, posted, lockVars, hook, sender, failures>>

(* The answer was sent before: only its receipt is written.                *)
ReplyAgain(c) ==
    /\ call[c].pc = "new"
    /\ replyLock = Nobody
    /\ response.state = "sent"
    /\ replyLock' = c
    /\ Becomes(c, "receipt", Repair(c))
    /\ UNCHANGED <<inbox, receipt, response, posted, receiptLock, hook, sender, failures>>

(* An earlier call was interrupted while sending.                          *)
ReplyUncertain(c) ==
    /\ call[c].pc = "new"
    /\ replyLock = Nobody
    /\ response.state \notin Sendable \cup {"sent"}
    /\ Goes(c, "refused")
    /\ UNCHANGED <<inbox, receipt, response, posted, lockVars, hook, sender, failures>>

(* The original is found: history/<q>.json outlives the other two copies.  *)
ReplyBegin(c) ==
    /\ call[c].pc = "new"
    /\ replyLock = Nobody
    /\ response.state \in Sendable
    /\ replyLock' = c
    /\ Goes(c, "mark")
    /\ UNCHANGED <<inbox, receipt, response, posted, receiptLock, hook, sender, failures>>

ReplyMark(c) ==
    /\ call[c].pc = "mark"
    /\ response' = [state |-> "dispatching", answer |-> c]
    /\ Goes(c, "send")
    /\ UNCHANGED <<inbox, receipt, posted, lockVars, hook, sender, failures>>

(* _ask_async: the message is written into the questioner's inbox.         *)
ReplyPost(c) ==
    /\ call[c].pc = "send"
    /\ posted' = posted \cup {c}
    /\ Goes(c, "sent")
    /\ UNCHANGED <<inbox, receipt, response, lockVars, hook, sender, failures>>

\* Variant: an error is reported after that write.
ReplyPostFailsLate(c) ==
    /\ call[c].pc = "send"
    /\ posted' = posted \cup {c}
    /\ Goes(c, "rejected")
    /\ UNCHANGED <<inbox, receipt, response, lockVars, hook, sender, failures>>

(* _ask_async returns "ERROR:", always before that write.                  *)
ReplyPostFails(c) ==
    /\ call[c].pc = "send"
    /\ Goes(c, "rejected")
    /\ UNCHANGED <<inbox, receipt, response, posted, lockVars, hook, sender, failures>>

ReplySaveSent(c) ==
    /\ call[c].pc = "sent"
    /\ response' = [state |-> "sent", answer |-> c]
    /\ Becomes(c, "receipt", Completed(c, TRUE))
    /\ UNCHANGED <<inbox, receipt, posted, lockVars, hook, sender, failures>>

ReplySaveFailed(c) ==
    /\ call[c].pc = "rejected"
    /\ response' = [state |-> "failed", answer |-> Nobody]
    /\ Goes(c, "refused")
    /\ replyLock' = Freed(replyLock, c)
    /\ UNCHANGED <<inbox, receipt, posted, receiptLock, hook, sender, failures>>

-----------------------------------------------------------------------------
(* server.mark_processed, with or without an answer; cli mark and drain;   *)
(* the watchdog after it delivered the message.                            *)

AckBegin(a) ==
    /\ call[a].pc = "new"
    /\ \E t \in {Drained, Completed(Nobody, FALSE), Completed(a, FALSE)} :
          Becomes(a, "receipt", t)
    /\ UNCHANGED <<inbox, receipt, response, posted, lockVars, hook, sender, failures>>

-----------------------------------------------------------------------------
(* server._save_processed_receipt                                          *)

(* The terminal of the record that is read: inbox/ before processed/.      *)
Previous == IF inbox THEN NoTerminal ELSE receipt.terminal

ReceiptRead(w) ==
    /\ call[w].pc = "receipt"
    /\ receiptLock = Nobody
    /\ receiptLock' = w
    /\ Becomes(w, "read", Stronger(Previous, call[w].terminal))
    /\ UNCHANGED <<inbox, receipt, response, posted, replyLock, hook, sender, failures>>

ReceiptWrite(w) ==
    /\ call[w].pc = "read"
    /\ receipt' = [exists |-> TRUE, terminal |-> call[w].terminal]
    /\ Goes(w, "written")
    /\ UNCHANGED <<inbox, response, posted, lockVars, hook, sender, failures>>

(* The envelope is unlinked and the call returns; reply still held its     *)
(* own lock.                                                               *)
ReceiptUnlink(w) ==
    /\ call[w].pc = "written"
    /\ inbox' = FALSE
    /\ receiptLock' = Freed(receiptLock, w)
    /\ replyLock' = Freed(replyLock, w)
    /\ Goes(w, "done")
    /\ UNCHANGED <<receipt, response, posted, hook, sender, failures>>

-----------------------------------------------------------------------------
(* An exception or the death of the process; both release the locks.  A    *)
(* call that stops with its receipt written has left the envelope beside   *)
(* it ("torn").                                                            *)

Fails(w) ==
    /\ call[w].pc \in ReplySteps \cup ReceiptSteps
    /\ failures < MaxFailures
    /\ failures' = failures + 1
    /\ Goes(w, IF call[w].pc = "written" THEN "torn" ELSE "raised")
    /\ replyLock' = Freed(replyLock, w)
    /\ receiptLock' = Freed(receiptLock, w)
    /\ UNCHANGED <<inbox, receipt, response, posted, hook, sender>>

-----------------------------------------------------------------------------
(* The drain hook, when keystroke delivery is enabled.                     *)

(* The hook holds the send lock too.  The sender's lease may have run out. *)
HookRead ==
    /\ hook = "idle"
    /\ sender \notin Typing
    /\ inbox
    /\ hook' = "read"
    /\ UNCHANGED <<inbox, receipt, response, posted, lockVars, call, sender, failures>>

(* processed/<q>.json becomes a copy of the envelope that was read.        *)
HookWrite ==
    /\ hook = "read"
    /\ receipt' = [exists |-> TRUE, terminal |-> NoTerminal]
    /\ hook' = "written"
    /\ UNCHANGED <<inbox, response, posted, lockVars, call, sender, failures>>

HookUnlink ==
    /\ hook = "written"
    /\ inbox' = FALSE
    /\ hook' = "idle"
    /\ UNCHANGED <<receipt, response, posted, lockVars, call, sender, failures>>

(* The hook dies, or skips a file it cannot write.                         *)
HookStops ==
    /\ hook \in {"read", "written"}
    /\ failures < MaxFailures
    /\ failures' = failures + 1
    /\ hook' = "idle"
    /\ UNCHANGED <<inbox, receipt, response, posted, lockVars, call, sender>>

-----------------------------------------------------------------------------
(* The sender, when keystroke delivery is enabled: _ask_async after the    *)
(* question's first write.                                                 *)

(* A question that is gone from inbox/ was handled by somebody else.       *)
SenderLocks ==
    /\ sender = "waiting"
    /\ hook = "idle"
    /\ sender' = IF inbox THEN "locked" ELSE "delivered"
    /\ UNCHANGED <<inbox, receipt, response, posted, lockVars, call, hook, failures>>

(* What follows each write of the envelope: the lease is renewed, the mark *)
(* put, the question restored that stayed in the compose box, or left to   *)
(* the hook.                                                               *)
AfterWrite == [locked |-> "ready", ready |-> "marked", stuck |-> "undelivered",
               fallback |-> "off"]

SenderWrites ==
    /\ sender \in {"locked", "ready", "stuck", "fallback"}
    /\ inbox' = TRUE
    /\ sender' = AfterWrite[sender]
    /\ UNCHANGED <<receipt, response, posted, lockVars, call, hook, failures>>

(* Once typed, and once more when it returns, it unlinks the envelope.     *)
SenderUnlinks ==
    /\ sender \in {"marked", "delivered"}
    /\ inbox' = FALSE
    /\ sender' = IF sender = "marked" THEN "typed" ELSE "off"
    /\ UNCHANGED <<receipt, response, posted, lockVars, call, hook, failures>>

SenderVerifies ==
    /\ sender = "typed"
    /\ sender' \in {"delivered", "stuck"}
    /\ UNCHANGED <<inbox, receipt, response, posted, lockVars, call, hook, failures>>

(* The lock is not to be had, the user keeps typing, or a write or the     *)
(* injection raises.                                                       *)
SenderGivesUp ==
    /\ sender \in {"waiting", "locked", "ready", "marked", "stuck"}
    /\ sender' = "undelivered"
    /\ UNCHANGED <<inbox, receipt, response, posted, lockVars, call, hook, failures>>

(* The lock is released; if the envelope is still there, it is rewritten.  *)
SenderLooks ==
    /\ sender = "undelivered"
    /\ sender' = IF inbox THEN "fallback" ELSE "off"
    /\ UNCHANGED <<inbox, receipt, response, posted, lockVars, call, hook, failures>>

(* The process dies, or the call is cancelled.                             *)
SenderStops ==
    /\ sender # "off"
    /\ failures < MaxFailures
    /\ failures' = failures + 1
    /\ sender' = "off"
    /\ UNCHANGED <<inbox, receipt, response, posted, lockVars, call, hook>>

-----------------------------------------------------------------------------
ReplyStep(c) ==
    \/ ReplyBusy(c) \/ ReplyAgain(c) \/ ReplyUncertain(c) \/ ReplyBegin(c)
    \/ ReplyMark(c) \/ ReplyPost(c) \/ ReplyPostFails(c)
    \/ ReplySaveSent(c) \/ ReplySaveFailed(c)

ReceiptStep(w) == ReceiptRead(w) \/ ReceiptWrite(w) \/ ReceiptUnlink(w)

HookStep == HookRead \/ HookWrite \/ HookUnlink \/ HookStops

SenderStep == \/ SenderLocks \/ SenderWrites \/ SenderUnlinks \/ SenderVerifies
              \/ SenderGivesUp \/ SenderLooks \/ SenderStops

Next ==
    \/ \E c \in Replies : ReplyStep(c)
    \/ \E a \in Acks : AckBegin(a)
    \/ \E w \in Writers : ReceiptStep(w) \/ Fails(w)
    \/ HookStep
    \/ SenderStep

Spec == Init /\ [][Next]_vars

-----------------------------------------------------------------------------
(* Every variable holds what the code can put there.                       *)
TypeOK ==
    /\ inbox \in BOOLEAN
    /\ receipt \in Receipts
    /\ response \in Responses
    /\ posted \in SUBSET Replies
    /\ replyLock \in Replies \cup {Nobody}
    /\ receiptLock \in Answers
    /\ call \in [Writers -> Calls]
    /\ hook \in {"off", "idle", "read", "written"}
    /\ sender \in SenderPCs
    /\ failures \in Nat

(* "Repeating a completed reply does not send another message.  An         *)
(* interrupted dispatch is reported as uncertain, never blindly sent       *)
(* again" (server.reply): the questioner gets one answer at most, whatever *)
(* is repeated, overlaps or dies.                                          *)
OneReply == \A c, d \in posted : c = d

(* A call was interrupted between writing its receipt and unlinking the    *)
(* envelope, so that both exist.                                           *)
Torn == \E w \in Writers : call[w].pc = "torn"

(* "Existing completed answers survive duplicate or weaker                 *)
(* acknowledgements" (docs/reliable-conversations.md): whatever overlaps,  *)
(* repeats or raises, as long as every receipt is written under its lock   *)
(* and none was left beside its envelope.                                  *)
AnswerSurvives ==
    [][hook = "off" /\ ~Torn' =>
          (HasAnswer(receipt.terminal) => HasAnswer(receipt'.terminal))]_vars

(* The same promise as the document makes it, without those conditions.    *)
CompletedAnswerKept == [][HasAnswer(receipt.terminal) => HasAnswer(receipt'.terminal)]_vars

(* "If reply receipt writing fails, repeating the reply finishes the       *)
(* receipt" (README): a reply that reports success leaves a completed      *)
(* receipt with an answer, whatever was acknowledged before or meanwhile,  *)
(* unless a hook writes to processed/ as well.                             *)
ReportedReplyIsRecorded ==
    [][hook = "off" =>
          \A c \in Replies :
             call[c].pc # "done" /\ call'[c].pc = "done" => HasAnswer(receipt'.terminal)]_vars

(* What is promised to the agent that asked, of this module's variables:   *)
(* the response record says which answer was chosen and what is known of   *)
(* it, the receipt which answer was sent.                                  *)
Contract == INSTANCE ReplyContract WITH
    state <- CASE response.state \in {"none", "failed"} -> "open"
               [] response.state = "dispatching" -> "claimed"
               [] response.state = "sent" -> "answered",
    answer <- response.answer,
    delivered <- posted,
    reported <- IF receipt.terminal.sent THEN {receipt.terminal.answer} ELSE {}

(* Every step of reply, of the receipts and of the hook keeps the promise  *)
(* made to the agent that asked: an answer it has is on record as sent or  *)
(* as uncertain, with its text, and never as failed, which would invite    *)
(* another; and a receipt that reports a sent answer reports that one,     *)
(* also when it is repaired by a call with another text.                   *)
ImplementsReplyContract == Contract!Spec
=============================================================================
