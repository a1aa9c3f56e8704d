---------------------------- MODULE ChannelPump -----------------------------
(***************************************************************************)
(* Native delivery to Claude sessions: the pumps of one address            *)
(* (claude_channel.ChannelPump), each in the MCP server process of one     *)
(* session, with the registry record and the mailbox they share.           *)
(*                                                                         *)
(* A pump connects by writing itself into the record, greets its session   *)
(* with a nonce, and once the session has confirmed it, scans the inbox    *)
(* and turns every message into an event of its session.  Sessions may     *)
(* register the address, lose it and get it back; a session that           *)
(* reconnects starts another pump, beside the old one or after its end.    *)
(*                                                                         *)
(* A pump's code between two awaits runs without interruption by its own   *)
(* process, but other processes step in between its reads and writes; each *)
(* of those is a step.  Keystroke delivery is off, the default.            *)
(***************************************************************************)
EXTENDS Naturals

CONSTANTS
    Jobs,               \* messages
    Sessions,           \* Claude sessions that may register the address
    Pumps,              \* connections, each in a process of its own
    NoSession, NoPump,  \* absent values
    MaxRegistrations,   \* bound: registrations of the address
    MaxStops            \* bound: pumps cancelled or killed

ASSUME ChannelAssumption ==
    /\ NoSession \notin Sessions
    /\ NoPump \notin Pumps
    /\ MaxRegistrations \in Nat
    /\ MaxStops \in Nat

VARIABLES
    record,         \* the address in registry.json: owner and channel; native: the
                    \* Claude process without a pane whose address it is, if any
    registrations,  \* registrations so far
    box,            \* box[j]: where the envelope of j is
    recipient,      \* recipient[j]: recipient_session_id or recipient_claude_owner
    mail,           \* mail[j]: channel_delivery in the envelope
    sendLock,       \* holder of .send-lock
    receiptLock,    \* receiptLock[j]: holder of locks/<j>.lock
    acks,           \* messages whose receipt is being written
    handled,        \* messages acknowledged so far (history)
    orphaned,       \* messages a pump was writing when their mailbox and its locks
                    \* were renamed (history)
    pump,           \* pump[p]: the task of p
    events,         \* events[j][p]: events that carried j to p's session (history)
    stops           \* pumps cancelled or killed so far

registryVars == <<record, registrations>>
mailVars     == <<box, recipient, mail>>
lockVars     == <<sendLock, receiptLock>>
ackVars      == <<acks, handled, orphaned>>
vars == <<registryVars, mailVars, lockVars, ackVars, pump, events, stops>>

-----------------------------------------------------------------------------
(* Data.                                                                   *)

ChannelStates == {"none", "awaiting_handshake", "ready", "closed"}

SomeSession == Sessions \cup {NoSession}

Records == [owner : SomeSession, conn : Pumps \cup {NoPump}, state : ChannelStates,
            native : SomeSession]

Headless == record.native # NoSession

Unchannelled(s) == [record EXCEPT !.owner = s, !.conn = NoPump, !.state = "none"]

Marks == {"none", "dispatching", "sent", "uncertain", "failed"}

\* Variant: a message is taken again after a death or a failed write.
HandedOverBySent == {"sent", "failed"}

(* Values of channel_delivery that end a message's turn in the scan.       *)
HandedOver == {"dispatching", "sent", "uncertain", "failed"}

PumpPCs == {"new", "connect", "greet", "loop", "beat", "scan", "each", "read", "check",
            "update", "write", "notify", "closing", "ended", "dead"}

(* session: the session p serves; beside: another pump was running when p  *)
(* started (history); job: the message at hand, if any; mark: the          *)
(* channel_delivery that _update_pending is about to write.                *)
PumpStates == [pc : PumpPCs, session : SomeSession, beside : BOOLEAN, ready : BOOLEAN,
               todo : SUBSET Jobs, job : SUBSET Jobs, mark : Marks]

NewPump == [pc |-> "new", session |-> NoSession, beside |-> FALSE, ready |-> FALSE,
            todo |-> {}, job |-> {}, mark |-> "none"]

Init ==
    /\ \E s \in Sessions : \E n \in {s, NoSession} :
          record = [owner |-> s, conn |-> NoPump, state |-> "none", native |-> n]
    /\ registrations = 0
    /\ box = [j \in Jobs |-> "unsent"]
    /\ recipient = [j \in Jobs |-> NoSession]
    /\ mail = [j \in Jobs |-> "none"]
    /\ sendLock = NoPump
    /\ receiptLock = [j \in Jobs |-> "free"]
    /\ acks = {} /\ handled = {} /\ orphaned = {}
    /\ pump = [p \in Pumps |-> NewPump]
    /\ events = [j \in Jobs |-> [p \in Pumps |-> 0]]
    /\ stops = 0

-----------------------------------------------------------------------------
(* Registry and mailbox: the other processes.                              *)

(* Another pane registers the address: refused while a channel holds it.   *)
(* The mailbox stays where it is.  (A pane that registers its own address  *)
(* again keeps its record, channel included.)                              *)
Register(s) ==
    /\ ~Headless
    /\ record.owner # s
    /\ record.conn = NoPump
    /\ registrations < MaxRegistrations
    /\ registrations' = registrations + 1
    /\ record' = Unchannelled(s)
    /\ UNCHANGED <<mailVars, lockVars, ackVars, pump, events, stops>>

(* p is past the check of the path and about to write the envelope of j.   *)
Writing(p, j) == pump[p].pc = "write" /\ j \in pump[p].job

(* The mailbox of a channel address is renamed, with its lock files, and   *)
(* the address removed, under the registry lock.                           *)
Unregister ==
    /\ record.owner # NoSession
    /\ record' = Unchannelled(NoSession)
    /\ IF Headless \/ record.conn # NoPump
       THEN /\ box' = [j \in Jobs |-> IF box[j] = "inbox" THEN "archived" ELSE box[j]]
            /\ sendLock' = NoPump
            /\ receiptLock' = [j \in Jobs |-> "free"]
            /\ orphaned' = orphaned \cup {j \in Jobs : \E p \in Pumps : Writing(p, j)}
       ELSE UNCHANGED <<box, lockVars, orphaned>>
    /\ UNCHANGED <<registrations, recipient, mail, acks, handled, pump, events, stops>>

(* server._ask_async: the envelope is written under the registry lock for  *)
(* the owner the record names at that moment.                              *)
Ask(j) ==
    /\ box[j] = "unsent"
    /\ record.owner # NoSession
    /\ box' = [box EXCEPT ![j] = "inbox"]
    /\ recipient' = [recipient EXCEPT ![j] = record.owner]
    /\ UNCHANGED <<registryVars, mail, lockVars, ackVars, pump, events, stops>>

(* mark_processed, or reply's receipt, of the receiver: the envelope may   *)
(* have left the inbox before.  One acknowledgement of a message at a time.*)
AckBegin(j) ==
    /\ box[j] # "unsent" /\ j \notin acks
    /\ receiptLock[j] = "free"
    /\ receiptLock' = [receiptLock EXCEPT ![j] = "ack"]
    /\ acks' = acks \cup {j}
    /\ UNCHANGED <<registryVars, mailVars, sendLock, handled, orphaned, pump, events, stops>>

(* Its lock file may have been renamed, with the mailbox, meanwhile.       *)
AckUnlocks(j) ==
    /\ j \in acks
    /\ acks' = acks \ {j}
    /\ receiptLock' = [receiptLock EXCEPT ![j] = IF @ = "ack" THEN "free" ELSE @]

(* The receipt is in processed/, and the envelope unlinked if it is there. *)
AckEnd(j) ==
    /\ AckUnlocks(j)
    /\ box' = [box EXCEPT ![j] = IF @ = "inbox" THEN "done" ELSE @]
    /\ handled' = handled \cup {j}
    /\ UNCHANGED <<registryVars, recipient, mail, sendLock, orphaned, pump, events, stops>>

(* The call fails or dies and leaves the envelope.                         *)
AckStops(j) ==
    /\ AckUnlocks(j)
    /\ UNCHANGED <<registryVars, mailVars, sendLock, handled, orphaned, pump, events, stops>>

-----------------------------------------------------------------------------
(* ChannelPump                                                             *)

Current(p) == record.conn = p

Goes(p, pc) == pump' = [pump EXCEPT ![p].pc = pc]

(* _state: not written over another connection's channel.                  *)
StateWritten(p, state) ==
    record' = IF record.owner # NoSession /\ record.conn \in {NoPump, p}
              THEN [record EXCEPT !.conn = p, !.state = state]
              ELSE record

Live(p) == pump[p].pc \notin {"new", "dead"}

(* _ensure_channel: a pump for the address its session has; a Claude        *)
(* process without a pane (re)writes its record first, without a channel.  *)
Start(p) ==
    /\ pump[p].pc = "new"
    /\ LET s == IF Headless THEN record.native ELSE record.owner
       IN  /\ s # NoSession
           /\ pump' = [pump EXCEPT ![p].pc = "connect", ![p].session = s,
                                   ![p].beside = \E q \in Pumps : Live(q)]
           /\ record' = IF Headless THEN Unchannelled(s) ELSE record
    /\ UNCHANGED <<registrations, mailVars, lockVars, ackVars, events, stops>>

(* connect, half a second later.                                           *)
Connect(p) ==
    /\ pump[p].pc = "connect"
    /\ IF record.owner # NoSession
       THEN /\ record' = [record EXCEPT !.conn = p, !.state = "awaiting_handshake"]
            /\ Goes(p, "greet")
       ELSE /\ Goes(p, "ended")
            /\ UNCHANGED record
    /\ UNCHANGED <<registrations, mailVars, lockVars, ackVars, events, stops>>

Greet(p) ==
    /\ pump[p].pc = "greet"
    /\ \E pc \in {"loop", "ended"} : Goes(p, pc)
    /\ UNCHANGED <<registryVars, mailVars, lockVars, ackVars, events, stops>>

(* confirm, while the task of p sleeps, waits or has ended: the model      *)
(* called channel_ready with p's nonce.                                    *)
Confirm(p) ==
    /\ pump[p].pc \in {"greet", "loop", "notify", "ended"}
    /\ Current(p)
    /\ pump' = [pump EXCEPT ![p].ready = TRUE]
    /\ StateWritten(p, "ready")
    /\ UNCHANGED <<registrations, mailVars, lockVars, ackVars, events, stops>>

(* run                                                                     *)
Loop(p) ==
    /\ pump[p].pc = "loop"
    /\ Goes(p, IF Current(p) THEN "beat" ELSE "closing")
    /\ UNCHANGED <<registryVars, mailVars, lockVars, ackVars, events, stops>>

Beat(p) ==
    /\ pump[p].pc = "beat"
    /\ StateWritten(p, IF pump[p].ready THEN "ready" ELSE "awaiting_handshake")
    /\ Goes(p, IF pump[p].ready THEN "scan" ELSE "loop")
    /\ UNCHANGED <<registrations, mailVars, lockVars, ackVars, events, stops>>

(* close: when run ends, and again when the server does.                   *)
Close(p) ==
    /\ pump[p].pc \in {"closing", "ended"}
    /\ pump' = [pump EXCEPT ![p].pc = IF @ = "closing" THEN "ended" ELSE "dead",
                            ![p].ready = FALSE]
    /\ StateWritten(p, "closed")
    /\ UNCHANGED <<registrations, mailVars, lockVars, ackVars, events, stops>>

(* scan_once: the inbox is listed ...                                      *)
Scan(p) ==
    /\ pump[p].pc = "scan"
    /\ pump' = IF Current(p)
               THEN [pump EXCEPT ![p].pc = "each", ![p].todo = {j \in Jobs : box[j] = "inbox"}]
               ELSE [pump EXCEPT ![p].pc = "loop"]
    /\ UNCHANGED <<registryVars, mailVars, lockVars, ackVars, events, stops>>

(* ... and gone through as long as the connection is current.              *)
NextPath(p) ==
    /\ pump[p].pc = "each"
    /\ IF Current(p) /\ pump[p].todo # {}
       THEN \E j \in pump[p].todo :
               pump' = [pump EXCEPT ![p].pc = "read", ![p].job = {j}, ![p].todo = @ \ {j}]
       ELSE Goes(p, "loop")
    /\ UNCHANGED <<registryVars, mailVars, lockVars, ackVars, events, stops>>

(* The envelope is gone, or has been handed over.                          *)
Read(p) ==
    /\ pump[p].pc = "read"
    /\ \E j \in pump[p].job :
          Goes(p, IF box[j] = "inbox" /\ mail[j] \notin HandedOver THEN "check" ELSE "each")
    /\ UNCHANGED <<registryVars, mailVars, lockVars, ackVars, events, stops>>

\* Variant: the envelope is marked after the event only.
CheckThenNotify(p) ==
    /\ pump[p].pc = "check"
    /\ \E j \in pump[p].job :
          Goes(p, IF recipient[j] = record.owner THEN "notify" ELSE "each")
    /\ UNCHANGED <<registryVars, mailVars, lockVars, ackVars, events, stops>>

(* A message for another owner is left alone, or marked failed when it     *)
(* names a Claude process.                                                 *)
Check(p) ==
    /\ pump[p].pc = "check"
    /\ \E j \in pump[p].job :
          pump' = IF recipient[j] = record.owner
                  THEN [pump EXCEPT ![p].pc = "update", ![p].mark = "dispatching"]
                  ELSE IF Headless
                  THEN [pump EXCEPT ![p].pc = "update", ![p].mark = "failed"]
                  ELSE [pump EXCEPT ![p].pc = "each"]
    /\ UNCHANGED <<registryVars, mailVars, lockVars, ackVars, events, stops>>

-----------------------------------------------------------------------------
(* _update_pending                                                         *)

(* A lock is taken (hooks take .send-lock at any time), or the receiver    *)
(* has handled the message: nothing is written.                            *)
UpdateSkipped(p) ==
    /\ pump[p].pc = "update"
    /\ Goes(p, IF pump[p].mark = "uncertain" THEN "closing" ELSE "each")
    /\ UNCHANGED <<registryVars, mailVars, lockVars, ackVars, events, stops>>

\* Variant: the envelope is written back without looking whether it is there.
StillThere(j) == TRUE

(* The check of the path, under both locks.                                *)
Exists(j) == box[j] = "inbox"

UpdateBegin(p) ==
    /\ pump[p].pc = "update"
    /\ sendLock = NoPump
    /\ \A j \in pump[p].job : receiptLock[j] = "free" /\ Exists(j)
    /\ sendLock' = p
    /\ receiptLock' = [j \in Jobs |-> IF j \in pump[p].job THEN "pump" ELSE receiptLock[j]]
    /\ Goes(p, "write")
    /\ UNCHANGED <<registryVars, mailVars, ackVars, events, stops>>

(* The locks are released.  After an unregister the files that p holds     *)
(* locked are not the ones that lie in the mailbox.                        *)
LocksReleased(p) ==
    /\ sendLock' = IF sendLock = p THEN NoPump ELSE sendLock
    /\ receiptLock' = [j \in Jobs |-> IF sendLock = p /\ j \in pump[p].job
                                      THEN "free" ELSE receiptLock[j]]

(* _write_inbox: the envelope as it was read, with the mark.               *)
UpdateWrite(p) ==
    /\ pump[p].pc = "write"
    /\ box' = [j \in Jobs |-> IF j \in pump[p].job THEN "inbox" ELSE box[j]]
    /\ mail' = [j \in Jobs |-> IF j \in pump[p].job THEN pump[p].mark ELSE mail[j]]
    /\ LocksReleased(p)
    /\ Goes(p, CASE pump[p].mark = "dispatching" -> "notify"
                 [] pump[p].mark = "uncertain"   -> "closing"
                 [] OTHER                        -> "each")
    /\ UNCHANGED <<registryVars, recipient, ackVars, events, stops>>

Happens(p) == events' = [j \in Jobs |->
    IF j \in pump[p].job THEN [events[j] EXCEPT ![p] = @ + 1] ELSE events[j]]

\* Variant: a transport write is taken for a processed message.
NotifyMarksProcessed(p) ==
    /\ pump[p].pc = "notify"
    /\ Happens(p)
    /\ pump' = [pump EXCEPT ![p].pc = "update", ![p].mark = "processed"]
    /\ UNCHANGED <<registryVars, mailVars, lockVars, ackVars, stops>>

Notify(p) ==
    /\ pump[p].pc = "notify"
    /\ Happens(p)
    /\ pump' = [pump EXCEPT ![p].pc = "update", ![p].mark = "sent"]
    /\ UNCHANGED <<registryVars, mailVars, lockVars, ackVars, stops>>

\* Variant: the exception is swallowed.
NotifyRaisesUnnoticed(p) ==
    /\ pump[p].pc = "notify"
    /\ Happens(p) \/ UNCHANGED events
    /\ pump' = [pump EXCEPT ![p].pc = "update", ![p].mark = "sent"]
    /\ UNCHANGED <<registryVars, mailVars, lockVars, ackVars, stops>>

(* send_notification raises; the session may have the event all the same.  *)
NotifyRaises(p) ==
    /\ pump[p].pc = "notify"
    /\ Happens(p) \/ UNCHANGED events
    /\ pump' = [pump EXCEPT ![p].pc = "update", ![p].mark = "uncertain"]
    /\ UNCHANGED <<registryVars, mailVars, lockVars, ackVars, stops>>

-----------------------------------------------------------------------------
(* The end of a pump.                                                      *)

(* The task is cancelled at an await; its process closes the channel.      *)
Cancel(p) ==
    /\ pump[p].pc \in {"connect", "greet", "loop", "notify"}
    /\ stops < MaxStops
    /\ stops' = stops + 1
    /\ (pump[p].pc = "notify" /\ Happens(p)) \/ UNCHANGED events
    /\ Goes(p, IF pump[p].pc \in {"loop", "notify"} THEN "closing" ELSE "ended")
    /\ UNCHANGED <<registryVars, mailVars, lockVars, ackVars>>

(* The process is killed.                                                  *)
Killed(p) ==
    /\ pump[p].pc \notin {"new", "dead"}
    /\ stops < MaxStops
    /\ stops' = stops + 1
    /\ (pump[p].pc = "notify" /\ Happens(p)) \/ UNCHANGED events
    /\ pump' = [pump EXCEPT ![p].pc = "dead", ![p].ready = FALSE]
    /\ IF pump[p].pc = "write" THEN LocksReleased(p) ELSE UNCHANGED lockVars
    /\ UNCHANGED <<registryVars, mailVars, ackVars>>

-----------------------------------------------------------------------------
MailboxStep ==
    \/ Unregister
    \/ \E s \in Sessions : Register(s)
    \/ \E j \in Jobs : Ask(j) \/ AckBegin(j) \/ AckEnd(j) \/ AckStops(j)

PumpStep(p) ==
    \/ Start(p) \/ Connect(p) \/ Greet(p) \/ Confirm(p) \/ Loop(p) \/ Beat(p) \/ Close(p)
    \/ Scan(p) \/ NextPath(p) \/ Read(p) \/ Check(p)
    \/ UpdateSkipped(p) \/ UpdateBegin(p) \/ UpdateWrite(p)
    \/ Notify(p) \/ NotifyRaises(p) \/ Cancel(p) \/ Killed(p)

Next == MailboxStep \/ \E p \in Pumps : PumpStep(p)

Spec == Init /\ [][Next]_vars

-----------------------------------------------------------------------------
(* Every variable holds what the code can put there.                       *)
TypeOK ==
    /\ record \in Records
    /\ registrations \in Nat
    /\ box \in [Jobs -> {"unsent", "inbox", "done", "archived"}]
    /\ recipient \in [Jobs -> Sessions \cup {NoSession}]
    /\ mail \in [Jobs -> Marks]
    /\ sendLock \in Pumps \cup {NoPump}
    /\ receiptLock \in [Jobs -> {"free", "ack", "pump"}]
    /\ acks \in SUBSET Jobs /\ handled \in SUBSET Jobs /\ orphaned \in SUBSET Jobs
    /\ pump \in [Pumps -> PumpStates]
    /\ events \in [Jobs -> [Pumps -> Nat]]
    /\ stops \in Nat

Delivered(j) == \E p \in Pumps : events[j][p] > 0

(* A message that became an event of any session is marked, so that no     *)
(* later scan takes it again, whoever wrote the envelope last.             *)
EventIsMarked == \A j \in Jobs : Delivered(j) => mail[j] \in HandedOver

(* "Mark transport writes as sent" (docs/native-claude-channel.md): the    *)
(* mark is never there without an event.                                   *)
SentTruthful == \A j \in Jobs : mail[j] = "sent" => Delivered(j)

(* A connection does not send a message twice, whatever others do.         *)
OncePerConnection == \A j \in Jobs, p \in Pumps : events[j][p] <= 1

(* "Do not recreate an inbox item after a fast receipt"                    *)
(* (docs/native-claude-channel.md): an acknowledged message that has left  *)
(* the inbox never comes back, unless a pump was past its check when the   *)
(* mailbox was renamed with the locks it held.  From then on nothing keeps *)
(* its write apart from an acknowledgement, and the message does come back.*)
HandledStaysHandled ==
    [][\A j \in Jobs \ orphaned : j \in handled /\ box[j] # "inbox" => box'[j] # "inbox"]_vars

(* "Preserve uncertain dispatch rather than blindly resending", with       *)
(* duplicate suppression (docs/native-claude-channel.md): of two           *)
(* connections that delivered one message, one was started beside a        *)
(* running one.  Restarts after an end, clean or not, do not repeat it.    *)
AtMostOneEvent ==
    \A j \in Jobs, p, q \in Pumps : events[j][p] > 0 /\ events[j][q] > 0
        => p = q \/ pump[p].beside \/ pump[q].beside
=============================================================================
