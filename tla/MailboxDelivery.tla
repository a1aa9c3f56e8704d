-------------------------- MODULE MailboxDelivery ---------------------------
(***************************************************************************)
(* Automatic delivery of the mail of one pane-free Codex address:          *)
(*                                                                         *)
(*   sender     server._ask_async, the mailbox branch                      *)
(*   registry   registry.register_mailbox / unregister,                    *)
(*              server.configure_mailbox_delivery                          *)
(*   worker     mailbox_worker.scan_once / deliver_record with             *)
(*              codex_transport.deliver                                    *)
(*   receiver   server.mark_processed, server.retry_delivery               *)
(*   app-server external: Codex threads, and requests that can be          *)
(*              accepted, rejected or lost, also after the worker stopped  *)
(*              waiting                                                    *)
(*                                                                         *)
(* All of them are separate processes that share files under               *)
(* ~/.teammate-mcp: one step below is the work a process does between two  *)
(* points where another process's write can come in between.  Any process  *)
(* may die at any step; its flocks are released then.                      *)
(***************************************************************************)
EXTENDS Integers

CONSTANTS
    Jobs,               \* messages, named by their job_id
    Threads,            \* Codex threads that own or may claim the address
    NoThread,           \* no thread
    NoJob,              \* no message
    PolicyChoices,      \* bound: the policies owners choose from
    UserChoices,        \* bound: what the threads' users do: begin turns, close threads
    MaxAttempts,        \* failed attempts before the worker gives up: 3 in the code
    MaxRegistrations,   \* bound: register_mailbox calls
    MaxCrashes          \* bound: deaths of worker, receiver or sender processes

Policies == {"idle", "immediate"}

ASSUME ConstantsAssumption ==
    /\ PolicyChoices \subseteq Policies
    /\ UserChoices \subseteq {"active", "closed"}
    /\ NoThread \notin Threads
    /\ NoJob \notin Jobs
    /\ MaxAttempts \in Nat \ {0}
    /\ MaxRegistrations \in Nat
    /\ MaxCrashes \in Nat

VARIABLES
    endpoint,       \* the registry's record of the address
    registrations,  \* how often the address was registered: the clock of registered_at
    regLock,        \* registry._exclusive_lock: "free", "ask" or "unregister"
    sender,         \* sender[j]: the process that sends j, [pc, ep]
    recipient,      \* recipient[j]: recipient_thread_id in j's envelope
    box,            \* box[j]: where j's envelope is
    delivery,       \* delivery[j]: the file delivery/<j>.json
    connBackoff,    \* delivery/connection.json holds a retry_at in the future
    deliveryLock,   \* deliveryLock[j]: holder of locks/<j>.delivery.lock
    receiptLock,    \* receiptLock[j]: holder of locks/<j>.lock
    worker,         \* the one mailbox worker process
    threadSt,       \* threadSt[t]: "idle", "active" or "closed" to direct input
    reachable,      \* the app-server's socket accepts connections
    flight,         \* turn requests the app-server has not decided yet
    accepted,       \* accepted[j][t]: turns of t that contain j (history)
    crashes         \* deaths so far

registryVars == <<endpoint, registrations, regLock>>
mailVars     == <<recipient, box, delivery, connBackoff>>
lockVars     == <<deliveryLock, receiptLock>>
serverVars   == <<threadSt, reachable, flight, accepted>>
vars == <<registryVars, sender, mailVars, lockVars, worker, serverVars, crashes>>

-----------------------------------------------------------------------------
(* Data.                                                                   *)

Endpoints == [thread : Threads \cup {NoThread}, auto : BOOLEAN,
              policy : Policies, stamp : Nat]

NoEndpoint == [thread |-> NoThread, auto |-> FALSE, policy |-> "idle", stamp |-> 0]

\* Variant: the states a crash leaves behind are forgotten.
TerminalStatesAfterAnswer == {"delivered", "uncertain", "failed", "processed"}

(* States the worker leaves alone.                                         *)
TerminalStates == {"delivered", "dispatching", "uncertain", "failed", "processed"}

DeliveryStates == TerminalStates \cup {"none", "waiting", "retry", "queued"}

(* backoff: retry_at lies in the future; the code reads it of a "retry"    *)
(* record only, as every other record with a retry_at is terminal.         *)
DeliveryRecords == [state : DeliveryStates, attempts : Nat, backoff : BOOLEAN]

Plain(s) == [state |-> s, attempts |-> 0, backoff |-> FALSE]

SenderPCs == {"new", "resolved", "locked", "sent", "failed"}

WorkerPCs == {"down", "idle", "connected", "resolved", "probing", "turns",
              "guard", "mark", "send", "await", "write"}

Workers == [pc : WorkerPCs, ep : Endpoints, pending : SUBSET Jobs,
            job : Jobs \cup {NoJob}, attempts : Nat,
            method : {"none", "start", "steer"},
            answer : {"none", "accepted", "rejected"}, result : DeliveryRecords]

IdleWorker == [pc |-> "idle", ep |-> NoEndpoint, pending |-> {}, job |-> NoJob,
               attempts |-> 0, method |-> "none", answer |-> "none",
               result |-> Plain("none")]

Requests == [job : Jobs, thread : Threads, method : {"start", "steer"}]

(* A label that was a pane's may still hold that pane's mail when a thread *)
(* claims it: unregister archives the mailboxes of mailbox and channel     *)
(* labels only.  Such an envelope has no recipient_thread_id.              *)
Init ==
    /\ endpoint = NoEndpoint
    /\ registrations = 0
    /\ regLock = "free"
    /\ sender = [j \in Jobs |-> [pc |-> "new", ep |-> NoEndpoint]]
    /\ recipient = [j \in Jobs |-> NoThread]
    /\ box \in [Jobs -> {"unsent", "inbox"}]
    /\ delivery = [j \in Jobs |-> Plain("none")]
    /\ connBackoff = FALSE
    /\ deliveryLock = [j \in Jobs |-> "free"]
    /\ receiptLock = [j \in Jobs |-> "free"]
    /\ worker = [IdleWorker EXCEPT !.pc = "down"]
    /\ threadSt = [t \in Threads |-> "idle"]
    /\ reachable = TRUE
    /\ flight = {}
    /\ accepted = [j \in Jobs |-> [t \in Threads |-> 0]]
    /\ crashes = 0

(* A process dies between two of its steps.                                *)
Dies == crashes < MaxCrashes /\ crashes' = crashes + 1

-----------------------------------------------------------------------------
(* Registry: who owns the address.                                         *)

(* The thread claims a free address, or registers again: registered_at is  *)
(* new, the settings stay.                                                 *)
RegisterMailbox(t) ==
    /\ regLock = "free"
    /\ registrations < MaxRegistrations
    /\ endpoint.thread \in {NoThread, t}
    /\ registrations' = registrations + 1
    /\ endpoint' = [endpoint EXCEPT !.thread = t, !.stamp = registrations + 1]
    /\ UNCHANGED <<regLock, sender, mailVars, lockVars, worker, serverVars, crashes>>

(* The owner enables or disables automatic delivery.  The record is        *)
(* written only if it is still the one the call looked up, so the call     *)
(* takes effect as one step; the thread was seen open when it was probed.  *)
ConfigureMailboxDelivery(on, policy) ==
    /\ regLock = "free"
    /\ endpoint.thread # NoThread
    /\ endpoint' = [endpoint EXCEPT !.auto = on, !.policy = policy]
    /\ UNCHANGED <<registrations, regLock, sender, mailVars, lockVars, worker,
                   serverVars, crashes>>

(* unregister, under the lock: first the mailbox directory is renamed, and *)
(* with it inbox/ and delivery/ ...                                        *)
UnregisterArchive ==
    /\ regLock = "free"
    /\ endpoint.thread # NoThread
    /\ regLock' = "unregister"
    /\ box' = [j \in Jobs |-> IF box[j] = "inbox" THEN "archived" ELSE box[j]]
    /\ delivery' = [j \in Jobs |-> Plain("none")]
    /\ connBackoff' = FALSE
    /\ UNCHANGED <<endpoint, registrations, sender, recipient, lockVars, worker,
                   serverVars, crashes>>

(* ... then the label is dropped.                                          *)
UnregisterDrop ==
    /\ regLock = "unregister"
    /\ regLock' = "free"
    /\ endpoint' = NoEndpoint
    /\ UNCHANGED <<registrations, sender, mailVars, lockVars, worker, serverVars, crashes>>

UnregisterCrash ==
    /\ regLock = "unregister"
    /\ Dies
    /\ regLock' = "free"
    /\ UNCHANGED <<endpoint, registrations, sender, mailVars, lockVars, worker, serverVars>>

-----------------------------------------------------------------------------
(* Sender: _ask_async to a mailbox address.                                *)

AskResolve(j) ==
    /\ sender[j].pc = "new"
    /\ box[j] = "unsent"
    /\ endpoint.thread # NoThread
    /\ sender' = [sender EXCEPT ![j] = [pc |-> "resolved", ep |-> endpoint]]
    /\ UNCHANGED <<registryVars, mailVars, lockVars, worker, serverVars, crashes>>

\* Variant: the address need only be registered still.
StillRegistered(j) == endpoint.thread # NoThread

(* The address is still the one the sender resolved.                       *)
StillResolved(j) == endpoint = sender[j].ep

(* Under the registry lock, the sender looks the address up again.         *)
AskCompare(j) ==
    /\ sender[j].pc = "resolved"
    /\ regLock = "free"
    /\ IF StillResolved(j)
       THEN /\ sender' = [sender EXCEPT ![j].pc = "locked"]
            /\ regLock' = "ask"
       ELSE /\ sender' = [sender EXCEPT ![j] = [pc |-> "failed", ep |-> NoEndpoint]]
            /\ UNCHANGED regLock
    /\ UNCHANGED <<endpoint, registrations, mailVars, lockVars, worker, serverVars, crashes>>

AskWrite(j) ==
    /\ sender[j].pc = "locked"
    /\ recipient' = [recipient EXCEPT ![j] = sender[j].ep.thread]
    /\ box' = [box EXCEPT ![j] = "inbox"]
    /\ sender' = [sender EXCEPT ![j] = [pc |-> "sent", ep |-> NoEndpoint]]
    /\ regLock' = "free"
    /\ UNCHANGED <<endpoint, registrations, delivery, connBackoff, lockVars, worker,
                   serverVars, crashes>>

AskCrash(j) ==
    /\ sender[j].pc = "locked"
    /\ Dies
    /\ sender' = [sender EXCEPT ![j] = [pc |-> "failed", ep |-> NoEndpoint]]
    /\ regLock' = "free"
    /\ UNCHANGED <<endpoint, registrations, mailVars, lockVars, worker, serverVars>>

-----------------------------------------------------------------------------
(* Receiver: mark_processed and retry_delivery.                            *)

(* mark_processed waits for the receipt lock, writes the receipt ...       *)
AckBegin(j) ==
    /\ box[j] # "unsent"
    /\ receiptLock[j] = "free"
    /\ receiptLock' = [receiptLock EXCEPT ![j] = "ack"]
    /\ UNCHANGED <<registryVars, sender, mailVars, deliveryLock, worker, serverVars, crashes>>

(* ... and unlinks the envelope from inbox/.                               *)
AckEnd(j) ==
    /\ receiptLock[j] = "ack"
    /\ receiptLock' = [receiptLock EXCEPT ![j] = "free"]
    /\ box' = [box EXCEPT ![j] = IF @ = "inbox" THEN "done" ELSE @]
    /\ UNCHANGED <<registryVars, sender, recipient, delivery, connBackoff,
                   deliveryLock, worker, serverVars, crashes>>

AckCrash(j) ==
    /\ receiptLock[j] = "ack"
    /\ Dies
    /\ receiptLock' = [receiptLock EXCEPT ![j] = "free"]
    /\ UNCHANGED <<registryVars, sender, mailVars, deliveryLock, worker, serverVars>>

\* Variant: an ambiguous attempt may be tried again.
RetryStatesWithUncertain == {"failed", "retry", "uncertain"}

(* What retry_delivery agrees to try again.                                *)
RetryStates == {"failed", "retry"}

RetryBegin(j) ==
    /\ deliveryLock[j] = "free"
    /\ delivery[j].state \in RetryStates
    /\ box[j] = "inbox"
    /\ endpoint.thread # NoThread
    /\ recipient[j] = endpoint.thread
    /\ deliveryLock' = [deliveryLock EXCEPT ![j] = "retry"]
    /\ UNCHANGED <<registryVars, sender, mailVars, receiptLock, worker, serverVars, crashes>>

RetryCommit(j) ==
    /\ deliveryLock[j] = "retry"
    /\ delivery' = [delivery EXCEPT ![j] = Plain("queued")]
    /\ deliveryLock' = [deliveryLock EXCEPT ![j] = "free"]
    /\ UNCHANGED <<registryVars, sender, recipient, box, connBackoff, receiptLock,
                   worker, serverVars, crashes>>

RetryCrash(j) ==
    /\ deliveryLock[j] = "retry"
    /\ Dies
    /\ deliveryLock' = [deliveryLock EXCEPT ![j] = "free"]
    /\ UNCHANGED <<registryVars, sender, mailVars, receiptLock, worker, serverVars>>

-----------------------------------------------------------------------------
(* Worker: scan_once.                                                      *)

(* Any tool call of an enabled owner, ask, retry_delivery and              *)
(* configure_mailbox_delivery call ensure_worker.                          *)
EnsureWorker ==
    /\ worker.pc = "down"
    /\ endpoint.auto
    /\ worker' = IdleWorker
    /\ UNCHANGED <<registryVars, sender, mailVars, lockVars, serverVars, crashes>>

Pending == {j \in Jobs : box[j] = "inbox" /\ delivery[j].state \notin TerminalStates}

ScanConnect ==
    /\ worker.pc = "idle"
    /\ endpoint.auto
    /\ Pending # {}
    /\ ~connBackoff
    /\ reachable
    /\ worker' = [worker EXCEPT !.pc = "connected", !.ep = endpoint, !.pending = Pending]
    /\ UNCHANGED <<registryVars, sender, mailVars, lockVars, serverVars, crashes>>

ScanConnectFails ==
    /\ worker.pc = "idle"
    /\ endpoint.auto
    /\ Pending # {}
    /\ ~connBackoff
    /\ ~reachable
    /\ connBackoff' = TRUE
    /\ UNCHANGED <<registryVars, sender, recipient, box, delivery, lockVars, worker,
                   serverVars, crashes>>

(* The scan is over, or the address is no longer the one it started with.  *)
ScanEnds ==
    /\ worker.pc = "connected"
    /\ worker.pending = {} \/ endpoint # worker.ep
    /\ worker' = IdleWorker
    /\ UNCHANGED <<registryVars, sender, mailVars, lockVars, serverVars, crashes>>

ResolveRecord(j) ==
    /\ worker.pc = "connected"
    /\ j \in worker.pending
    /\ endpoint = worker.ep
    /\ worker' = [worker EXCEPT !.pc = "resolved", !.pending = @ \ {j}, !.job = j]
    /\ UNCHANGED <<registryVars, sender, mailVars, lockVars, serverVars, crashes>>

-----------------------------------------------------------------------------
(* Worker: deliver_record for worker.job.                                  *)

(* The worker goes on to the next envelope of its scan.                    *)
NextRecord == [worker EXCEPT !.pc = "connected", !.job = NoJob, !.attempts = 0,
                             !.method = "none", !.answer = "none",
                             !.result = Plain("none")]

Deliverable(j) ==
    /\ deliveryLock[j] = "free"
    /\ delivery[j].state \notin TerminalStates
    /\ ~delivery[j].backoff
    /\ box[j] = "inbox"

\* Variant: the envelope's recipient is not looked at.
AddressedToAnyone(j) == TRUE

(* The envelope was written for the endpoint's thread.                     *)
Addressed(j) == recipient[j] = worker.ep.thread

SkipRecord ==
    /\ worker.pc = "resolved"
    /\ ~Deliverable(worker.job)
    /\ worker' = NextRecord
    /\ UNCHANGED <<registryVars, sender, mailVars, lockVars, serverVars, crashes>>

OwnerMismatch ==
    /\ worker.pc = "resolved"
    /\ Deliverable(worker.job)
    /\ ~Addressed(worker.job)
    /\ delivery' = [delivery EXCEPT ![worker.job] = Plain("failed")]
    /\ worker' = NextRecord
    /\ UNCHANGED <<registryVars, sender, recipient, box, connBackoff, lockVars,
                   serverVars, crashes>>

BeginDelivery ==
    /\ worker.pc = "resolved"
    /\ Deliverable(worker.job)
    /\ Addressed(worker.job)
    /\ deliveryLock' = [deliveryLock EXCEPT ![worker.job] = "worker"]
    /\ worker' = [worker EXCEPT !.pc = "probing",
                                !.attempts = delivery[worker.job].attempts]
    /\ UNCHANGED <<registryVars, sender, mailVars, receiptLock, serverVars, crashes>>

\* Variant: any attempt that ended in an exception is tried again.
FailureAlwaysRetried(error) ==
    LET attempts == worker.attempts + 1
        next == IF error = "value" \/ attempts >= MaxAttempts THEN "failed" ELSE "retry"
    IN [state |-> next, attempts |-> attempts, backoff |-> next = "retry"]

\* Variant: attempts are not counted.
FailureUncounted(error) ==
    LET next == IF delivery[worker.job].state = "dispatching" /\ error # "rpc"
                THEN "uncertain"
                ELSE IF error = "value" THEN "failed" ELSE "retry"
    IN [state |-> next, attempts |-> worker.attempts, backoff |-> next = "retry"]

\* Variant: attempts are counted down from none.
FailureCountedDown(error) ==
    [state |-> "retry", attempts |-> worker.attempts - 1, backoff |-> TRUE]

(* The record for an attempt that ended in an exception: error is "value"  *)
(* for ValueError, "rpc" for an explicit rejection, "other" for the rest.  *)
Failure(error) ==
    LET dispatched == delivery[worker.job].state = "dispatching"
        attempts   == worker.attempts + 1
        next == IF dispatched /\ error # "rpc" THEN "uncertain"
                ELSE IF error = "value" \/ attempts >= MaxAttempts THEN "failed"
                ELSE "retry"
    IN [state |-> next, attempts |-> attempts, backoff |-> next = "retry"]

(* The send is over: the receipt lock goes, then result is to be written.  *)
Finish(result) ==
    /\ worker' = [worker EXCEPT !.pc = "write", !.method = "none", !.answer = "none",
                                !.attempts = 0, !.result = result]
    /\ receiptLock' = [receiptLock EXCEPT ![worker.job] =
                           IF @ = "worker" THEN "free" ELSE @]

Target == worker.ep.thread

(* thread/read decides between turn/start, turn/steer, waiting and failure.*)
ThreadRead ==
    /\ worker.pc = "probing"
    /\ \/ /\ threadSt[Target] = "idle"
          /\ worker' = [worker EXCEPT !.pc = "guard", !.method = "start"]
          /\ UNCHANGED receiptLock
       \/ /\ threadSt[Target] = "active" /\ worker.ep.policy = "idle"
          /\ Finish(Plain("waiting"))
       \/ /\ threadSt[Target] = "active" /\ worker.ep.policy = "immediate"
          /\ worker' = [worker EXCEPT !.pc = "turns"]
          /\ UNCHANGED receiptLock
       \/ /\ threadSt[Target] = "closed"
          /\ Finish(Failure("value"))
    /\ UNCHANGED <<registryVars, sender, mailVars, deliveryLock, serverVars, crashes>>

(* Active under the immediate policy: steer the turn that is in progress.  *)
TurnsList ==
    /\ worker.pc = "turns"
    /\ \/ /\ threadSt[Target] = "active"
          /\ worker' = [worker EXCEPT !.pc = "guard", !.method = "steer"]
          /\ UNCHANGED receiptLock
       \/ /\ threadSt[Target] # "active"
          /\ Finish(Plain("waiting"))
    /\ UNCHANGED <<registryVars, sender, mailVars, deliveryLock, serverVars, crashes>>

(* Either query times out, is answered by an error, or loses its socket.   *)
QueryFails ==
    /\ worker.pc \in {"probing", "turns"}
    /\ Finish(Failure("other"))
    /\ UNCHANGED <<registryVars, sender, mailVars, deliveryLock, serverVars, crashes>>

\* Variant: the envelope is taken to be where the scan found it.
AssumedPending(j) == TRUE

(* The envelope is still in inbox/.                                        *)
StillPending(j) == box[j] = "inbox"

(* before_dispatch, its checks.                                            *)
DispatchGuard ==
    LET j == worker.job IN
    /\ worker.pc = "guard"
    /\ \/ /\ receiptLock[j] = "ack"
          /\ Finish(Failure("other"))
       \/ /\ receiptLock[j] = "free"
          /\ ~StillPending(j)
          /\ Finish(Plain("processed"))
       \/ /\ receiptLock[j] = "free"
          /\ StillPending(j)
          /\ endpoint # worker.ep
          /\ Finish(Failure("value"))
       \/ /\ receiptLock[j] = "free"
          /\ StillPending(j)
          /\ endpoint = worker.ep
          /\ receiptLock' = [receiptLock EXCEPT ![j] = "worker"]
          /\ worker' = [worker EXCEPT !.pc = "mark"]
    /\ UNCHANGED <<registryVars, sender, mailVars, deliveryLock, serverVars, crashes>>

(* before_dispatch, its record on disk.                                    *)
MarkDispatching ==
    /\ worker.pc = "mark"
    /\ delivery' = [delivery EXCEPT ![worker.job] = Plain("dispatching")]
    /\ worker' = [worker EXCEPT !.pc = "send"]
    /\ UNCHANGED <<registryVars, sender, recipient, box, connBackoff, lockVars,
                   serverVars, crashes>>

SendRequest ==
    /\ worker.pc = "send"
    /\ flight' = flight \cup {[job |-> worker.job, thread |-> Target,
                               method |-> worker.method]}
    /\ worker' = [worker EXCEPT !.pc = "await"]
    /\ UNCHANGED <<registryVars, sender, mailVars, lockVars, threadSt, reachable,
                   accepted, crashes>>

(* The answer is read, or it is given up on: ten seconds pass, the socket  *)
(* closes, or the answer carries no turn id.                               *)
ReadAnswer ==
    /\ worker.pc = "await"
    /\ \/ /\ worker.answer = "accepted"
          /\ Finish(Plain("delivered"))
       \/ /\ worker.answer = "rejected"
          /\ Finish(Failure("rpc"))
       \/ /\ worker.answer # "rejected"
          /\ Finish(Failure("other"))
    /\ UNCHANGED <<registryVars, sender, mailVars, deliveryLock, serverVars, crashes>>

WriteResult ==
    /\ worker.pc = "write"
    /\ delivery' = [delivery EXCEPT ![worker.job] = worker.result]
    /\ deliveryLock' = [deliveryLock EXCEPT ![worker.job] = "free"]
    /\ worker' = NextRecord
    /\ UNCHANGED <<registryVars, sender, recipient, box, connBackoff, receiptLock,
                   serverVars, crashes>>

WorkerCrash ==
    /\ worker.pc # "down"
    /\ Dies
    /\ worker' = [IdleWorker EXCEPT !.pc = "down"]
    /\ deliveryLock' = [j \in Jobs |-> IF deliveryLock[j] = "worker" THEN "free"
                                       ELSE deliveryLock[j]]
    /\ receiptLock' = [j \in Jobs |-> IF receiptLock[j] = "worker" THEN "free"
                                      ELSE receiptLock[j]]
    /\ UNCHANGED <<registryVars, sender, mailVars, serverVars>>

(* The clock passes a retry_at.                                            *)
BackoffExpires(j) ==
    /\ delivery[j].backoff
    /\ delivery' = [delivery EXCEPT ![j].backoff = FALSE]
    /\ UNCHANGED <<registryVars, sender, recipient, box, connBackoff, lockVars, worker,
                   serverVars, crashes>>

ConnBackoffExpires ==
    /\ connBackoff
    /\ connBackoff' = FALSE
    /\ UNCHANGED <<registryVars, sender, recipient, box, delivery, lockVars, worker,
                   serverVars, crashes>>

-----------------------------------------------------------------------------
(* App-server and threads: external.                                       *)

\* Variant: the answer's request id is not compared.
AnsweredUnmatched(r, answer) ==
    worker' = IF worker.pc = "await" /\ worker.answer = "none"
              THEN [worker EXCEPT !.answer = answer] ELSE worker

(* The worker's answer to request r, if it still waits for it.             *)
Answered(r, answer) ==
    worker' = IF worker.pc = "await" /\ worker.job = r.job /\ worker.answer = "none"
              THEN [worker EXCEPT !.answer = answer] ELSE worker

(* A turn is started, or the running one is steered.  Nothing excludes     *)
(* that a turn of the user's began since thread/read.                      *)
ServerAccepts(r) ==
    /\ r \in flight
    /\ r.method = "start" => threadSt[r.thread] # "closed"
    /\ r.method = "steer" => threadSt[r.thread] = "active"
    /\ flight' = flight \ {r}
    /\ accepted' = [accepted EXCEPT ![r.job][r.thread] = @ + 1]
    /\ threadSt' = [threadSt EXCEPT ![r.thread] = "active"]
    /\ Answered(r, "accepted")
    /\ UNCHANGED <<registryVars, sender, mailVars, lockVars, reachable, crashes>>

ServerRejects(r) ==
    /\ r \in flight
    /\ flight' = flight \ {r}
    /\ Answered(r, "rejected")
    /\ UNCHANGED <<registryVars, sender, mailVars, lockVars, threadSt, reachable,
                   accepted, crashes>>

RequestLost(r) ==
    /\ r \in flight
    /\ flight' = flight \ {r}
    /\ UNCHANGED <<registryVars, sender, mailVars, lockVars, worker, threadSt,
                   reachable, accepted, crashes>>

TurnEnds(t) ==
    /\ threadSt[t] = "active"
    /\ threadSt' = [threadSt EXCEPT ![t] = "idle"]
    /\ UNCHANGED <<registryVars, sender, mailVars, lockVars, worker, reachable, flight,
                   accepted, crashes>>

(* The thread's user starts a turn or closes the thread, as often as they  *)
(* please.                                                                 *)
UserActs(t, st) ==
    /\ threadSt[t] # st
    /\ threadSt' = [threadSt EXCEPT ![t] = st]
    /\ UNCHANGED <<registryVars, sender, mailVars, lockVars, worker, reachable, flight,
                   accepted, crashes>>

ThreadOpens(t) ==
    /\ threadSt[t] = "closed"
    /\ threadSt' = [threadSt EXCEPT ![t] = "idle"]
    /\ UNCHANGED <<registryVars, sender, mailVars, lockVars, worker, reachable, flight,
                   accepted, crashes>>

ServerGoesOrComes ==
    /\ reachable' = ~reachable
    /\ UNCHANGED <<registryVars, sender, mailVars, lockVars, worker, threadSt, flight,
                   accepted, crashes>>

-----------------------------------------------------------------------------

RegistryNext ==
    \/ \E t \in Threads : RegisterMailbox(t)
    \/ \E on \in BOOLEAN, policy \in PolicyChoices : ConfigureMailboxDelivery(on, policy)
    \/ UnregisterArchive \/ UnregisterDrop \/ UnregisterCrash

SenderNext ==
    \E j \in Jobs : AskResolve(j) \/ AskCompare(j) \/ AskWrite(j) \/ AskCrash(j)

ReceiverNext ==
    \E j \in Jobs :
        \/ AckBegin(j) \/ AckEnd(j) \/ AckCrash(j)
        \/ RetryBegin(j) \/ RetryCommit(j) \/ RetryCrash(j)

WorkerStep ==
    \/ ScanConnect \/ ScanConnectFails \/ ScanEnds
    \/ \E j \in Jobs : ResolveRecord(j)
    \/ SkipRecord \/ OwnerMismatch \/ BeginDelivery
    \/ ThreadRead \/ TurnsList \/ QueryFails
    \/ DispatchGuard \/ MarkDispatching \/ SendRequest \/ ReadAnswer \/ WriteResult

ClockNext == ConnBackoffExpires \/ \E j \in Jobs : BackoffExpires(j)

ServerNext ==
    \/ \E r \in flight : ServerAccepts(r) \/ ServerRejects(r) \/ RequestLost(r)
    \/ \E t \in Threads : TurnEnds(t) \/ ThreadOpens(t)
                          \/ \E st \in UserChoices : UserActs(t, st)
    \/ ServerGoesOrComes

Next ==
    \/ RegistryNext \/ SenderNext \/ ReceiverNext
    \/ EnsureWorker \/ WorkerStep \/ WorkerCrash
    \/ ClockNext \/ ServerNext

Spec == Init /\ [][Next]_vars

-----------------------------------------------------------------------------
(* Type invariant.                                                         *)

(* Every variable holds what the code can put there.                       *)
TypeOK ==
    /\ endpoint \in Endpoints
    /\ registrations \in Nat
    /\ regLock \in {"free", "ask", "unregister"}
    /\ sender \in [Jobs -> [pc : SenderPCs, ep : Endpoints]]
    /\ recipient \in [Jobs -> Threads \cup {NoThread}]
    /\ box \in [Jobs -> {"unsent", "inbox", "done", "archived"}]
    /\ delivery \in [Jobs -> DeliveryRecords]
    /\ connBackoff \in BOOLEAN
    /\ deliveryLock \in [Jobs -> {"free", "worker", "retry"}]
    /\ receiptLock \in [Jobs -> {"free", "worker", "ack"}]
    /\ worker \in Workers
    /\ threadSt \in [Threads -> {"idle", "active", "closed"}]
    /\ reachable \in BOOLEAN
    /\ flight \in SUBSET Requests
    /\ accepted \in [Jobs -> [Threads -> Nat]]
    /\ crashes \in Nat

-----------------------------------------------------------------------------
(* Safety.                                                                 *)

InFlight(j) == \E r \in flight : r.job = j
Accepted(j) == \E t \in Threads : accepted[j][t] > 0

(* A message enters a conversation at most once, and once it is there no   *)
(* further request that carries it is on its way: the worker, its restarts *)
(* and retry_delivery never resend accepted input (server.retry_delivery,  *)
(* README "accepted/ambiguous deliveries").                                *)
AtMostOnce ==
    \A j \in Jobs :
        /\ \A t \in Threads : accepted[j][t] <= 1
        /\ Accepted(j) => ~InFlight(j)

(* Only the thread that owned the address when the message was written can *)
(* have it in its conversation, whoever owns the address by then.          *)
RightRecipient ==
    \A j \in Jobs, t \in Threads : accepted[j][t] > 0 => recipient[j] = t

(* Mail whose delivery record invites another attempt, by the worker or by *)
(* retry_delivery, has not been accepted and no request carries it.        *)
RetryableNotAccepted ==
    \A j \in Jobs :
        box[j] = "inbox" /\ delivery[j].state \notin {"delivered", "dispatching", "uncertain"}
            => ~Accepted(j) /\ ~InFlight(j)

(* "delivered" is written of messages the thread accepted only: a failed   *)
(* or uncertain attempt is not silently called complete.                   *)
DeliveredTruthful ==
    \A j \in Jobs : delivery[j].state = "delivered" => Accepted(j)

(* Mail a new owner of the address finds in the inbox was written for that *)
(* owner; mail of the address's time as a pane names no thread.            *)
InboxBelongsToOwner ==
    \A j \in Jobs :
        box[j] = "inbox" /\ recipient[j] # NoThread => recipient[j] = endpoint.thread

(* A message its receiver has marked processed the worker sends no more.   *)
HandledNeverSent ==
    [][\A r \in Requests : r \in flight' \ flight => box[r.job] # "done"]_vars

-----------------------------------------------------------------------------
(* Refinement of the delivery contract.                                    *)

(* The worker has passed before_dispatch's checks for j and not yet sent.  *)
Committed(j) == worker.job = j /\ worker.pc \in {"mark", "send"}

(* The worker knows that j was turned down, the disk does not yet.         *)
KnownRejected(j) ==
    /\ worker.job = j
    /\ \/ worker.pc = "await" /\ worker.answer = "rejected"
       \/ worker.pc = "write" /\ worker.result.state # "uncertain"

ContractStatus(j) ==
    IF Accepted(j) THEN "accepted"
    ELSE IF InFlight(j) \/ Committed(j) THEN "offered"
    ELSE IF box[j] = "unsent" THEN "unsent"
    ELSE IF box[j] # "inbox" \/ recipient[j] = NoThread THEN "withdrawn"
    ELSE IF delivery[j].state \in {"dispatching", "uncertain"} /\ ~KnownRejected(j)
         THEN "unresolved"
    ELSE "held"

Contract == INSTANCE DeliveryContract
    WITH status    <- [j \in Jobs |-> ContractStatus(j)],
         addressee <- recipient,
         context   <- accepted

(* Registry, senders, worker, receivers and app-server together keep the   *)
(* promise DeliveryContract states; in particular an offer whose outcome   *)
(* is unknown is never repeated, through crashes and manual retries.       *)
ImplementsContract == Contract!Spec

-----------------------------------------------------------------------------
(* Liveness.                                                               *)

(* Every process that holds a lock goes on, the clock runs, turns end.     *)
Fairness ==
    /\ WF_vars(WorkerStep)
    /\ WF_vars(ConnBackoffExpires)
    /\ WF_vars(UnregisterDrop)
    /\ \A j \in Jobs : /\ WF_vars(BackoffExpires(j))
                       /\ WF_vars(AskWrite(j))
                       /\ WF_vars(AckEnd(j))
                       /\ WF_vars(RetryCommit(j))
    /\ \A t \in Threads : WF_vars(TurnEnds(t))

FairSpec == Spec /\ Fairness

Settled(j) == box[j] # "inbox" \/ delivery[j].state \in
                  {"delivered", "dispatching", "uncertain", "failed", "processed"}

(* Delivery is enabled, the worker is up, the app-server is reachable, no  *)
(* thread is closed, and nobody is calling retry_delivery: each call gives *)
(* the message its attempts back, so calls without end retry without end.  *)
Favourable ==
    /\ worker.pc # "down"
    /\ \A j \in Jobs : deliveryLock[j] # "retry"
    /\ reachable
    /\ endpoint.auto
    /\ \A t \in Threads : threadSt[t] # "closed"

(* A turn a user begins: the thread is busy, and no message made it so.    *)
UserTurn == \E t \in Threads :
    threadSt[t] = "idle" /\ threadSt'[t] = "active" /\ accepted' = accepted

(* Under favourable conditions that last, with the owner's settings left   *)
(* alone and no more turns of the users' own, every message comes to an    *)
(* end the receiver can see: retries are finite, waiting ends with the     *)
(* turn, and no lock a process died with keeps a message in the queue.     *)
(* Beside a user who begins turns without end nothing of the kind holds:   *)
(* mail waits for each turn that runs when it is looked at, and a record   *)
(* written "waiting" has lost the count of the failed attempts before it   *)
(* (deliver_record writes the state alone), so that failed attempts and    *)
(* waiting may alternate for ever.                                         *)
MailSettles ==
    <>[]Favourable /\ <>[][endpoint' = endpoint]_vars /\ <>[][~UserTurn]_vars
        => \A j \in Jobs : box[j] = "inbox" ~> Settled(j)
=============================================================================
