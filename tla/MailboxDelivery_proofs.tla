----------------------- MODULE MailboxDelivery_proofs -----------------------
(***************************************************************************)
(* Proofs about MailboxDelivery, for any set of messages and threads and   *)
(* any bounds: type correctness, the safety invariants, and the refinement *)
(* of DeliveryContract.                                                    *)
(***************************************************************************)
EXTENDS MailboxDelivery, TLAPS

-----------------------------------------------------------------------------
(* The inductive invariant.                                                *)

(* While the worker works on a message it holds the delivery lock; the     *)
(* receipt lock it holds exactly from before_dispatch to the answer.       *)
Delivering == {"probing", "turns", "guard", "mark", "send", "await", "write"}
Dispatching == {"mark", "send", "await"}

LockInv ==
    /\ worker.pc \in Delivering \cup {"resolved"} => worker.job \in Jobs
    /\ worker.pc \in Delivering => deliveryLock[worker.job] = "worker"
    /\ worker.pc \in Dispatching => receiptLock[worker.job] = "worker"
    /\ \A j \in Jobs :
        /\ deliveryLock[j] = "worker" => worker.job = j /\ worker.pc \in Delivering
        /\ receiptLock[j] = "worker" => worker.job = j /\ worker.pc \in Dispatching

(* Who may write envelopes, and for whom they were written.                *)
AskInv ==
    /\ \A j \in Jobs :
        /\ sender[j].pc \in {"resolved", "locked"} =>
               box[j] = "unsent" /\ sender[j].ep.thread \in Threads
        /\ sender[j].pc = "locked" => regLock = "ask" /\ sender[j].ep = endpoint
        /\ box[j] = "unsent" => recipient[j] = NoThread
    /\ \A i, j \in Jobs : sender[i].pc = "locked" /\ sender[j].pc = "locked" => i = j
    /\ endpoint.auto => endpoint.thread \in Threads
    /\ regLock = "unregister" => \A j \in Jobs : box[j] # "inbox"
    /\ InboxBelongsToOwner

(* No turn contains j and no request carries it.                           *)
Unoffered(j) == ~Accepted(j) /\ ~InFlight(j)

(* Requests and acceptances against envelopes.                             *)
RequestInv ==
    /\ \A r \in flight : recipient[r.job] = r.thread /\ box[r.job] # "unsent"
    /\ \A r, q \in flight : r.job = q.job => r = q
    /\ \A j \in Jobs, t \in Threads :
           accepted[j][t] > 0 => recipient[j] = t /\ box[j] # "unsent"
    /\ AtMostOnce

(* What the delivery files say against what happened.                      *)
RecordInv ==
    /\ RetryableNotAccepted
    /\ DeliveredTruthful
    /\ \A j \in Jobs : deliveryLock[j] = "retry" /\ box[j] = "inbox" => Unoffered(j)

(* What the worker knows of the message it works on.                       *)
WorkerInv ==
    /\ \A j \in worker.pending : box[j] # "unsent"
    /\ worker.pc \in Delivering \cup {"resolved"} => box[worker.job] # "unsent"
    /\ worker.pc \in Delivering \cup {"connected", "resolved"} => worker.ep.thread \in Threads
    /\ worker.pc \in Delivering => recipient[worker.job] = worker.ep.thread
    /\ worker.pc \in {"probing", "turns", "guard", "mark", "send"} => Unoffered(worker.job)
    /\ worker.pc \in {"guard", "mark", "send"} => worker.method # "none"
    /\ worker.pc \in {"send", "await"} /\ box[worker.job] = "inbox" =>
           delivery[worker.job].state = "dispatching"
    /\ worker.pc = "await" /\ worker.answer = "accepted" => Accepted(worker.job)
    /\ worker.pc = "await" /\ worker.answer = "rejected" => Unoffered(worker.job)
    /\ worker.pc # "await" => worker.answer = "none"
    /\ worker.pc = "write" =>
           /\ worker.result.state = "delivered" => Accepted(worker.job)
           /\ worker.result.state \notin {"delivered", "dispatching", "uncertain"}
                  /\ box[worker.job] = "inbox" => Unoffered(worker.job)

IInv == TypeOK /\ LockInv /\ AskInv /\ RequestInv /\ RecordInv /\ WorkerInv

-----------------------------------------------------------------------------
(* Type correctness.                                                       *)

LEMMA RecordTypes ==
  /\ NoEndpoint \in Endpoints
  /\ \A s \in DeliveryStates : Plain(s) \in DeliveryRecords
  /\ IdleWorker \in Workers
  /\ [IdleWorker EXCEPT !.pc = "down"] \in Workers
  BY DEF NoEndpoint, Endpoints, Policies, Plain, DeliveryRecords, DeliveryStates,
         IdleWorker, Workers, WorkerPCs

LEMMA InitType == Init => TypeOK
<1> SUFFICES ASSUME Init PROVE TypeOK
  OBVIOUS
<1> USE DEF Init
<1>1. /\ endpoint \in Endpoints
      /\ worker \in Workers
      /\ sender \in [Jobs -> [pc : SenderPCs, ep : Endpoints]]
  BY RecordTypes DEF SenderPCs
<1>2. delivery \in [Jobs -> DeliveryRecords]
  BY RecordTypes DEF DeliveryStates
<1>3. /\ box \in [Jobs -> {"unsent", "inbox", "done", "archived"}]
      /\ accepted \in [Jobs -> [Threads -> Nat]]
  OBVIOUS
<1>4. QED
  BY <1>1, <1>2, <1>3 DEF TypeOK

(* A failed attempt leaves a well-formed record.                           *)
LEMMA FailureType ==
  ASSUME TypeOK, NEW error
  PROVE  Failure(error) \in DeliveryRecords
  BY ConstantsAssumption DEF TypeOK, Failure, Workers, DeliveryRecords, DeliveryStates, TerminalStates

LEMMA RegistryType == TypeOK /\ RegistryNext => TypeOK'
<1> SUFFICES ASSUME TypeOK, RegistryNext PROVE TypeOK'
  OBVIOUS
<1> USE DEF TypeOK, registryVars, mailVars, lockVars, serverVars
<1>1. ASSUME NEW t \in Threads, RegisterMailbox(t) PROVE TypeOK'
  <2>1. registrations' \in Nat
    BY <1>1 DEF RegisterMailbox
  <2>2. endpoint' = [endpoint EXCEPT !.thread = t, !.stamp = registrations']
    BY <1>1 DEF RegisterMailbox
  <2>3. endpoint' \in Endpoints
    BY <2>1, <2>2 DEF Endpoints
  <2>4. QED
    BY <1>1, <2>1, <2>3 DEF RegisterMailbox
<1>2. ASSUME NEW on \in BOOLEAN, NEW policy \in PolicyChoices, ConfigureMailboxDelivery(on, policy)
      PROVE TypeOK'
  BY <1>2, ConstantsAssumption DEF ConfigureMailboxDelivery, Endpoints
<1>3. CASE UnregisterArchive
  BY <1>3 DEF UnregisterArchive, DeliveryRecords, DeliveryStates, Plain
<1>4. CASE UnregisterDrop
  BY <1>4 DEF UnregisterDrop, NoEndpoint, Endpoints, Policies
<1>5. CASE UnregisterCrash
  BY <1>5 DEF UnregisterCrash, Dies
<1>6. QED
  BY <1>1, <1>2, <1>3, <1>4, <1>5 DEF RegistryNext

LEMMA SenderType == TypeOK /\ SenderNext => TypeOK'
<1> SUFFICES ASSUME TypeOK, NEW j \in Jobs,
                    AskResolve(j) \/ AskCompare(j) \/ AskWrite(j) \/ AskCrash(j)
             PROVE  TypeOK'
  BY DEF SenderNext
<1> USE DEF TypeOK, registryVars, mailVars, lockVars, serverVars
<1>1. CASE AskResolve(j)
  BY <1>1 DEF AskResolve, SenderPCs
<1>2. CASE AskCompare(j)
  <2>1. sender' \in [Jobs -> [pc : SenderPCs, ep : Endpoints]]
    <3>1. CASE sender' = [sender EXCEPT ![j].pc = "locked"]
      BY <3>1 DEF SenderPCs
    <3>2. CASE sender' = [sender EXCEPT ![j] = [pc |-> "failed", ep |-> NoEndpoint]]
      BY <3>2, RecordTypes DEF SenderPCs
    <3>3. QED
      BY <1>2, <3>1, <3>2 DEF AskCompare
  <2>2. QED
    BY <1>2, <2>1 DEF AskCompare
<1>3. CASE AskWrite(j)
  BY <1>3 DEF AskWrite, SenderPCs, NoEndpoint, Endpoints, Policies
<1>4. CASE AskCrash(j)
  BY <1>4 DEF AskCrash, Dies, SenderPCs, NoEndpoint, Endpoints, Policies
<1>5. QED
  BY <1>1, <1>2, <1>3, <1>4

LEMMA ReceiverType == TypeOK /\ ReceiverNext => TypeOK'
<1> SUFFICES ASSUME TypeOK, NEW j \in Jobs,
                    \/ AckBegin(j) \/ AckEnd(j) \/ AckCrash(j)
                    \/ RetryBegin(j) \/ RetryCommit(j) \/ RetryCrash(j)
             PROVE  TypeOK'
  BY DEF ReceiverNext
<1> USE DEF TypeOK, registryVars, mailVars, lockVars, serverVars
<1>1. CASE AckBegin(j)
  BY <1>1 DEF AckBegin
<1>2. CASE AckEnd(j)
  BY <1>2 DEF AckEnd
<1>3. CASE AckCrash(j)
  BY <1>3 DEF AckCrash, Dies
<1>4. CASE RetryBegin(j)
  BY <1>4 DEF RetryBegin
<1>5. CASE RetryCommit(j)
  BY <1>5 DEF RetryCommit, DeliveryRecords, DeliveryStates, Plain
<1>6. CASE RetryCrash(j)
  BY <1>6 DEF RetryCrash, Dies
<1>7. QED
  BY <1>1, <1>2, <1>3, <1>4, <1>5, <1>6

LEMMA WorkerType == TypeOK /\ LockInv /\ WorkerInv /\ WorkerStep => TypeOK'
<1> SUFFICES ASSUME TypeOK, LockInv, WorkerInv, WorkerStep PROVE TypeOK'
  OBVIOUS
<1>a. /\ \A s \in DeliveryStates : Plain(s) \in DeliveryRecords
      /\ \A e : Failure(e) \in DeliveryRecords
  BY RecordTypes, FailureType
<1>c. NextRecord \in Workers
  BY <1>a DEF TypeOK, NextRecord, Workers, WorkerPCs, DeliveryStates
<1>d. worker.pc \in Delivering \cup {"resolved"} => worker.job \in Jobs
  BY DEF LockInv
<1>e. ASSUME NEW r \in DeliveryRecords, Finish(r), UNCHANGED <<registryVars, sender, mailVars,
             deliveryLock, serverVars, crashes>>
      PROVE TypeOK'
  BY <1>e DEF Finish, TypeOK, Workers, WorkerPCs, registryVars, mailVars, lockVars,
              serverVars
<1>f. ASSUME worker' \in Workers, UNCHANGED <<registryVars, sender, mailVars, lockVars, serverVars,
             crashes>>
      PROVE TypeOK'
  BY <1>f DEF TypeOK, registryVars, mailVars, lockVars, serverVars
<1>g. ASSUME NEW p \in WorkerPCs
      PROVE  /\ [worker EXCEPT !.pc = p] \in Workers
             /\ \A m \in {"start", "steer"} : [worker EXCEPT !.pc = p, !.method = m] \in Workers
  BY DEF TypeOK, Workers
<1>8. CASE ThreadRead
  <2>1. ASSUME worker' = [worker EXCEPT !.pc = "guard", !.method = "start"]
               \/ worker' = [worker EXCEPT !.pc = "turns"],
               UNCHANGED receiptLock
        PROVE  TypeOK'
    <3>1. worker' \in Workers
      BY <2>1, <1>g DEF WorkerPCs
    <3>2. UNCHANGED <<registryVars, sender, mailVars, lockVars, serverVars, crashes>>
      BY <1>8, <2>1 DEF ThreadRead, lockVars
    <3>3. QED
      BY <3>1, <3>2, <1>f
  <2>2. ASSUME Finish(Plain("waiting")) \/ Finish(Failure("value")) PROVE TypeOK'
    <3>1. Plain("waiting") \in DeliveryRecords /\ Failure("value") \in DeliveryRecords
      BY <1>a DEF DeliveryStates
    <3>2. UNCHANGED <<registryVars, sender, mailVars, deliveryLock, serverVars, crashes>>
      BY <1>8 DEF ThreadRead
    <3>3. QED
      BY <2>2, <3>1, <3>2, <1>e
  <2>3. QED
    BY <1>8, <2>1, <2>2 DEF ThreadRead
<1>9. CASE TurnsList
  <2>1. CASE Finish(Plain("waiting"))
    <3>1. Plain("waiting") \in DeliveryRecords
      BY <1>a DEF DeliveryStates
    <3>2. UNCHANGED <<registryVars, sender, mailVars, deliveryLock, serverVars, crashes>>
      BY <1>9 DEF TurnsList
    <3>3. QED
      BY <2>1, <3>1, <3>2, <1>e
  <2>2. ASSUME worker' = [worker EXCEPT !.pc = "guard", !.method = "steer"], UNCHANGED receiptLock
        PROVE  TypeOK'
    <3>1. worker' \in Workers
      BY <2>2, <1>g DEF WorkerPCs
    <3>2. UNCHANGED <<registryVars, sender, mailVars, lockVars, serverVars, crashes>>
      BY <1>9, <2>2 DEF TurnsList, lockVars
    <3>3. QED
      BY <3>1, <3>2, <1>f
  <2>3. QED
    BY <1>9, <2>1, <2>2 DEF TurnsList
<1> USE DEF TypeOK, registryVars, mailVars, lockVars, serverVars, Workers, WorkerPCs
<1>1. CASE ScanConnect
  BY <1>1 DEF ScanConnect, Pending
<1>2. CASE ScanConnectFails
  BY <1>2 DEF ScanConnectFails
<1>3. CASE ScanEnds
  BY <1>3, RecordTypes DEF ScanEnds
<1>4. ASSUME NEW j \in Jobs, ResolveRecord(j) PROVE TypeOK'
  BY <1>4 DEF ResolveRecord
<1>5. CASE SkipRecord
  BY <1>5, <1>c DEF SkipRecord
<1>6. CASE OwnerMismatch
  BY <1>6, <1>a, <1>c, <1>d DEF OwnerMismatch, DeliveryStates, TerminalStates
<1>7. CASE BeginDelivery
  BY <1>7, <1>d DEF BeginDelivery, DeliveryRecords
<1>10. CASE QueryFails
  BY <1>10, <1>a, <1>e DEF QueryFails
<1>11. CASE DispatchGuard
  BY <1>11, <1>a, <1>e DEF DispatchGuard, DeliveryStates, TerminalStates
<1>12. CASE MarkDispatching
  BY <1>12, <1>a, <1>d DEF MarkDispatching, DeliveryStates, TerminalStates
<1>13. CASE SendRequest
  <2>1. [job |-> worker.job, thread |-> Target, method |-> worker.method] \in Requests
    BY <1>13, <1>d DEF SendRequest, Requests, WorkerInv, Delivering, Target
  <2>2. QED
    BY <1>13, <2>1 DEF SendRequest
<1>14. CASE ReadAnswer
  BY <1>14, <1>a, <1>e DEF ReadAnswer, DeliveryStates, TerminalStates
<1>15. CASE WriteResult
  <2>1. delivery' \in [Jobs -> DeliveryRecords]
    BY <1>15, <1>d DEF WriteResult
  <2>2. worker' \in Workers /\ deliveryLock' \in [Jobs -> {"free", "worker", "retry"}]
    BY <1>15, <1>c DEF WriteResult
  <2>3. QED
    BY <1>15, <2>1, <2>2 DEF WriteResult
<1>16. QED
  BY <1>1, <1>2, <1>3, <1>4, <1>5, <1>6, <1>7, <1>8, <1>9, <1>10, <1>11, <1>12, <1>13,
     <1>14, <1>15 DEF WorkerStep

LEMMA EnvironmentType ==
  TypeOK /\ (EnsureWorker \/ WorkerCrash \/ ClockNext \/ ServerNext) => TypeOK'
<1> SUFFICES ASSUME TypeOK, EnsureWorker \/ WorkerCrash \/ ClockNext \/ ServerNext
             PROVE  TypeOK'
  OBVIOUS
<1> USE DEF TypeOK, registryVars, mailVars, lockVars, serverVars
<1>1. CASE EnsureWorker
  BY <1>1, RecordTypes DEF EnsureWorker
<1>2. CASE WorkerCrash
  BY <1>2, RecordTypes DEF WorkerCrash, Dies
<1>3. CASE ConnBackoffExpires
  BY <1>3 DEF ConnBackoffExpires
<1>4. ASSUME NEW j \in Jobs, BackoffExpires(j) PROVE TypeOK'
  BY <1>4 DEF BackoffExpires, DeliveryRecords
<1>5. ASSUME NEW r \in flight, ServerAccepts(r) PROVE TypeOK'
  <2>1. worker' \in Workers
    BY <1>5 DEF ServerAccepts, Answered, Workers
  <2>2. r.job \in Jobs /\ r.thread \in Threads
    BY DEF Requests
  <2>3. accepted' \in [Jobs -> [Threads -> Nat]]
    BY <1>5, <2>2 DEF ServerAccepts
  <2>4. QED
    BY <1>5, <2>1, <2>2, <2>3 DEF ServerAccepts
<1>6. ASSUME NEW r \in flight, ServerRejects(r) PROVE TypeOK'
  BY <1>6 DEF ServerRejects, Answered, Workers
<1>7. ASSUME NEW r \in flight, RequestLost(r) PROVE TypeOK'
  BY <1>7 DEF RequestLost
<1>8. ASSUME NEW t \in Threads, TurnEnds(t) \/ ThreadOpens(t) PROVE TypeOK'
  BY <1>8 DEF TurnEnds, ThreadOpens
<1>9. ASSUME NEW t \in Threads, NEW st \in UserChoices, UserActs(t, st)
      PROVE TypeOK'
  BY <1>9, ConstantsAssumption DEF UserActs
<1>10. CASE ServerGoesOrComes
  BY <1>10 DEF ServerGoesOrComes
<1>11. QED
  BY <1>1, <1>2, <1>3, <1>4, <1>5, <1>6, <1>7, <1>8, <1>9, <1>10 DEF ClockNext, ServerNext

LEMMA NextType == IInv /\ [Next]_vars => TypeOK'
<1> SUFFICES ASSUME IInv, [Next]_vars PROVE TypeOK'
  OBVIOUS
<1>1. CASE UNCHANGED vars
  BY <1>1 DEF IInv, TypeOK, vars, registryVars, mailVars, lockVars, serverVars
<1>2. QED
  BY <1>1, RegistryType, SenderType, ReceiverType, WorkerType, EnvironmentType
  DEF IInv, Next

-----------------------------------------------------------------------------
(* Steps that leave part of the state alone.                               *)

LEMMA OutsideWorker ==
  /\ RegistryNext => UNCHANGED <<sender, recipient, lockVars, worker, serverVars>>
  /\ SenderNext => UNCHANGED <<delivery, lockVars, worker, serverVars>>
  /\ ReceiverNext => UNCHANGED <<registryVars, sender, recipient, worker, serverVars>>
  /\ ClockNext => UNCHANGED <<registryVars, sender, recipient, box, lockVars, worker, serverVars>>
  /\ ServerNext => UNCHANGED <<registryVars, sender, mailVars, lockVars>>
  /\ EnsureWorker \/ WorkerCrash => UNCHANGED <<registryVars, sender, mailVars, serverVars>>
  /\ WorkerStep => UNCHANGED <<registryVars, sender, recipient, box, accepted>>
  BY DEF RegistryNext, RegisterMailbox, ConfigureMailboxDelivery, UnregisterArchive,
         UnregisterDrop, UnregisterCrash,
         SenderNext, AskResolve, AskCompare, AskWrite, AskCrash,
         ReceiverNext, AckBegin, AckEnd, AckCrash, RetryBegin, RetryCommit, RetryCrash,
         ClockNext, ConnBackoffExpires, BackoffExpires,
         ServerNext, ServerAccepts, ServerRejects, RequestLost, TurnEnds, ThreadOpens,
         UserActs, ServerGoesOrComes, EnsureWorker, WorkerCrash,
         WorkerStep, ScanConnect, ScanConnectFails, ScanEnds, ResolveRecord, SkipRecord,
         OwnerMismatch, BeginDelivery, ThreadRead, TurnsList, QueryFails, DispatchGuard,
         MarkDispatching, SendRequest, ReadAnswer, WriteResult, Finish,
         registryVars, mailVars, lockVars, serverVars

(* The app-server changes nothing of the worker but the answer it awaits.  *)
LEMMA OnlyAnswer ==
  ASSUME TypeOK, ServerNext
  PROVE  /\ worker'.pc = worker.pc
         /\ worker'.job = worker.job
         /\ worker'.ep = worker.ep
         /\ worker'.pending = worker.pending
         /\ worker'.method = worker.method
         /\ worker'.result = worker.result
<1>1. \/ worker' = worker
      \/ \E a : worker' = [worker EXCEPT !.answer = a]
  BY DEF ServerNext, ServerAccepts, ServerRejects, RequestLost, TurnEnds, ThreadOpens,
         UserActs, ServerGoesOrComes, Answered
<1>2. QED
  BY <1>1 DEF TypeOK, Workers

-----------------------------------------------------------------------------
(* The locks.                                                              *)

LEMMA LockStep == IInv /\ [Next]_vars => LockInv'
<1> SUFFICES ASSUME IInv, [Next]_vars PROVE LockInv'
  OBVIOUS
<1> USE DEF IInv, TypeOK, LockInv, Delivering, Dispatching, Workers, lockVars
<1>1. CASE UNCHANGED <<worker, lockVars>>
  BY <1>1
<1>2. CASE ReceiverNext
  BY <1>2 DEF ReceiverNext, AckBegin, AckEnd, AckCrash, RetryBegin, RetryCommit, RetryCrash
<1>3. CASE EnsureWorker
  BY <1>3 DEF EnsureWorker, IdleWorker
<1>4. CASE WorkerCrash
  BY <1>4 DEF WorkerCrash, IdleWorker
<1>5. CASE ServerNext
  BY <1>5, OnlyAnswer, OutsideWorker
<1>6. CASE WorkerStep
  <2>1. CASE ScanConnect
    BY <2>1 DEF ScanConnect
  <2>a. CASE ScanConnectFails
    BY <1>1, <2>a DEF ScanConnectFails
  <2>2. CASE ScanEnds
    BY <2>2 DEF ScanEnds, IdleWorker
  <2>3. ASSUME NEW j \in Jobs, ResolveRecord(j) PROVE LockInv'
    BY <2>3 DEF ResolveRecord
  <2>4. CASE SkipRecord
    BY <2>4 DEF SkipRecord, NextRecord
  <2>5. CASE OwnerMismatch
    BY <2>5 DEF OwnerMismatch, NextRecord
  <2>6. CASE BeginDelivery
    BY <2>6 DEF BeginDelivery, Deliverable
  <2>7. ASSUME NEW r, Finish(r), UNCHANGED deliveryLock, worker.pc \in Delivering
        PROVE  LockInv'
    BY <2>7 DEF Finish
  <2>8. CASE ThreadRead
    <3>1. CASE worker' = [worker EXCEPT !.pc = "guard", !.method = "start"]
               /\ UNCHANGED lockVars
      BY <2>8, <3>1 DEF ThreadRead
    <3>2. CASE worker' = [worker EXCEPT !.pc = "turns"] /\ UNCHANGED lockVars
      BY <2>8, <3>2 DEF ThreadRead
    <3>3. QED
      BY <2>8, <2>7, <3>1, <3>2 DEF ThreadRead
  <2>9. CASE TurnsList
    <3>1. CASE worker' = [worker EXCEPT !.pc = "guard", !.method = "steer"]
               /\ UNCHANGED lockVars
      BY <2>9, <3>1 DEF TurnsList
    <3>2. QED
      BY <2>9, <2>7, <3>1 DEF TurnsList
  <2>10. CASE QueryFails
    BY <2>10, <2>7 DEF QueryFails
  <2>11. CASE DispatchGuard
    BY <2>11, <2>7 DEF DispatchGuard
  <2>12. CASE MarkDispatching
    BY <2>12 DEF MarkDispatching
  <2>13. CASE SendRequest
    BY <2>13 DEF SendRequest
  <2>14. CASE ReadAnswer
    BY <2>14, <2>7 DEF ReadAnswer
  <2>15. CASE WriteResult
    BY <2>15 DEF WriteResult, NextRecord
  <2>16. QED
    BY <1>6, <2>1, <2>a, <2>2, <2>3, <2>4, <2>5, <2>6, <2>8, <2>9, <2>10, <2>11, <2>12, <2>13,
       <2>14, <2>15 DEF WorkerStep
<1>7. QED
  BY <1>1, <1>2, <1>3, <1>4, <1>5, <1>6, OutsideWorker DEF Next, vars

-----------------------------------------------------------------------------
(* Envelopes and the owner of the address.                                 *)

LEMMA AskStep == IInv /\ [Next]_vars => AskInv'
<1> SUFFICES ASSUME IInv, [Next]_vars PROVE AskInv'
  OBVIOUS
<1> USE DEF IInv, TypeOK, AskInv, InboxBelongsToOwner, registryVars, mailVars
<1>1. CASE UNCHANGED <<registryVars, sender, recipient, box>>
  BY <1>1
<1>2. CASE RegistryNext
  <2>1. ASSUME NEW t \in Threads, RegisterMailbox(t) PROVE AskInv'
    BY <2>1 DEF RegisterMailbox, Endpoints
  <2>2. ASSUME NEW on \in BOOLEAN, NEW policy \in PolicyChoices,
               ConfigureMailboxDelivery(on, policy)
        PROVE  AskInv'
    BY <2>2 DEF ConfigureMailboxDelivery, Endpoints
  <2>3. CASE UnregisterArchive
    BY <2>3 DEF UnregisterArchive
  <2>4. CASE UnregisterDrop
    BY <2>4 DEF UnregisterDrop, NoEndpoint
  <2>5. CASE UnregisterCrash
    BY <2>5 DEF UnregisterCrash
  <2>6. QED
    BY <1>2, <2>1, <2>2, <2>3, <2>4, <2>5 DEF RegistryNext
<1>3. ASSUME NEW j \in Jobs, AskResolve(j) PROVE AskInv'
  BY <1>3 DEF AskResolve, Endpoints
<1>4. ASSUME NEW j \in Jobs, AskCompare(j) PROVE AskInv'
  <2>1. CASE StillResolved(j)
    <3>1. /\ sender' = [sender EXCEPT ![j].pc = "locked"]
          /\ regLock = "free" /\ regLock' = "ask"
          /\ sender[j].pc = "resolved" /\ sender[j].ep = endpoint
          /\ UNCHANGED <<endpoint, recipient, box>>
      BY <1>4, <2>1 DEF AskCompare, StillResolved
    <3>2. \A i \in Jobs : sender[i].pc # "locked"
      BY <3>1
    <3>3. \A i \in Jobs : /\ sender'[i].ep = sender[i].ep
                           /\ sender'[i].pc = IF i = j THEN "locked" ELSE sender[i].pc
      BY <3>1
    <3>4. QED
      BY <3>1, <3>2, <3>3
  <2>2. CASE ~StillResolved(j)
    <3>1. /\ sender' = [sender EXCEPT ![j] = [pc |-> "failed", ep |-> NoEndpoint]]
          /\ UNCHANGED <<endpoint, regLock, recipient, box>>
      BY <1>4, <2>2 DEF AskCompare
    <3>2. QED
      BY <3>1
  <2>3. QED
    BY <2>1, <2>2
<1>5. ASSUME NEW j \in Jobs, AskWrite(j) PROVE AskInv'
  BY <1>5 DEF AskWrite
<1>6. ASSUME NEW j \in Jobs, AskCrash(j) PROVE AskInv'
  BY <1>6 DEF AskCrash
<1>7. CASE ReceiverNext
  BY <1>7 DEF ReceiverNext, AckBegin, AckEnd, AckCrash, RetryBegin, RetryCommit, RetryCrash
<1>8. QED
  BY <1>1, <1>2, <1>3, <1>4, <1>5, <1>6, <1>7, OutsideWorker DEF Next, SenderNext, vars

-----------------------------------------------------------------------------
(* Requests and acceptances.                                               *)

LEMMA RequestStep == IInv /\ [Next]_vars => RequestInv'
<1> SUFFICES ASSUME IInv, [Next]_vars PROVE RequestInv'
  OBVIOUS
<1> USE DEF IInv, RequestInv, AtMostOnce, Accepted, InFlight, registryVars, mailVars, serverVars
<1>1. CASE UNCHANGED <<recipient, box, flight, accepted>>
  BY <1>1
<1>2. CASE UNCHANGED <<recipient, flight, accepted>>
           /\ \A j \in Jobs : box[j] # "unsent" => box'[j] # "unsent"
  BY <1>2 DEF TypeOK, Requests
<1>3. CASE RegistryNext
  <2>1. \A j \in Jobs : box[j] # "unsent" => box'[j] # "unsent"
    BY <1>3 DEF RegistryNext, RegisterMailbox, ConfigureMailboxDelivery, UnregisterArchive,
       UnregisterDrop, UnregisterCrash
  <2>2. QED
    BY <1>2, <1>3, <2>1, OutsideWorker
<1>4. ASSUME NEW j \in Jobs, AskResolve(j) \/ AskCompare(j) \/ AskCrash(j) PROVE RequestInv'
  BY <1>1, <1>4 DEF AskResolve, AskCompare, AskCrash
<1>5. ASSUME NEW j \in Jobs, AskWrite(j) PROVE RequestInv'
  <2>1. /\ box[j] = "unsent" /\ box' = [box EXCEPT ![j] = "inbox"]
        /\ \A i \in Jobs \ {j} : recipient'[i] = recipient[i]
        /\ UNCHANGED <<flight, accepted>>
    BY <1>5 DEF AskWrite, AskInv, TypeOK
  <2>2. QED
    BY <2>1 DEF TypeOK, Requests
<1>6. CASE ReceiverNext
  <2>1. \A j \in Jobs : box[j] # "unsent" => box'[j] # "unsent"
    BY <1>6 DEF ReceiverNext, AckBegin, AckEnd, AckCrash, RetryBegin, RetryCommit,
       RetryCrash, TypeOK
  <2>2. QED
    BY <1>2, <1>6, <2>1, OutsideWorker
<1>7. CASE WorkerStep
  <2>1. CASE flight' = flight
    BY <1>1, <1>7, <2>1, OutsideWorker
  <2>2. CASE SendRequest
    <3>1. DEFINE new == [job |-> worker.job, thread |-> Target, method |-> worker.method]
    <3>2. /\ new.job \in Jobs /\ new.thread = recipient[new.job] /\ box[new.job] # "unsent"
          /\ Unoffered(new.job)
          /\ flight' = flight \cup {new}
      BY <2>2 DEF SendRequest, WorkerInv, LockInv, Delivering, Target
    <3>3. UNCHANGED <<recipient, box, accepted>>
      BY <2>2 DEF SendRequest
    <3>4. QED
      BY <3>2, <3>3 DEF Unoffered
  <2>3. QED
    BY <1>7, <2>1, <2>2
    DEF WorkerStep, ScanConnect, ScanConnectFails, ScanEnds, ResolveRecord, SkipRecord,
        OwnerMismatch, BeginDelivery, ThreadRead, TurnsList, QueryFails, DispatchGuard,
        MarkDispatching, ReadAnswer, WriteResult
<1>8. ASSUME NEW r \in flight, ServerAccepts(r) PROVE RequestInv'
  <2>1. /\ r.job \in Jobs /\ r.thread \in Threads /\ recipient[r.job] = r.thread
        /\ \A t \in Threads : accepted[r.job][t] = 0
        /\ \A q \in flight \ {r} : q.job # r.job
        /\ flight \subseteq Requests /\ accepted \in [Jobs -> [Threads -> Nat]]
    <3>1. /\ r.job \in Jobs /\ r.thread \in Threads
          /\ flight \subseteq Requests /\ accepted \in [Jobs -> [Threads -> Nat]]
      BY DEF TypeOK, Requests
    <3>2. ~Accepted(r.job)
      BY <3>1
    <3>3. \A t \in Threads : accepted[r.job][t] \in Nat /\ ~(accepted[r.job][t] > 0)
      BY <3>1, <3>2
    <3>4. \A t \in Threads : accepted[r.job][t] = 0
      BY <3>3
    <3>5. QED
      BY <3>1, <3>4
  <2>2. /\ flight' = flight \ {r}
        /\ accepted' = [accepted EXCEPT ![r.job][r.thread] = @ + 1]
        /\ UNCHANGED <<recipient, box>>
    BY <1>8 DEF ServerAccepts
  <2>3. \A j \in Jobs, t \in Threads :
           accepted'[j][t] = IF j = r.job /\ t = r.thread THEN 1 ELSE accepted[j][t]
    BY <2>1, <2>2
  <2>4. QED
    BY <2>1, <2>2, <2>3
<1>9. ASSUME NEW r \in flight, ServerRejects(r) \/ RequestLost(r) PROVE RequestInv'
  BY <1>9 DEF ServerRejects, RequestLost
<1>10. CASE EnsureWorker \/ WorkerCrash \/ ClockNext
  BY <1>1, <1>10, OutsideWorker
<1>11. QED
  BY <1>1, <1>3, <1>4, <1>5, <1>6, <1>7, <1>8, <1>9, <1>10
  DEF Next, SenderNext, ServerNext, TurnEnds, ThreadOpens, UserActs, ServerGoesOrComes, vars

-----------------------------------------------------------------------------
(* A message that gains neither an acceptance nor a request stays without. *)

LEMMA StaysUnoffered ==
  ASSUME IInv, [Next]_vars, NEW j \in Jobs, Unoffered(j), ~(SendRequest /\ worker.job = j)
  PROVE  Unoffered(j)'
<1> USE DEF Unoffered, Accepted, InFlight, IInv, serverVars
<1>1. CASE UNCHANGED <<flight, accepted>>
  BY <1>1
<1>2. CASE SendRequest
  BY <1>2 DEF SendRequest
<1>3. ASSUME NEW r \in flight, ServerAccepts(r) PROVE Unoffered(j)'
  <2>1. r.job # j /\ r.job \in Jobs /\ r.thread \in Threads
    BY DEF TypeOK, Requests
  <2>2. accepted'[j] = accepted[j] /\ flight' \subseteq flight
    BY <1>3, <2>1 DEF ServerAccepts, TypeOK
  <2>3. QED
    BY <2>2
<1>4. ASSUME NEW r \in flight, ServerRejects(r) \/ RequestLost(r) PROVE Unoffered(j)'
  BY <1>4 DEF ServerRejects, RequestLost
<1>5. CASE WorkerStep /\ ~SendRequest
  BY <1>1, <1>5, OutsideWorker
  DEF WorkerStep, ScanConnect, ScanConnectFails, ScanEnds, ResolveRecord, SkipRecord,
      OwnerMismatch, BeginDelivery, ThreadRead, TurnsList, QueryFails, DispatchGuard,
      MarkDispatching, ReadAnswer, WriteResult
<1>6. QED
  BY <1>1, <1>2, <1>3, <1>4, <1>5, OutsideWorker
  DEF Next, ServerNext, TurnEnds, ThreadOpens, UserActs, ServerGoesOrComes, vars

LEMMA StaysAccepted ==
  ASSUME IInv, [Next]_vars, NEW j \in Jobs, Accepted(j)
  PROVE  Accepted(j)'
<1>1. CASE UNCHANGED accepted
  BY <1>1 DEF Accepted
<1>2. ASSUME NEW r \in flight, ServerAccepts(r) PROVE Accepted(j)'
  <2>1. PICK t \in Threads : accepted[j][t] > 0
    BY DEF Accepted
  <2>2. accepted'[j][t] > 0
    BY <1>2, <2>1 DEF ServerAccepts, IInv, TypeOK, Requests
  <2>3. QED
    BY <2>2 DEF Accepted
<1>3. QED
  BY <1>1, <1>2, OutsideWorker
  DEF Next, ServerNext, ServerRejects, RequestLost, TurnEnds, ThreadOpens, UserActs,
      ServerGoesOrComes, vars, serverVars

-----------------------------------------------------------------------------
(* Delivery records.                                                       *)

LEMMA RecordStep == IInv /\ [Next]_vars => RecordInv'
<1> SUFFICES ASSUME IInv, [Next]_vars PROVE RecordInv'
  OBVIOUS
<1>i. IInv
  OBVIOUS
<1> DEFINE Settling == {"delivered", "dispatching", "uncertain"}
           Safe(j) == /\ delivery[j].state \notin Settling => Unoffered(j)
                      /\ deliveryLock[j] = "retry" => Unoffered(j)
<1>1. \A j \in Jobs : box[j] = "inbox" => Safe(j)
  BY DEF IInv, RecordInv, RetryableNotAccepted, Unoffered
<1>2. \A j \in Jobs : box[j] = "unsent" => Unoffered(j)
  BY DEF IInv, RequestInv, Unoffered, Accepted, InFlight
<1> SUFFICES /\ \A j \in Jobs : box'[j] = "inbox" => Safe(j)'
             /\ \A j \in Jobs : delivery'[j].state = "delivered" => Accepted(j)'
  BY DEF RecordInv, RetryableNotAccepted, DeliveredTruthful, Unoffered
<1> SUFFICES ASSUME NEW j \in Jobs
             PROVE  /\ box'[j] = "inbox" => Safe(j)'
                    /\ delivery'[j].state = "delivered" => Accepted(j)'
  OBVIOUS
<1>3. delivery[j].state = "delivered" => Accepted(j)
  BY DEF IInv, RecordInv, DeliveredTruthful
<1> HIDE DEF IInv
<1>4. Accepted(j) => Accepted(j)'
  BY <1>i, StaysAccepted
<1>5. Unoffered(j) /\ ~(SendRequest /\ worker.job = j) => Unoffered(j)'
  BY <1>i, StaysUnoffered
<1>6. ASSUME ~SendRequest, delivery'[j].state = delivery[j].state,
             deliveryLock'[j] = "retry" => deliveryLock[j] = "retry",
             box'[j] = "inbox" => box[j] = "inbox"
      PROVE  /\ box'[j] = "inbox" => Safe(j)'
             /\ delivery'[j].state = "delivered" => Accepted(j)'
  BY <1>1, <1>3, <1>4, <1>5, <1>6
<1>t. TypeOK /\ LockInv /\ WorkerInv
  BY DEF IInv
<1> USE DEF registryVars, mailVars, lockVars
<1>7. CASE SendRequest
  <2>1. /\ UNCHANGED <<box, delivery, deliveryLock>>
        /\ deliveryLock[worker.job] = "worker" /\ worker.job \in Jobs
        /\ box[worker.job] = "inbox" => delivery[worker.job].state = "dispatching"
    BY <1>7, <1>t DEF SendRequest, LockInv, WorkerInv, Delivering
  <2>2. QED
    BY <2>1, <1>1, <1>3, <1>4, <1>5
<1>8. CASE RegistryNext /\ ~SendRequest
  <2>1. CASE UnregisterArchive
    <3>1. box'[j] # "inbox" /\ delivery'[j].state = "none"
      BY <2>1 DEF UnregisterArchive, Plain
    <3>2. QED
      BY <3>1
  <2>2. CASE UNCHANGED <<box, delivery, deliveryLock>>
    BY <1>6, <1>8, <2>2
  <2>3. QED
    BY <1>8, <2>1, <2>2 DEF RegistryNext, RegisterMailbox, ConfigureMailboxDelivery,
       UnregisterDrop, UnregisterCrash
<1>9. ASSUME NEW i \in Jobs, AskWrite(i), ~SendRequest
      PROVE  /\ box'[j] = "inbox" => Safe(j)'
             /\ delivery'[j].state = "delivered" => Accepted(j)'
  <2>1. UNCHANGED <<delivery, deliveryLock>> /\ (i # j => box'[j] = box[j])
    BY <1>9, <1>t DEF AskWrite, TypeOK
  <2>2. CASE i # j
    BY <1>6, <1>9, <2>1, <2>2
  <2>3. CASE i = j
    <3>1. box[j] = "unsent"
      BY <1>9, <1>i, <2>3 DEF AskWrite, IInv, AskInv
    <3>2. QED
      BY <1>2, <1>3, <1>4, <1>5, <1>9, <2>1, <3>1
  <2>4. QED
    BY <2>2, <2>3
<1>10. ASSUME NEW i \in Jobs, AskResolve(i) \/ AskCompare(i) \/ AskCrash(i), ~SendRequest
      PROVE  /\ box'[j] = "inbox" => Safe(j)'
             /\ delivery'[j].state = "delivered" => Accepted(j)'
  BY <1>6, <1>10 DEF AskResolve, AskCompare, AskCrash
<1>11. ASSUME NEW i \in Jobs, RetryBegin(i), ~SendRequest
      PROVE  /\ box'[j] = "inbox" => Safe(j)'
             /\ delivery'[j].state = "delivered" => Accepted(j)'
  <2>1. /\ UNCHANGED <<box, delivery>> /\ (i # j => deliveryLock'[j] = deliveryLock[j])
        /\ i = j => delivery[j].state \notin Settling
    BY <1>11, <1>t DEF RetryBegin, RetryStates, TypeOK
  <2>2. QED
    BY <2>1, <1>11, <1>1, <1>3, <1>4, <1>5
<1>12. ASSUME NEW i \in Jobs, RetryCommit(i), ~SendRequest
      PROVE  /\ box'[j] = "inbox" => Safe(j)'
             /\ delivery'[j].state = "delivered" => Accepted(j)'
  <2>1. /\ UNCHANGED box /\ (i # j => delivery'[j] = delivery[j])
        /\ i = j => deliveryLock[j] = "retry" /\ delivery'[j].state = "queued"
        /\ deliveryLock'[j] = "retry" => deliveryLock[j] = "retry"
    BY <1>12, <1>t DEF RetryCommit, Plain, TypeOK
  <2>2. QED
    BY <2>1, <1>12, <1>1, <1>3, <1>4, <1>5
<1>13. ASSUME NEW i \in Jobs, AckBegin(i) \/ AckEnd(i) \/ AckCrash(i) \/ RetryCrash(i),
              ~SendRequest
      PROVE  /\ box'[j] = "inbox" => Safe(j)'
             /\ delivery'[j].state = "delivered" => Accepted(j)'
  BY <1>6, <1>13, <1>t DEF AckBegin, AckEnd, AckCrash, RetryCrash, TypeOK
<1>14. CASE (ClockNext \/ ServerNext \/ EnsureWorker \/ WorkerCrash) /\ ~SendRequest
  <2>1. /\ UNCHANGED box
        /\ delivery'[j].state = delivery[j].state
        /\ deliveryLock'[j] = "retry" => deliveryLock[j] = "retry"
    <3>1. CASE ServerNext
      BY <3>1, OutsideWorker
    <3>2. CASE EnsureWorker \/ WorkerCrash
      BY <3>2, <1>t, OutsideWorker DEF EnsureWorker, WorkerCrash, TypeOK
    <3>3. CASE ConnBackoffExpires
      BY <3>3 DEF ConnBackoffExpires
    <3>4. ASSUME NEW i \in Jobs, BackoffExpires(i)
          PROVE  UNCHANGED <<box, deliveryLock>> /\ delivery'[j].state = delivery[j].state
      BY <3>4, <1>t DEF BackoffExpires, TypeOK, DeliveryRecords
    <3>5. QED
      BY <1>14, <3>1, <3>2, <3>3, <3>4 DEF ClockNext
  <2>2. QED
    BY <1>6, <1>14, <2>1
<1>15. CASE WorkerStep /\ ~SendRequest
  <2>1. UNCHANGED box
    BY <1>15, OutsideWorker
  <2>2. CASE delivery' = delivery /\ (deliveryLock'[j] = "retry" => deliveryLock[j] = "retry")
    BY <1>6, <1>15, <2>1, <2>2
  <2>3. CASE OwnerMismatch
    <3>1. /\ worker.job \in Jobs
          /\ delivery' = [delivery EXCEPT ![worker.job] = Plain("failed")]
          /\ delivery[worker.job].state \notin Settling
          /\ UNCHANGED deliveryLock
      BY <2>3, <1>t DEF OwnerMismatch, Deliverable, TerminalStates, LockInv
    <3>2. /\ worker.job # j => delivery'[j] = delivery[j]
          /\ worker.job = j => delivery'[j].state = "failed"
      BY <3>1, <1>t DEF TypeOK, Plain
    <3>3. QED
      BY <1>15, <2>1, <3>1, <3>2, <1>1, <1>3, <1>4, <1>5
  <2>4. CASE MarkDispatching
    <3>1. /\ worker.job \in Jobs
          /\ delivery' = [delivery EXCEPT ![worker.job] = Plain("dispatching")]
          /\ UNCHANGED deliveryLock
      BY <2>4, <1>t DEF MarkDispatching, LockInv, Delivering
    <3>2. /\ worker.job # j => delivery'[j] = delivery[j]
          /\ worker.job = j => delivery'[j].state = "dispatching"
      BY <3>1, <1>t DEF TypeOK, Plain
    <3>3. QED
      BY <1>15, <2>1, <3>1, <3>2, <1>1, <1>3, <1>4, <1>5
  <2>5. CASE WriteResult
    <3>1. /\ worker.job \in Jobs
          /\ delivery' = [delivery EXCEPT ![worker.job] = worker.result]
          /\ deliveryLock' = [deliveryLock EXCEPT ![worker.job] = "free"]
          /\ worker.result.state = "delivered" => Accepted(worker.job)
          /\ worker.result.state \notin Settling /\ box[worker.job] = "inbox"
                => Unoffered(worker.job)
      BY <2>5, <1>t DEF WriteResult, LockInv, WorkerInv, Delivering
    <3>2. /\ worker.job # j => delivery'[j] = delivery[j]
          /\ worker.job = j => delivery'[j] = worker.result
          /\ deliveryLock'[j] = "retry" => deliveryLock[j] = "retry"
      BY <3>1, <1>t DEF TypeOK
    <3>3. QED
      BY <1>15, <2>1, <3>1, <3>2, <1>1, <1>3, <1>4, <1>5
  <2>6. CASE BeginDelivery
    BY <1>t, <2>2, <2>6 DEF BeginDelivery, TypeOK
  <2>7. QED
    BY <1>15, <2>2, <2>3, <2>4, <2>5, <2>6
    DEF WorkerStep, ScanConnect, ScanConnectFails, ScanEnds, ResolveRecord, SkipRecord,
        ThreadRead, TurnsList, QueryFails, DispatchGuard, ReadAnswer
<1>16. CASE UNCHANGED vars /\ ~SendRequest
  BY <1>6, <1>16 DEF vars
<1>17. QED
  BY <1>7, <1>8, <1>9, <1>10, <1>11, <1>12, <1>13, <1>14, <1>15, <1>16
  DEF Next, SenderNext, ReceiverNext

-----------------------------------------------------------------------------
(* The worker's knowledge.                                                 *)

LEMMA WorkerInvStep == IInv /\ [Next]_vars => WorkerInv'
<1> SUFFICES ASSUME IInv, [Next]_vars PROVE WorkerInv'
  OBVIOUS
<1>i. IInv
  OBVIOUS
<1>t. TypeOK /\ LockInv /\ WorkerInv /\ AskInv /\ RequestInv
  BY DEF IInv
<1> HIDE DEF IInv
<1>k. ASSUME NEW j \in Jobs
      PROVE  /\ Accepted(j) => Accepted(j)'
             /\ Unoffered(j) /\ ~(SendRequest /\ worker.job = j) => Unoffered(j)'
  BY <1>i, StaysAccepted, StaysUnoffered
<1>s. UNCHANGED worker \/ ServerNext => ~SendRequest
  BY <1>t, OnlyAnswer DEF SendRequest, TypeOK, Workers
(* Steps of the other processes. *)
<1>1. ASSUME UNCHANGED worker,
             ~SendRequest,
             \A j \in Jobs : box[j] # "unsent" =>
                 /\ recipient'[j] = recipient[j]
                 /\ box'[j] # "unsent"
                 /\ box'[j] = "inbox" => box[j] = "inbox"
                 /\ deliveryLock[j] = "worker" /\ box'[j] = "inbox" =>
                        delivery'[j].state = delivery[j].state
      PROVE WorkerInv'
  <2> DEFINE w == worker.job
  <2>1. /\ \A j \in worker.pending : j \in Jobs /\ box'[j] # "unsent"
        /\ worker.pc \in Delivering \cup {"resolved"} => w \in Jobs /\ box'[w] # "unsent"
    BY <1>1, <1>t DEF TypeOK, Workers, LockInv, WorkerInv
  <2>2. worker.pc \in Delivering =>
           /\ recipient'[w] = recipient[w]
           /\ box'[w] = "inbox" => box[w] = "inbox" /\ delivery'[w].state = delivery[w].state
    BY <1>1, <1>t DEF LockInv, WorkerInv
  <2>3. worker.pc \in Delivering =>
           /\ Accepted(w) => Accepted(w)'
           /\ Unoffered(w) => Unoffered(w)'
    BY <1>1, <1>k, <2>1
  <2>4. QED
    BY <1>1, <1>t, <2>1, <2>2, <2>3 DEF WorkerInv, Delivering
<1> USE DEF registryVars, mailVars, lockVars, serverVars
<1>2. CASE RegistryNext
  <2>1. CASE UnregisterArchive
    BY <1>1, <1>2, <1>s, <2>1, <1>t, OutsideWorker DEF UnregisterArchive, TypeOK
  <2>2. CASE UNCHANGED <<box, delivery>>
    BY <1>1, <1>2, <1>s, <2>2, OutsideWorker
  <2>3. QED
    BY <1>2, <2>1, <2>2 DEF RegistryNext, RegisterMailbox, ConfigureMailboxDelivery,
       UnregisterDrop, UnregisterCrash
<1>3. CASE SenderNext
  <2>1. \A j \in Jobs : box[j] # "unsent" =>
            recipient'[j] = recipient[j] /\ box'[j] = box[j]
    BY <1>3, <1>t DEF SenderNext, AskResolve, AskCompare, AskWrite, AskCrash, AskInv, TypeOK
  <2>2. UNCHANGED <<worker, delivery>> /\ ~SendRequest
    BY <1>3, <1>s, OutsideWorker
  <2>3. QED
    BY <1>1, <2>1, <2>2
<1>4. CASE ReceiverNext
  <2>1. \A j \in Jobs : /\ box[j] # "unsent" => box'[j] # "unsent"
                        /\ box'[j] = "inbox" => box[j] = "inbox"
                        /\ deliveryLock[j] = "worker" => delivery'[j] = delivery[j]
    BY <1>4, <1>t DEF ReceiverNext, AckBegin, AckEnd, AckCrash, RetryBegin, RetryCommit,
       RetryCrash, TypeOK
  <2>2. UNCHANGED <<worker, recipient>> /\ ~SendRequest
    BY <1>4, <1>s, OutsideWorker
  <2>3. QED
    BY <1>1, <2>1, <2>2
<1>5. CASE ClockNext
  <2>1. \A j \in Jobs : delivery'[j].state = delivery[j].state
    <3>1. CASE ConnBackoffExpires
      BY <3>1 DEF ConnBackoffExpires
    <3>2. ASSUME NEW i \in Jobs, BackoffExpires(i), NEW j \in Jobs
          PROVE  delivery'[j].state = delivery[j].state
      BY <3>2, <1>t DEF BackoffExpires, TypeOK, DeliveryRecords
    <3>3. QED
      BY <1>5, <3>1, <3>2 DEF ClockNext
  <2>2. UNCHANGED <<worker, recipient, box>> /\ ~SendRequest
    BY <1>5, <1>s, OutsideWorker
  <2>3. QED
    BY <1>1, <2>1, <2>2
<1>6. CASE EnsureWorker \/ WorkerCrash
  BY <1>6 DEF EnsureWorker, WorkerCrash, WorkerInv, IdleWorker, Delivering
(* Answers. *)
<1>7. CASE ServerNext
  <2>1. UNCHANGED <<recipient, box, delivery>> /\ ~SendRequest
    BY <1>7, <1>s, OutsideWorker
  <2>2. CASE UNCHANGED worker
    BY <1>1, <2>1, <2>2
  <2>3. ASSUME NEW r \in flight, NEW a \in {"accepted", "rejected"},
               worker' = [worker EXCEPT !.answer = a],
               worker.pc = "await", worker.job = r.job,
               a = "accepted" => Accepted(r.job)',
               a = "rejected" => Unoffered(r.job)'
        PROVE  WorkerInv'
    BY <2>1, <2>3, <1>t DEF WorkerInv, TypeOK, Workers, Delivering
  <2>4. ASSUME NEW r \in flight, ServerAccepts(r), worker' # worker PROVE WorkerInv'
    <3>1. r.job \in Jobs /\ r.thread \in Threads
      BY <1>t DEF TypeOK, Requests
    <3>2. accepted'[r.job][r.thread] > 0
      BY <2>4, <3>1, <1>t DEF ServerAccepts, TypeOK
    <3>3. Accepted(r.job)'
      BY <3>1, <3>2 DEF Accepted
    <3>4. /\ worker' = [worker EXCEPT !.answer = "accepted"]
          /\ worker.pc = "await" /\ worker.job = r.job
      BY <2>4 DEF ServerAccepts, Answered
    <3>5. QED
      BY <2>3, <3>3, <3>4
  <2>5. ASSUME NEW r \in flight, ServerRejects(r), worker' # worker PROVE WorkerInv'
    <3>1. ~Accepted(r.job) /\ (\A q \in flight \ {r} : q.job # r.job)
      BY <1>t DEF RequestInv, AtMostOnce, InFlight, TypeOK, Requests
    <3>2. flight' = flight \ {r} /\ UNCHANGED accepted
      BY <2>5 DEF ServerRejects
    <3>3. Unoffered(r.job)'
      BY <3>1, <3>2 DEF Unoffered, Accepted, InFlight
    <3>4. /\ worker' = [worker EXCEPT !.answer = "rejected"]
          /\ worker.pc = "await" /\ worker.job = r.job
      BY <2>5 DEF ServerRejects, Answered
    <3>5. QED
      BY <2>3, <3>3, <3>4
  <2>6. QED
    BY <1>7, <2>2, <2>4, <2>5 DEF ServerNext, RequestLost, TurnEnds, ThreadOpens, UserActs,
       ServerGoesOrComes
(* The worker's own steps. *)
<1>8. CASE WorkerStep
  <2>1. UNCHANGED <<recipient, box>>
    BY <1>8, OutsideWorker
  <2>2. CASE ScanConnect
    BY <2>1, <2>2, <1>t DEF ScanConnect, Pending, WorkerInv, AskInv, Delivering, TypeOK, Workers
  <2>3. CASE ScanConnectFails
    BY <2>1, <2>3, <1>1, <1>s DEF ScanConnectFails
  <2>4. CASE ScanEnds
    BY <2>4 DEF ScanEnds, WorkerInv, IdleWorker, Delivering
  <2>5. ASSUME NEW j \in Jobs, ResolveRecord(j) PROVE WorkerInv'
    BY <2>1, <2>5, <1>t DEF ResolveRecord, WorkerInv, Delivering, TypeOK, Workers
  <2>6. CASE SkipRecord
    BY <2>1, <2>6, <1>t DEF SkipRecord, NextRecord, WorkerInv, Delivering, TypeOK, Workers
  <2>7. CASE OwnerMismatch
    BY <2>1, <2>7, <1>t DEF OwnerMismatch, NextRecord, WorkerInv, Delivering, TypeOK, Workers
  <2>8. CASE BeginDelivery
    <3>1. worker.job \in Jobs /\ Unoffered(worker.job)
      BY <2>8, <1>i, <1>t DEF BeginDelivery, Deliverable, TerminalStates, IInv, RecordInv,
         RetryableNotAccepted, Unoffered, LockInv
    <3>2. Unoffered(worker.job)'
      BY <2>8, <3>1, <1>k DEF BeginDelivery, SendRequest
    <3>3. QED
      BY <2>1, <2>8, <3>2, <1>t DEF BeginDelivery, Addressed, WorkerInv, Delivering, TypeOK,
         Workers
  <2>9. ASSUME worker.pc \in {"probing", "turns", "guard"}, UNCHANGED <<flight, accepted>>,
               \E p \in {"turns", "guard", "mark"}, m \in {"none", "start", "steer"} :
                   /\ worker' = [worker EXCEPT !.pc = p, !.method = m]
                   /\ p \in {"guard", "mark"} => m # "none"
        PROVE  WorkerInv'
    <3>1. worker.job \in Jobs /\ Unoffered(worker.job)'
      BY <2>9, <1>t DEF LockInv, WorkerInv, Delivering, Unoffered, Accepted, InFlight
    <3>2. QED
      BY <2>1, <2>9, <3>1, <1>t DEF WorkerInv, Delivering, TypeOK, Workers
  <2>10. ASSUME NEW result \in DeliveryRecords, Finish(result),
                UNCHANGED <<flight, accepted>>,
                worker.pc \in Delivering,
                result.state = "delivered" => Accepted(worker.job),
                result.state \notin {"delivered", "dispatching", "uncertain"}
                    /\ box[worker.job] = "inbox" => Unoffered(worker.job)
         PROVE  WorkerInv'
    <3>1. /\ worker'.pc = "write" /\ worker'.job = worker.job /\ worker'.ep = worker.ep
          /\ worker'.pending = worker.pending /\ worker'.answer = "none"
          /\ worker'.result = result
      BY <2>10, <1>t DEF Finish, TypeOK, Workers
    <3>2. QED
      BY <2>1, <2>10, <3>1, <1>t DEF WorkerInv, Delivering, Unoffered, Accepted, InFlight
  <2>11. /\ \A s \in DeliveryStates : Plain(s) \in DeliveryRecords /\ Plain(s).state = s
         /\ \A e : Failure(e) \in DeliveryRecords /\ Failure(e).state # "delivered"
    BY <1>t, RecordTypes, FailureType DEF Plain, Failure
  <2>12. CASE ThreadRead
    <3>1. Unoffered(worker.job)
      BY <2>12, <1>t DEF ThreadRead, WorkerInv
    <3>2. ASSUME NEW r \in DeliveryRecords, r.state # "delivered", Finish(r) PROVE WorkerInv'
      BY <2>10, <2>12, <3>1, <3>2 DEF ThreadRead, Delivering
    <3>3. CASE worker' = [worker EXCEPT !.pc = "guard", !.method = "start"]
      BY <2>9, <2>12, <3>3 DEF ThreadRead
    <3>4. CASE worker' = [worker EXCEPT !.pc = "turns"]
      <4>1. worker' = [worker EXCEPT !.pc = "turns", !.method = worker.method]
        BY <3>4, <1>t DEF TypeOK, Workers
      <4>2. worker.method \in {"none", "start", "steer"}
        BY <1>t DEF TypeOK, Workers
      <4>3. QED
        BY <2>9, <2>12, <4>1, <4>2 DEF ThreadRead
    <3>5. QED
      BY <2>11, <2>12, <3>2, <3>3, <3>4 DEF ThreadRead, DeliveryStates
  <2>13. CASE TurnsList
    <3>1. Unoffered(worker.job)
      BY <2>13, <1>t DEF TurnsList, WorkerInv
    <3>2. CASE Finish(Plain("waiting"))
      BY <2>10, <2>11, <2>13, <3>1, <3>2 DEF TurnsList, Delivering, DeliveryStates
    <3>3. CASE worker' = [worker EXCEPT !.pc = "guard", !.method = "steer"]
      BY <2>9, <2>13, <3>3 DEF TurnsList
    <3>4. QED
      BY <2>13, <3>2, <3>3 DEF TurnsList
  <2>14. CASE QueryFails
    BY <2>10, <2>11, <2>14, <1>t DEF QueryFails, WorkerInv, Delivering
  <2>15. CASE DispatchGuard
    <3>1. Unoffered(worker.job) /\ worker.method \in {"start", "steer"}
      BY <2>15, <1>t DEF DispatchGuard, WorkerInv, TypeOK, Workers
    <3>2. ASSUME NEW r \in DeliveryRecords, r.state # "delivered", Finish(r) PROVE WorkerInv'
      BY <2>10, <2>15, <3>1, <3>2 DEF DispatchGuard, Delivering
    <3>3. CASE worker' = [worker EXCEPT !.pc = "mark"]
      <4>1. worker' = [worker EXCEPT !.pc = "mark", !.method = worker.method]
        BY <3>3, <1>t DEF TypeOK, Workers
      <4>2. QED
        BY <2>9, <2>15, <3>1, <4>1 DEF DispatchGuard
    <3>4. QED
      BY <2>11, <2>15, <3>2, <3>3 DEF DispatchGuard, DeliveryStates, TerminalStates
  <2>16. CASE MarkDispatching
    <3>1. worker.job \in Jobs /\ Unoffered(worker.job)'
      BY <2>16, <1>t DEF MarkDispatching, LockInv, WorkerInv, Delivering, Unoffered, Accepted,
         InFlight
    <3>2. delivery'[worker.job].state = "dispatching"
      BY <2>16, <3>1, <1>t DEF MarkDispatching, TypeOK, Plain
    <3>3. QED
      BY <2>1, <2>16, <3>1, <3>2, <1>t DEF MarkDispatching, WorkerInv, Delivering, TypeOK,
         Workers
  <2>17. CASE SendRequest
    BY <2>1, <2>17, <1>t DEF SendRequest, WorkerInv, Delivering, TypeOK, Workers
  <2>18. CASE ReadAnswer
    <3>1. CASE worker.answer = "accepted" /\ Finish(Plain("delivered"))
      BY <2>10, <2>11, <2>18, <3>1, <1>t DEF ReadAnswer, WorkerInv, Delivering,
         DeliveryStates, TerminalStates
    <3>2. CASE worker.answer = "rejected" /\ Finish(Failure("rpc"))
      BY <2>10, <2>11, <2>18, <3>2, <1>t DEF ReadAnswer, WorkerInv, Delivering
    <3>3. CASE Finish(Failure("other"))
      <4>1. box[worker.job] = "inbox" => Failure("other").state = "uncertain"
        BY <2>18, <1>t DEF ReadAnswer, WorkerInv, Failure
      <4>2. QED
        BY <2>10, <2>11, <2>18, <3>3, <4>1 DEF ReadAnswer, Delivering
    <3>4. QED
      BY <2>18, <3>1, <3>2, <3>3 DEF ReadAnswer
  <2>19. CASE WriteResult
    BY <2>1, <2>19, <1>t DEF WriteResult, NextRecord, WorkerInv, Delivering, TypeOK, Workers
  <2>20. QED
    BY <1>8, <2>2, <2>3, <2>4, <2>5, <2>6, <2>7, <2>8, <2>12, <2>13, <2>14, <2>15, <2>16,
       <2>17, <2>18, <2>19 DEF WorkerStep
<1>9. CASE UNCHANGED vars
  BY <1>1, <1>9, <1>s DEF vars
<1>10. QED
  BY <1>2, <1>3, <1>4, <1>5, <1>6, <1>7, <1>8, <1>9 DEF Next

-----------------------------------------------------------------------------
(* The theorems.                                                           *)

LEMMA InitInv == Init => IInv
<1> SUFFICES ASSUME Init PROVE IInv
  OBVIOUS
<1>1. TypeOK
  BY InitType
<1>2. AskInv /\ LockInv
  BY ConstantsAssumption DEF Init, AskInv, LockInv, InboxBelongsToOwner, IdleWorker, Delivering,
     Dispatching, NoEndpoint
<1>3. \A j \in Jobs : Unoffered(j)
  <2>1. ASSUME NEW j \in Jobs, NEW t \in Threads
        PROVE  ~(accepted[j][t] > 0)
    <3>1. accepted[j][t] = 0
      BY DEF Init
    <3>2. QED
      BY <3>1
  <2>2. flight = {}
    BY DEF Init
  <2>3. \A j \in Jobs : ~Accepted(j)
    BY <2>1 DEF Accepted
  <2>4. \A j \in Jobs : ~InFlight(j)
    BY <2>2 DEF InFlight
  <2>5. QED
    BY <2>3, <2>4 DEF Unoffered
<1>4. RequestInv
  BY <1>3 DEF Init, RequestInv, AtMostOnce, Unoffered
<1>5. RecordInv
  BY <1>3 DEF Init, RecordInv, RetryableNotAccepted, DeliveredTruthful, Unoffered, Plain
<1>6. WorkerInv
  BY DEF Init, WorkerInv, IdleWorker, Delivering
<1>7. QED
  BY <1>1, <1>2, <1>4, <1>5, <1>6 DEF IInv

LEMMA StepInv == IInv /\ [Next]_vars => IInv'
<1> SUFFICES ASSUME IInv, [Next]_vars PROVE IInv'
  OBVIOUS
<1>1. TypeOK' /\ LockInv' /\ AskInv' /\ RequestInv' /\ RecordInv' /\ WorkerInv'
  BY NextType, LockStep, AskStep, RequestStep, RecordStep, WorkerInvStep
<1>2. QED
  BY <1>1 DEF IInv

THEOREM Inductive == Spec => []IInv
  BY InitInv, StepInv, PTL DEF Spec

(* Every variable of the delivery system keeps its type.                   *)
THEOREM TypeCorrect == Spec => []TypeOK
<1>1. IInv => TypeOK
  BY DEF IInv
<1>2. QED
  BY <1>1, Inductive, PTL

(* mailbox_worker and retry_delivery put a message into a conversation at  *)
(* most once, for any number of messages, threads, crashes and retries.    *)
THEOREM DeliveredAtMostOnce == Spec => []AtMostOnce
<1>1. IInv => AtMostOnce
  BY DEF IInv, RequestInv
<1>2. QED
  BY <1>1, Inductive, PTL

(* Only the thread a message was written for ever gets it.                 *)
THEOREM DeliveredToRecipient == Spec => []RightRecipient
<1>1. IInv => RightRecipient
  BY DEF IInv, RequestInv, RightRecipient
<1>2. QED
  BY <1>1, Inductive, PTL

(* What the delivery files invite to retry was not accepted.               *)
THEOREM RetriesAreSafe == Spec => []RetryableNotAccepted
<1>1. IInv => RetryableNotAccepted
  BY DEF IInv, RecordInv
<1>2. QED
  BY <1>1, Inductive, PTL

(* "delivered" is never written of a message no thread accepted.           *)
THEOREM DeliveredIsTrue == Spec => []DeliveredTruthful
<1>1. IInv => DeliveredTruthful
  BY DEF IInv, RecordInv
<1>2. QED
  BY <1>1, Inductive, PTL

(* A new owner of the address finds no mail of the previous thread.        *)
THEOREM NoStaleMail == Spec => []InboxBelongsToOwner
<1>1. IInv => InboxBelongsToOwner
  BY DEF IInv, AskInv
<1>2. QED
  BY <1>1, Inductive, PTL

-----------------------------------------------------------------------------
(* What an attempt relies on.                                              *)

Ambiguous == {"dispatching", "uncertain"}

(* A message about to be sent was found in the inbox under its receipt     *)
(* lock; a record becomes ambiguous only by an attempt, and the attempt    *)
(* knows whether it did.                                                   *)
AttemptInv ==
    /\ worker.pc \in {"mark", "send"} => box[worker.job] # "done"
    /\ \A j \in Jobs :
        /\ box[j] = "unsent" => delivery[j].state \notin Ambiguous
        /\ deliveryLock[j] = "retry" /\ box[j] = "inbox" => delivery[j].state \notin Ambiguous
    /\ worker.pc \in {"probing", "turns", "guard", "mark"} /\ box[worker.job] = "inbox" =>
           delivery[worker.job].state \notin Ambiguous
    /\ worker.pc = "write" =>
           /\ worker.result.state # "dispatching"
           /\ worker.result.state = "uncertain" /\ box[worker.job] = "inbox" =>
                  delivery[worker.job].state \in Ambiguous

LEMMA AttemptInit == Init => AttemptInv
  BY DEF Init, AttemptInv, Plain, IdleWorker, Ambiguous

(* A step of another process leaves the attempt what it relies on.         *)
Undisturbed ==
    /\ worker'.pc = worker.pc /\ worker'.job = worker.job /\ worker'.result = worker.result
    /\ \A j \in Jobs :
        /\ box'[j] = "inbox" => box[j] \in {"unsent", "inbox"}
        /\ box'[j] = "unsent" => box[j] = "unsent"
        /\ box'[j] = "done" /\ box[j] # "done" => receiptLock[j] = "ack"
        /\ deliveryLock'[j] = "retry" =>
               deliveryLock[j] = "retry" \/ delivery[j].state \notin Ambiguous
        /\ delivery'[j].state # delivery[j].state =>
               /\ delivery'[j].state \notin Ambiguous
               /\ box'[j] # "inbox" \/ deliveryLock[j] = "retry"

LEMMA AttemptStill == IInv /\ AttemptInv /\ Undisturbed => AttemptInv'
<1> SUFFICES ASSUME IInv, AttemptInv, Undisturbed PROVE AttemptInv'
  OBVIOUS
<1>1. TypeOK /\ LockInv /\ WorkerInv
  BY DEF IInv
<1>2. worker.pc \in Delivering => /\ worker.job \in Jobs /\ box[worker.job] # "unsent"
                                  /\ deliveryLock[worker.job] = "worker"
  BY <1>1 DEF LockInv, WorkerInv
<1>3. worker.pc \in {"mark", "send"} => receiptLock[worker.job] = "worker"
  BY <1>1 DEF LockInv, Dispatching
<1>4. \A j \in Jobs :
        /\ box'[j] = "unsent" => delivery'[j].state \notin Ambiguous
        /\ deliveryLock'[j] = "retry" /\ box'[j] = "inbox" => delivery'[j].state \notin Ambiguous
  BY <1>1 DEF AttemptInv, Undisturbed
<1> QED  BY <1>2, <1>3, <1>4 DEF AttemptInv, Delivering, Undisturbed

LEMMA OthersDoNotDisturb ==
  ASSUME IInv, AttemptInv,
         RegistryNext \/ SenderNext \/ ReceiverNext \/ ClockNext \/ ServerNext
  PROVE  Undisturbed
<1>t. TypeOK /\ AskInv
  BY DEF IInv
<1> USE DEF Undisturbed, lockVars, mailVars, registryVars, serverVars
<1>1. CASE RegistryNext
  <2>a. UNCHANGED <<worker, deliveryLock>>
    BY <1>1, OutsideWorker
  <2>1. CASE UnregisterArchive
    BY <2>a, <2>1, <1>t DEF UnregisterArchive, TypeOK, Plain, Ambiguous
  <2>2. CASE UNCHANGED <<box, delivery>>
    BY <2>a, <2>2
  <2> QED  BY <1>1, <2>1, <2>2 DEF RegistryNext, RegisterMailbox, ConfigureMailboxDelivery,
       UnregisterDrop, UnregisterCrash
<1>2. CASE SenderNext
  <2>1. \A j \in Jobs : box'[j] # box[j] => box[j] = "unsent" /\ box'[j] = "inbox"
    <3>1. PICK i \in Jobs : AskResolve(i) \/ AskCompare(i) \/ AskWrite(i) \/ AskCrash(i)
      BY <1>2 DEF SenderNext
    <3>2. CASE AskWrite(i)
      BY <3>2, <1>t DEF AskWrite, AskInv, TypeOK
    <3> QED  BY <3>1, <3>2 DEF AskResolve, AskCompare, AskCrash
  <2>2. UNCHANGED <<worker, delivery, deliveryLock>>
    BY <1>2, OutsideWorker
  <2> QED  BY <2>1, <2>2
<1>3. ASSUME NEW i \in Jobs,
             \/ AckBegin(i) \/ AckEnd(i) \/ AckCrash(i)
             \/ RetryBegin(i) \/ RetryCommit(i) \/ RetryCrash(i)
      PROVE  Undisturbed
  <2>1. \A j \in Jobs :
          /\ box'[j] # box[j] => box[j] = "inbox" /\ box'[j] = "done" /\ receiptLock[j] = "ack"
          /\ deliveryLock'[j] = "retry" =>
                 deliveryLock[j] = "retry" \/ delivery[j].state \notin Ambiguous
          /\ delivery'[j].state # delivery[j].state =>
                 delivery'[j].state \notin Ambiguous /\ deliveryLock[j] = "retry"
    BY <1>3, <1>t DEF AckBegin, AckEnd, AckCrash, RetryBegin, RetryCommit, RetryCrash, TypeOK,
       RetryStates, Plain, Ambiguous
  <2>2. UNCHANGED worker
    BY <1>3 DEF AckBegin, AckEnd, AckCrash, RetryBegin, RetryCommit, RetryCrash
  <2> QED  BY <2>1, <2>2
<1>4. CASE ClockNext
  <2>1. \A j \in Jobs : delivery'[j].state = delivery[j].state
    <3>1. ASSUME NEW i \in Jobs, BackoffExpires(i)
          PROVE  \A j \in Jobs : delivery'[j].state = delivery[j].state
      BY <3>1, <1>t DEF BackoffExpires, TypeOK, DeliveryRecords
    <3> QED  BY <1>4, <3>1 DEF ClockNext, ConnBackoffExpires
  <2>2. UNCHANGED <<worker, box, deliveryLock>>
    BY <1>4, OutsideWorker
  <2> QED  BY <2>1, <2>2
<1>5. CASE ServerNext
  BY <1>5, <1>t, OutsideWorker, OnlyAnswer
<1> QED  BY <1>1, <1>2, <1>3, <1>4, <1>5 DEF ReceiverNext

(* A failed attempt is called uncertain only where it was marked.          *)
LEMMA FailureStates ==
  ASSUME NEW error
  PROVE  /\ Failure(error).state \in {"uncertain", "failed", "retry"}
         /\ Failure(error).state = "uncertain" =>
                delivery[worker.job].state = "dispatching" /\ error # "rpc"
         /\ delivery[worker.job].state = "dispatching" /\ error # "rpc" =>
                Failure(error).state = "uncertain"
  BY DEF Failure

LEMMA Finished ==
  ASSUME TypeOK, NEW r, Finish(r)
  PROVE  /\ worker'.pc = "write" /\ worker'.job = worker.job /\ worker'.result = r
         /\ worker'.answer = "none" /\ worker'.ep = worker.ep
         /\ \A j \in Jobs : deliveryLock' = deliveryLock => deliveryLock'[j] = deliveryLock[j]
  BY DEF Finish, TypeOK, Workers

LEMMA AttemptWorker == IInv /\ AttemptInv /\ WorkerStep => AttemptInv'
<1> SUFFICES ASSUME IInv, AttemptInv, WorkerStep PROVE AttemptInv'
  OBVIOUS
<1>t. TypeOK /\ LockInv /\ WorkerInv
  BY DEF IInv
<1>b. UNCHANGED box
  BY OutsideWorker
<1>w. worker.pc \in Delivering \cup {"resolved"} =>
          worker.job \in Jobs /\ box[worker.job] # "unsent"
  BY <1>t DEF LockInv, WorkerInv
<1> USE DEF lockVars, mailVars
<1>1. CASE ScanConnect
  BY <1>1, <1>b, <1>t DEF ScanConnect, AttemptInv, TypeOK, Workers
<1>2. CASE ScanConnectFails
  BY <1>2, <1>b DEF ScanConnectFails, AttemptInv
<1>3. CASE ScanEnds
  BY <1>3, <1>b DEF ScanEnds, AttemptInv, IdleWorker
<1>4. ASSUME NEW j \in Jobs, ResolveRecord(j) PROVE AttemptInv'
  BY <1>4, <1>b, <1>t DEF ResolveRecord, AttemptInv, TypeOK, Workers
<1>5. CASE SkipRecord
  BY <1>5, <1>b, <1>t DEF SkipRecord, NextRecord, AttemptInv, TypeOK, Workers
<1>6. CASE OwnerMismatch
  BY <1>6, <1>b, <1>t, <1>w DEF OwnerMismatch, NextRecord, AttemptInv, TypeOK, Workers, Plain, Ambiguous
<1>7. CASE BeginDelivery
  BY <1>7, <1>b, <1>t, <1>w DEF BeginDelivery, Deliverable, AttemptInv, TypeOK, Workers,
     TerminalStates, Ambiguous
(* An attempt that ends. *)
<1>8. ASSUME NEW r, Finish(r), UNCHANGED <<delivery, deliveryLock>>, r.state # "dispatching",
             r.state = "uncertain" => delivery[worker.job].state \in Ambiguous
      PROVE  AttemptInv'
  BY <1>8, <1>b, <1>t, Finished DEF AttemptInv
<1>9. /\ \A s \in {"waiting", "processed", "delivered"} :
             Plain(s).state # "dispatching" /\ Plain(s).state # "uncertain"
      /\ \A e : /\ Failure(e).state # "dispatching"
                /\ Failure(e).state = "uncertain" => delivery[worker.job].state \in Ambiguous
  BY FailureStates DEF Plain, Ambiguous
<1>10. CASE ThreadRead
  <2>a. UNCHANGED <<delivery, deliveryLock>> /\ worker.pc = "probing"
    BY <1>10 DEF ThreadRead
  <2>1. CASE worker' = [worker EXCEPT !.pc = "guard", !.method = "start"]
    BY <2>a, <2>1, <1>b, <1>t DEF AttemptInv, TypeOK, Workers
  <2>2. CASE worker' = [worker EXCEPT !.pc = "turns"]
    BY <2>a, <2>2, <1>b, <1>t DEF AttemptInv, TypeOK, Workers
  <2> QED  BY <1>8, <1>9, <1>10, <2>a, <2>1, <2>2 DEF ThreadRead
<1>11. CASE TurnsList
  <2>1. CASE worker' = [worker EXCEPT !.pc = "guard", !.method = "steer"]
    BY <1>11, <2>1, <1>b, <1>t DEF TurnsList, AttemptInv, TypeOK, Workers
  <2> QED  BY <1>8, <1>9, <1>11, <2>1 DEF TurnsList
<1>12. CASE QueryFails
  BY <1>8, <1>9, <1>12 DEF QueryFails
<1>13. CASE DispatchGuard
  <2>1. CASE worker' = [worker EXCEPT !.pc = "mark"] /\ box[worker.job] = "inbox"
    BY <1>13, <2>1, <1>b, <1>t DEF DispatchGuard, AttemptInv, TypeOK, Workers
  <2> QED  BY <1>8, <1>9, <1>13, <2>1 DEF DispatchGuard, StillPending
<1>14. CASE MarkDispatching
  BY <1>14, <1>b, <1>t, <1>w DEF MarkDispatching, AttemptInv, TypeOK, Workers, Delivering, LockInv
<1>15. CASE SendRequest
  BY <1>15, <1>b, <1>t DEF SendRequest, AttemptInv, TypeOK, Workers
<1>16. CASE ReadAnswer
  BY <1>8, <1>9, <1>16 DEF ReadAnswer
<1>17. CASE WriteResult
  BY <1>17, <1>b, <1>t, <1>w DEF WriteResult, NextRecord, AttemptInv, TypeOK, Workers, Delivering, LockInv
<1> QED  BY <1>1, <1>2, <1>3, <1>4, <1>5, <1>6, <1>7, <1>10, <1>11, <1>12, <1>13, <1>14, <1>15,
            <1>16, <1>17 DEF WorkerStep

LEMMA AttemptStep == IInv /\ AttemptInv /\ [Next]_vars => AttemptInv'
<1> SUFFICES ASSUME IInv, AttemptInv, [Next]_vars PROVE AttemptInv'
  OBVIOUS
<1>1. CASE EnsureWorker \/ WorkerCrash
  BY <1>1 DEF EnsureWorker, WorkerCrash, AttemptInv, IdleWorker, IInv, TypeOK, mailVars, lockVars
<1>2. CASE UNCHANGED vars
  BY <1>2 DEF vars, AttemptInv, mailVars, lockVars
<1> QED  BY <1>1, <1>2, OthersDoNotDisturb, AttemptStill, AttemptWorker DEF Next

(* The second inductive invariant.                                         *)
THEOREM Attempts == Spec => [](IInv /\ AttemptInv)
  BY InitInv, StepInv, AttemptInit, AttemptStep, PTL DEF Spec

(* What a receiver has marked processed is not sent to a Codex thread by   *)
(* the worker, whatever senders, retries and restarts of the worker do in  *)
(* the meantime.                                                           *)
THEOREM HandledIsNotSent == Spec => HandledNeverSent
<1>1. IInv /\ AttemptInv /\ [Next]_vars =>
        [\A r \in Requests : r \in flight' \ flight => box[r.job] # "done"]_vars
  <2> SUFFICES ASSUME IInv, AttemptInv, Next, NEW r \in Requests, r \in flight' \ flight
               PROVE  box[r.job] # "done"
    OBVIOUS
  <2>1. SendRequest
    BY OutsideWorker DEF Next, serverVars, EnsureWorker, WorkerCrash, WorkerStep, ScanConnect,
       ScanConnectFails, ScanEnds, ResolveRecord, SkipRecord, OwnerMismatch, BeginDelivery,
       ThreadRead, TurnsList, QueryFails, DispatchGuard, MarkDispatching, ReadAnswer, WriteResult,
       ServerNext, ServerAccepts, ServerRejects, RequestLost, TurnEnds, ThreadOpens, UserActs,
       ServerGoesOrComes
  <2> QED  BY <2>1 DEF SendRequest, AttemptInv
<1> QED  BY <1>1, Attempts, PTL DEF Spec, HandledNeverSent

-----------------------------------------------------------------------------
(* The refinement: every step is a step of the contract or changes nothing *)
(* that the contract sees.                                                 *)

Status == [j \in Jobs |-> ContractStatus(j)]
ContractStep == Contract!Next \/ UNCHANGED <<Status, recipient, accepted>>

Offered(j) == InFlight(j) \/ Committed(j)
Unresolved(j) == delivery[j].state \in Ambiguous /\ ~KnownRejected(j)

(* The contract's view of j is the same after the step.                    *)
Same(j) == ContractStatus(j)' = ContractStatus(j)

LEMMA StatusCases ==
  ASSUME NEW j \in Jobs
  PROVE  /\ Accepted(j) => ContractStatus(j) = "accepted"
         /\ ~Accepted(j) /\ Offered(j) => ContractStatus(j) = "offered"
         /\ ~Accepted(j) /\ ~Offered(j) =>
              /\ box[j] = "unsent" => ContractStatus(j) = "unsent"
              /\ box[j] # "unsent" =>
                   /\ box[j] # "inbox" \/ recipient[j] = NoThread => ContractStatus(j) = "withdrawn"
                   /\ box[j] = "inbox" /\ recipient[j] # NoThread =>
                        ContractStatus(j) = IF Unresolved(j) THEN "unresolved" ELSE "held"
  BY DEF ContractStatus, Offered, Unresolved, Ambiguous

LEMMA Looks ==
  ASSUME NEW j \in Jobs,
         Accepted(j)' <=> Accepted(j),
         Offered(j)' <=> Offered(j),
         box'[j] = box[j],
         recipient'[j] = recipient[j],
         box[j] = "inbox" /\ Unoffered(j) /\ ~Committed(j) => (Unresolved(j)' <=> Unresolved(j))
  PROVE  Same(j)
  BY DEF Same, ContractStatus, Offered, Unresolved, Ambiguous, Unoffered

LEMMA Stutters ==
  ASSUME \A j \in Jobs : Same(j), UNCHANGED <<recipient, accepted>>
  PROVE  ContractStep
<1>1. Status' = Status
  BY DEF Same, Status
<1> QED  BY <1>1 DEF ContractStep

LEMMA Moves ==
  ASSUME NEW i \in Jobs, NEW s, ContractStatus(i)' = s, \A j \in Jobs \ {i} : Same(j)
  PROVE  Status' = [Status EXCEPT ![i] = s]
  BY DEF Same, Status

(* The contract's operations, in terms of the delivery system.             *)
LEMMA ContractActions ==
  ASSUME NEW i \in Jobs
  PROVE  /\ \A t \in Threads :
              /\ ContractStatus(i) = "unsent" /\ Status' = [Status EXCEPT ![i] = "held"]
              /\ recipient' = [recipient EXCEPT ![i] = t] /\ UNCHANGED accepted
              => ContractStep
         /\ /\ ContractStatus(i) = "held" /\ Status' = [Status EXCEPT ![i] = "offered"]
            /\ UNCHANGED <<recipient, accepted>>
            => ContractStep
         /\ /\ ContractStatus(i) = "offered" /\ recipient[i] \in Threads
            /\ Status' = [Status EXCEPT ![i] = "accepted"]
            /\ accepted' = [accepted EXCEPT ![i][recipient[i]] = @ + 1] /\ UNCHANGED recipient
            => ContractStep
         /\ \A s \in {"held", "unresolved", "withdrawn"} :
              /\ ContractStatus(i) = "offered" /\ Status' = [Status EXCEPT ![i] = s]
              /\ UNCHANGED <<recipient, accepted>>
              => ContractStep
         /\ /\ ContractStatus(i) = "held" /\ Status' = [Status EXCEPT ![i] = "unresolved"]
            /\ UNCHANGED <<recipient, accepted>>
            => ContractStep
<1>1. Status[i] = ContractStatus(i)
  BY DEF Status
<1>2. ASSUME NEW t \in Threads, ContractStatus(i) = "unsent", Status' = [Status EXCEPT ![i] = "held"],
             recipient' = [recipient EXCEPT ![i] = t], UNCHANGED accepted
      PROVE  ContractStep
  <2>1. Contract!Hold(i, t)
    BY <1>1, <1>2 DEF Contract!Hold, Status
  <2> QED  BY <2>1 DEF ContractStep, Contract!Next
<1>3. ASSUME ContractStatus(i) = "held", Status' = [Status EXCEPT ![i] = "offered"],
             UNCHANGED <<recipient, accepted>>
      PROVE  ContractStep
  <2>1. Contract!Offer(i)
    BY <1>1, <1>3 DEF Contract!Offer, Status
  <2> QED  BY <2>1 DEF ContractStep, Contract!Next
<1>4. ASSUME ContractStatus(i) = "offered", recipient[i] \in Threads,
             Status' = [Status EXCEPT ![i] = "accepted"],
             accepted' = [accepted EXCEPT ![i][recipient[i]] = @ + 1], UNCHANGED recipient
      PROVE  ContractStep
  <2>1. Contract!Accept(i)
    BY <1>1, <1>4 DEF Contract!Accept, Status
  <2> QED  BY <2>1 DEF ContractStep, Contract!Next
<1>5. ASSUME NEW s \in {"held", "unresolved", "withdrawn"},
             ContractStatus(i) = "offered", Status' = [Status EXCEPT ![i] = s],
             UNCHANGED <<recipient, accepted>>
      PROVE  ContractStep
  <2>1. Contract!EndOffer(i, s)
    BY <1>1, <1>5 DEF Contract!EndOffer, Status
  <2> QED  BY <2>1 DEF ContractStep, Contract!Next
<1>6. ASSUME ContractStatus(i) = "held", Status' = [Status EXCEPT ![i] = "unresolved"],
             UNCHANGED <<recipient, accepted>>
      PROVE  ContractStep
  <2>1. Contract!Forget(i)
    BY <1>1, <1>6 DEF Contract!Forget, Status
  <2> QED  BY <2>1 DEF ContractStep, Contract!Next
<1> QED  BY <1>2, <1>3, <1>4, <1>5, <1>6

LEMMA Withdrawal ==
  ASSUME NEW S \in SUBSET Jobs,
         \A j \in S : ContractStatus(j) \in {"held", "unresolved"} /\ ContractStatus(j)' = "withdrawn",
         \A j \in Jobs \ S : Same(j),
         UNCHANGED <<recipient, accepted>>
  PROVE  ContractStep
<1>1. Contract!Withdraw(S)
  BY DEF Contract!Withdraw, Same
<1> QED  BY <1>1 DEF ContractStep, Contract!Next

(* Steps in which no other part than the worker's own moves.               *)

LEMMA Unseen ==
  ASSUME UNCHANGED <<accepted, flight, recipient, box, worker>>,
         \A j \in Jobs : delivery'[j].state = delivery[j].state
  PROVE  ContractStep
<1>1. ASSUME NEW j \in Jobs PROVE Same(j)
  <2>1. (Accepted(j)' <=> Accepted(j)) /\ (Offered(j)' <=> Offered(j)) /\ (KnownRejected(j)' <=> KnownRejected(j))
    BY DEF Accepted, Offered, InFlight, Committed, KnownRejected
  <2> QED  BY <2>1, Looks DEF Unresolved
<1> QED  BY <1>1, Stutters

LEMMA RegistryContract == IInv /\ RegistryNext => ContractStep
<1> SUFFICES ASSUME IInv, RegistryNext PROVE ContractStep
  OBVIOUS
<1> USE DEF mailVars, serverVars
<1>1. CASE UnregisterArchive
  <2> DEFINE S == {j \in Jobs : ContractStatus(j) \in {"held", "unresolved"}}
  <2>1. UNCHANGED <<accepted, flight, recipient, worker>>
    BY <1>1, OutsideWorker
  <2>2. ASSUME NEW j \in Jobs
        PROVE  /\ Accepted(j)' <=> Accepted(j)
               /\ Offered(j)' <=> Offered(j)
               /\ box'[j] = IF box[j] = "inbox" THEN "archived" ELSE box[j]
    BY <1>1, <2>1 DEF UnregisterArchive, Accepted, Offered, InFlight, Committed
  <2>3. ASSUME NEW j \in S PROVE ContractStatus(j)' = "withdrawn"
    BY <2>1, <2>2, StatusCases DEF ContractStatus, Offered
  <2>4. ASSUME NEW j \in Jobs \ S PROVE Same(j)
    BY <2>1, <2>2 DEF Same, ContractStatus, Offered
  <2> QED  BY <2>1, <2>3, <2>4, Withdrawal
<1>2. CASE UNCHANGED <<box, delivery>>
  BY <1>2, Unseen, OutsideWorker
<1> QED  BY <1>1, <1>2 DEF RegistryNext, RegisterMailbox, ConfigureMailboxDelivery,
     UnregisterDrop, UnregisterCrash

LEMMA SenderContract == IInv /\ AttemptInv /\ SenderNext => ContractStep
<1> SUFFICES ASSUME IInv, AttemptInv, SenderNext PROVE ContractStep
  OBVIOUS
<1>t. TypeOK /\ AskInv /\ RequestInv /\ LockInv /\ WorkerInv
  BY DEF IInv
<1>1. PICK i \in Jobs : AskResolve(i) \/ AskCompare(i) \/ AskWrite(i) \/ AskCrash(i)
  BY DEF SenderNext
<1>2. UNCHANGED <<accepted, flight, worker, delivery>>
  BY OutsideWorker DEF serverVars
<1>3. CASE AskWrite(i)
  <2> DEFINE t == sender[i].ep.thread
  <2>1. /\ t \in Threads /\ box[i] = "unsent"
        /\ recipient' = [recipient EXCEPT ![i] = t] /\ box' = [box EXCEPT ![i] = "inbox"]
    BY <1>3, <1>t DEF AskWrite, AskInv
  <2>2. \A j \in Jobs : (Accepted(j)' <=> Accepted(j)) /\ (Offered(j)' <=> Offered(j))
                         /\ (Unresolved(j)' <=> Unresolved(j))
    BY <1>2 DEF Accepted, Offered, InFlight, Committed, KnownRejected, Unresolved
  <2>3. ~Accepted(i) /\ ~InFlight(i)
    BY <2>1, <1>t DEF RequestInv, Accepted, InFlight
  <2>4. ~Committed(i)
    BY <2>1, <1>t DEF Committed, WorkerInv, Delivering
  <2>5. ~Unresolved(i)
    BY <2>1 DEF AttemptInv, Unresolved
  <2>6. box'[i] = "inbox" /\ recipient'[i] \in Threads
    BY <2>1, <1>t DEF TypeOK
  <2>7. ContractStatus(i) = "unsent"
    BY <2>1, <2>3, <2>4, StatusCases DEF Offered
  <2>8. ContractStatus(i)' = "held"
    BY <2>2, <2>3, <2>4, <2>5, <2>6, ConstantsAssumption DEF ContractStatus, Offered, Unresolved, Ambiguous
  <2>9. ASSUME NEW j \in Jobs \ {i} PROVE Same(j)
    BY <2>1, <2>2, <1>t, Looks DEF TypeOK
  <2>10. Status' = [Status EXCEPT ![i] = "held"]
    BY <2>8, <2>9, Moves
  <2> QED  BY <1>2, <2>1, <2>7, <2>10, ContractActions
<1>4. CASE UNCHANGED mailVars
  BY <1>2, <1>4, Unseen DEF mailVars
<1> QED  BY <1>1, <1>3, <1>4 DEF AskResolve, AskCompare, AskCrash

LEMMA ReceiverContract == IInv /\ AttemptInv /\ ReceiverNext => ContractStep
<1> SUFFICES ASSUME IInv, AttemptInv, ReceiverNext PROVE ContractStep
  OBVIOUS
<1>t. TypeOK /\ LockInv
  BY DEF IInv
<1>1. PICK i \in Jobs : \/ AckBegin(i) \/ AckEnd(i) \/ AckCrash(i)
                        \/ RetryBegin(i) \/ RetryCommit(i) \/ RetryCrash(i)
  BY DEF ReceiverNext
<1>2. UNCHANGED <<accepted, flight, worker, recipient>>
  BY OutsideWorker DEF serverVars
<1>3. \A j \in Jobs : /\ Accepted(j)' <=> Accepted(j)
                      /\ Offered(j)' <=> Offered(j)
                      /\ KnownRejected(j)' <=> KnownRejected(j)
  BY <1>2 DEF Accepted, Offered, InFlight, Committed, KnownRejected
<1>4. CASE AckEnd(i)
  <2> DEFINE S == {j \in {i} : ContractStatus(j) \in {"held", "unresolved"}}
  <2>1. /\ box' = [box EXCEPT ![i] = IF @ = "inbox" THEN "done" ELSE @] /\ UNCHANGED delivery
    BY <1>4 DEF AckEnd
  <2>2. ASSUME NEW j \in S PROVE ContractStatus(j)' = "withdrawn"
    <3>1. box'[j] # "inbox" /\ box'[j] # "unsent" /\ ~Accepted(j) /\ ~Offered(j)
      BY <2>1, <1>t, StatusCases DEF TypeOK
    <3> QED  BY <3>1, <1>3 DEF ContractStatus, Offered
  <2>3. ASSUME NEW j \in Jobs \ S PROVE Same(j)
    <3>1. CASE j # i
      BY <2>1, <3>1, <1>2, <1>3, <1>t, Looks DEF TypeOK, Unresolved
    <3>2. CASE j = i /\ ContractStatus(i) \notin {"held", "unresolved"}
      <4>1. box'[i] = IF box[i] = "inbox" THEN "done" ELSE box[i]
        BY <2>1, <1>t DEF TypeOK
      <4> QED  BY <4>1, <3>2, <1>2, <1>3, <2>1 DEF Same, ContractStatus, Offered
    <3> QED  BY <3>1, <3>2
  <2> QED  BY <1>2, <2>2, <2>3, Withdrawal
<1>5. CASE RetryCommit(i)
  <2>1. UNCHANGED box /\ delivery' = [delivery EXCEPT ![i] = Plain("queued")] /\ deliveryLock[i] = "retry"
    BY <1>5 DEF RetryCommit
  <2>2. ASSUME NEW j \in Jobs PROVE Same(j)
    <3>1. CASE j # i
      BY <2>1, <3>1, <1>2, <1>3, <1>t, Looks DEF TypeOK, Unresolved
    <3>2. CASE j = i
      <4>1. delivery'[i].state \notin Ambiguous
        BY <2>1, <1>t DEF TypeOK, Plain, Ambiguous
      <4>2. box[i] = "inbox" => delivery[i].state \notin Ambiguous
        BY <2>1 DEF AttemptInv
      <4> QED  BY <4>1, <4>2, <3>2, <2>1, <1>2, <1>3, Looks DEF Unresolved
    <3> QED  BY <3>1, <3>2
  <2> QED  BY <1>2, <2>2, Stutters
<1>6. CASE UNCHANGED mailVars
  BY <1>2, <1>6, Unseen DEF mailVars
<1> QED  BY <1>1, <1>4, <1>5, <1>6 DEF AckBegin, AckCrash, RetryBegin, RetryCrash

LEMMA ClockContract == IInv /\ ClockNext => ContractStep
<1> SUFFICES ASSUME IInv, ClockNext PROVE ContractStep
  OBVIOUS
<1>1. \A j \in Jobs : delivery'[j].state = delivery[j].state
  <2>1. ASSUME NEW i \in Jobs, BackoffExpires(i)
        PROVE  \A j \in Jobs : delivery'[j].state = delivery[j].state
    BY <2>1 DEF BackoffExpires, IInv, TypeOK, DeliveryRecords
  <2> QED  BY <2>1 DEF ClockNext, ConnBackoffExpires
<1>2. UNCHANGED <<accepted, flight, recipient, box, worker>>
  BY OutsideWorker DEF serverVars
<1> QED  BY <1>1, <1>2, Unseen

LEMMA StatusAfter ==
  ASSUME NEW j \in Jobs, ~Accepted(j)', ~InFlight(j)', ~Committed(j)', box'[j] # "unsent"
  PROVE  \E s \in {"held", "unresolved", "withdrawn"} : ContractStatus(j)' = s
  BY DEF ContractStatus

(* The app-server decides or loses request r.                              *)
LEMMA Decided ==
  ASSUME IInv, NEW r \in flight, flight' = flight \ {r}, UNCHANGED <<recipient, box, delivery>>,
         worker' = worker \/ \E a \in {"accepted", "rejected"} : Answered(r, a)
  PROVE  /\ r.job \in Jobs /\ r.thread \in Threads /\ recipient[r.job] = r.thread
         /\ ContractStatus(r.job) = "offered"
         /\ ~InFlight(r.job)' /\ ~Committed(r.job)' /\ box'[r.job] # "unsent"
         /\ \A j \in Jobs \ {r.job} : (Accepted(j)' <=> Accepted(j)) => Same(j)
<1>t. TypeOK /\ RequestInv /\ WorkerInv
  BY DEF IInv
<1>1. /\ r.job \in Jobs /\ r.thread \in Threads /\ recipient[r.job] = r.thread
      /\ box[r.job] # "unsent" /\ InFlight(r.job) /\ ~Accepted(r.job)
  BY <1>t DEF TypeOK, Requests, RequestInv, AtMostOnce, InFlight
<1>2. ~InFlight(r.job)' /\ \A j \in Jobs \ {r.job} : InFlight(j)' <=> InFlight(j)
  BY <1>t DEF RequestInv, InFlight
<1>3. /\ worker'.pc = worker.pc /\ worker'.job = worker.job /\ worker'.result = worker.result
      /\ worker.job # r.job => worker' = worker
  BY <1>t DEF Answered, TypeOK, Workers
<1>4. ~Committed(r.job)'
  BY <1>1, <1>3, <1>t DEF Committed, WorkerInv, Unoffered
<1>5. ASSUME NEW j \in Jobs \ {r.job}, Accepted(j)' <=> Accepted(j) PROVE Same(j)
  <2>1. (Committed(j)' <=> Committed(j)) /\ (KnownRejected(j)' <=> KnownRejected(j))
    BY <1>3 DEF Committed, KnownRejected
  <2> QED  BY <2>1, <1>2, <1>5, Looks DEF Offered, Unresolved
<1> QED  BY <1>1, <1>2, <1>4, <1>5, StatusCases DEF Offered

LEMMA ServerContract == IInv /\ ServerNext => ContractStep
<1> SUFFICES ASSUME IInv, ServerNext PROVE ContractStep
  OBVIOUS
<1>t. TypeOK
  BY DEF IInv
<1>1. UNCHANGED <<recipient, box, delivery>>
  BY OutsideWorker DEF mailVars
<1>2. ASSUME NEW r \in flight, ServerAccepts(r) PROVE ContractStep
  <2>1. /\ flight' = flight \ {r} /\ Answered(r, "accepted")
        /\ accepted' = [accepted EXCEPT ![r.job][r.thread] = @ + 1]
    BY <1>2 DEF ServerAccepts
  <2>2. /\ r.job \in Jobs /\ r.thread \in Threads /\ recipient[r.job] = r.thread
        /\ ContractStatus(r.job) = "offered"
        /\ \A j \in Jobs \ {r.job} : (Accepted(j)' <=> Accepted(j)) => Same(j)
    BY <2>1, <1>1, Decided
  <2>3. Accepted(r.job)' /\ \A j \in Jobs \ {r.job} : Accepted(j)' <=> Accepted(j)
    BY <2>1, <2>2, <1>t DEF Accepted, TypeOK
  <2>4. ContractStatus(r.job)' = "accepted"
    BY <2>3 DEF ContractStatus
  <2>5. Status' = [Status EXCEPT ![r.job] = "accepted"]
    BY <2>2, <2>3, <2>4, Moves
  <2> QED  BY <2>1, <2>2, <2>5, <1>1, ContractActions
<1>3. ASSUME NEW r \in flight, ServerRejects(r) \/ RequestLost(r) PROVE ContractStep
  <2>1. /\ flight' = flight \ {r} /\ UNCHANGED accepted
        /\ worker' = worker \/ \E a \in {"accepted", "rejected"} : Answered(r, a)
    BY <1>3 DEF ServerRejects, RequestLost
  <2>2. /\ r.job \in Jobs /\ recipient[r.job] \in Threads
        /\ ContractStatus(r.job) = "offered"
        /\ ~InFlight(r.job)' /\ ~Committed(r.job)' /\ box'[r.job] # "unsent"
        /\ \A j \in Jobs \ {r.job} : (Accepted(j)' <=> Accepted(j)) => Same(j)
    BY <2>1, <1>1, Decided
  <2>3. \A j \in Jobs : Accepted(j)' <=> Accepted(j)
    BY <2>1 DEF Accepted
  <2>4. ~Accepted(r.job)'
    BY <2>2, <2>3, StatusCases
  <2>5. PICK s \in {"held", "unresolved", "withdrawn"} : ContractStatus(r.job)' = s
    BY <2>2, <2>4, StatusAfter
  <2>6. Status' = [Status EXCEPT ![r.job] = s]
    BY <2>2, <2>3, <2>5, Moves
  <2> QED  BY <2>1, <2>2, <2>6, <1>1, ContractActions
<1>4. CASE UNCHANGED <<accepted, flight, worker>>
  BY <1>1, <1>4, Unseen
<1> QED  BY <1>2, <1>3, <1>4 DEF ServerNext, TurnEnds, ThreadOpens, UserActs, ServerGoesOrComes

LEMMA RestartContract == IInv /\ (EnsureWorker \/ WorkerCrash) => ContractStep
<1> SUFFICES ASSUME IInv, EnsureWorker \/ WorkerCrash PROVE ContractStep
  OBVIOUS
<1>t. TypeOK /\ LockInv /\ WorkerInv
  BY DEF IInv
<1>1. UNCHANGED <<recipient, box, delivery, accepted, flight>> /\ worker'.pc \in {"idle", "down"}
  BY OutsideWorker DEF EnsureWorker, WorkerCrash, IdleWorker, mailVars, serverVars
<1>2. \A j \in Jobs : /\ Accepted(j)' <=> Accepted(j)
                      /\ InFlight(j)' <=> InFlight(j)
                      /\ ~Committed(j)' /\ ~KnownRejected(j)'
  BY <1>1 DEF Accepted, InFlight, Committed, KnownRejected
<1>w. PICK w : w = worker.job
  OBVIOUS
<1> DEFINE Touched == w \in Jobs /\ (Committed(w) \/ KnownRejected(w))
<1>3. \A j \in Jobs : Committed(j) \/ KnownRejected(j) => j = w
  BY <1>w DEF Committed, KnownRejected
<1>4. ASSUME NEW j \in Jobs, ~Committed(j), ~KnownRejected(j) PROVE Same(j)
  BY <1>1, <1>2, <1>4, Looks DEF Offered, Unresolved
<1>8. \A j \in Jobs \ {w} : Same(j)
  BY <1>3, <1>4
<1>5. CASE ~Touched
  BY <1>1, <1>3, <1>4, <1>5, Stutters
<1>6. CASE Touched /\ Committed(w)
  <2>1. box[w] # "unsent" /\ ~Accepted(w) /\ ~InFlight(w)
    BY <1>6, <1>t, <1>w DEF Committed, WorkerInv, Unoffered, Delivering
  <2>2. ContractStatus(w) = "offered"
    BY <1>6, <2>1, StatusCases DEF Offered
  <2>3. PICK s \in {"held", "unresolved", "withdrawn"} : ContractStatus(w)' = s
    <3>1. w \in Jobs /\ ~Accepted(w)' /\ ~InFlight(w)' /\ ~Committed(w)' /\ box'[w] # "unsent"
      BY <1>1, <1>2, <1>6, <2>1
    <3> QED  BY <3>1, StatusAfter
  <2>4. Status' = [Status EXCEPT ![w] = s]
    BY <1>6, <1>8, <2>3, Moves
  <2> QED  BY <1>1, <1>6, <2>2, <2>4, ContractActions
<1>7. CASE Touched /\ ~Committed(w)
  <2>1. KnownRejected(w) /\ w \in Jobs
    BY <1>7
  <2>2. CASE Same(w)
    BY <1>1, <1>3, <1>4, <2>2, Stutters
  <2>3. CASE ~Same(w)
    <3>1. ContractStatus(w) = "held" /\ ContractStatus(w)' = "unresolved"
      <4>1. w \in Jobs /\ KnownRejected(w) /\ ~Committed(w) /\ ~Committed(w)' /\ ~KnownRejected(w)'
        BY <1>2, <1>7, <2>1
      <4>2. /\ Accepted(w)' <=> Accepted(w)
            /\ InFlight(w)' <=> InFlight(w)
        BY <1>2, <4>1
      <4> QED  BY <1>1, <2>3, <4>1, <4>2 DEF Same, ContractStatus
    <3>2. Status' = [Status EXCEPT ![w] = "unresolved"]
      BY <1>8, <2>1, <3>1, Moves
    <3> QED  BY <1>1, <2>1, <3>1, <3>2, ContractActions
  <2> QED  BY <2>2, <2>3
<1> QED  BY <1>5, <1>6, <1>7

(* Worker steps that the contract does not see: nothing but the message at *)
(* hand changes, and of it only what decides whether it is unresolved.     *)
LEMMA WorkerUnseen ==
  ASSUME IInv, UNCHANGED <<accepted, recipient, box>>,
         \A j \in Jobs :
             /\ Offered(j)' <=> Offered(j)
             /\ box[j] = "inbox" /\ Unoffered(j) /\ ~Committed(j)
                    => (Unresolved(j)' <=> Unresolved(j))
  PROVE  ContractStep
<1>1. ASSUME NEW j \in Jobs PROVE Same(j)
  <2>1. Accepted(j)' <=> Accepted(j)
    BY DEF Accepted
  <2> QED  BY <2>1, Looks
<1> QED  BY <1>1, Stutters

(* The end of an attempt.                                                  *)
LEMMA FinishUnseen ==
  ASSUME IInv, UNCHANGED <<accepted, flight, recipient, box, delivery>>,
         NEW r, Finish(r), worker.pc \notin {"mark", "send", "write"}, worker.job \in Jobs,
         box[worker.job] = "inbox" /\ Unoffered(worker.job) =>
             (Unresolved(worker.job) <=> r.state = "uncertain" /\ delivery[worker.job].state \in Ambiguous)
  PROVE  ContractStep
<1>1. worker'.pc = "write" /\ worker'.job = worker.job /\ worker'.result = r
  BY Finished DEF IInv
<1>2. ASSUME NEW j \in Jobs
      PROVE  /\ Offered(j)' <=> Offered(j)
             /\ box[j] = "inbox" /\ Unoffered(j) => (Unresolved(j)' <=> Unresolved(j))
  <2>1. Offered(j)' <=> Offered(j)
    BY <1>1 DEF Offered, InFlight, Committed
  <2>2. CASE j = worker.job
    BY <1>1, <2>1, <2>2 DEF Unresolved, KnownRejected
  <2>3. CASE j # worker.job
    BY <1>1, <2>1, <2>3 DEF Unresolved, KnownRejected
  <2> QED  BY <2>2, <2>3
<1> QED  BY <1>2, WorkerUnseen

LEMMA AttemptContract ==
  IInv /\ AttemptInv /\ (ThreadRead \/ TurnsList \/ QueryFails \/ DispatchGuard \/ ReadAnswer)
      => ContractStep
<1> SUFFICES ASSUME IInv, AttemptInv,
                    ThreadRead \/ TurnsList \/ QueryFails \/ DispatchGuard \/ ReadAnswer
             PROVE  ContractStep
  OBVIOUS
<1>t. TypeOK /\ LockInv /\ WorkerInv
  BY DEF IInv
<1>1. /\ UNCHANGED <<accepted, flight, recipient, box, delivery>>
      /\ worker.pc \in {"probing", "turns", "guard", "await"} /\ worker.job \in Jobs
      /\ recipient[worker.job] = worker.ep.thread /\ worker.ep.thread \in Threads
  BY <1>t DEF ThreadRead, TurnsList, QueryFails, DispatchGuard, ReadAnswer, mailVars, serverVars,
     LockInv, WorkerInv, Delivering
(* Before the mark, nothing is ambiguous. *)
<1>2. ASSUME NEW r, Finish(r), worker.pc # "await" PROVE ContractStep
  <2>1. box[worker.job] = "inbox" => delivery[worker.job].state \notin Ambiguous
    BY <1>1, <1>2 DEF AttemptInv
  <2>2. box[worker.job] = "inbox" /\ Unoffered(worker.job) =>
           (Unresolved(worker.job) <=> r.state = "uncertain" /\ delivery[worker.job].state \in Ambiguous)
    BY <2>1 DEF Unresolved
  <2> QED  BY <1>1, <1>2, <2>2, FinishUnseen
<1>3. CASE ReadAnswer
  <2>1. worker.pc = "await"
    BY <1>3 DEF ReadAnswer
  <2>2. box[worker.job] = "inbox" => delivery[worker.job].state = "dispatching"
    BY <2>1, <1>t DEF WorkerInv
  <2>3. KnownRejected(worker.job) <=> worker.answer = "rejected"
    BY <2>1 DEF KnownRejected
  <2>4. CASE worker.answer = "accepted" /\ Finish(Plain("delivered"))
    <3>1. ~Unoffered(worker.job)
      BY <2>1, <2>4, <1>t DEF WorkerInv, Unoffered
    <3> QED  BY <1>1, <2>1, <2>4, <3>1, FinishUnseen
  <2>5. CASE worker.answer = "rejected" /\ Finish(Failure("rpc"))
    <3>1. Failure("rpc").state # "uncertain"
      BY FailureStates
    <3>2. ~Unresolved(worker.job)
      BY <2>3, <2>5 DEF Unresolved
    <3> QED  BY <1>1, <2>1, <2>5, <3>1, <3>2, FinishUnseen
  <2>6. CASE worker.answer # "rejected" /\ Finish(Failure("other"))
    <3>1. box[worker.job] = "inbox" => Failure("other").state = "uncertain"
      BY <2>2, FailureStates
    <3>2. box[worker.job] = "inbox" => Unresolved(worker.job)
      BY <2>2, <2>3, <2>6 DEF Unresolved, Ambiguous
    <3> QED  BY <1>1, <2>1, <2>2, <2>6, <3>1, <3>2, FinishUnseen DEF Ambiguous
  <2> QED  BY <1>3, <2>4, <2>5, <2>6 DEF ReadAnswer
<1>4. ASSUME worker.pc \in {"probing", "turns"}, worker'.pc \in {"turns", "guard"}
      PROVE  ContractStep
  <2>1. \A j \in Jobs : /\ Offered(j)' <=> Offered(j)
                        /\ Unresolved(j)' <=> Unresolved(j)
    BY <1>1, <1>4 DEF Offered, InFlight, Committed, Unresolved, KnownRejected
  <2> QED  BY <1>1, <2>1, WorkerUnseen
(* The checks of before_dispatch are passed: the message is offered. *)
<1>5. CASE /\ worker.pc = "guard" /\ StillPending(worker.job)
           /\ worker' = [worker EXCEPT !.pc = "mark"]
  <2>w. PICK w \in Jobs : w = worker.job
    BY <1>1
  <2>1. worker'.pc = "mark" /\ worker'.job = w
    BY <1>5, <2>w, <1>t DEF TypeOK, Workers
  <2>2. /\ Unoffered(w) /\ box[w] = "inbox" /\ delivery[w].state \notin Ambiguous
        /\ recipient[w] \in Threads /\ ~Committed(w)
    BY <1>1, <1>5, <2>w, <1>t DEF WorkerInv, AttemptInv, StillPending, Committed
  <2>3. ContractStatus(w) = "held"
    BY <2>2, ConstantsAssumption DEF ContractStatus, Unoffered, Ambiguous
  <2>4. Committed(w)' /\ ~Accepted(w)'
    BY <1>1, <2>1, <2>2 DEF Committed, Unoffered, Accepted
  <2>5. ContractStatus(w)' = "offered"
    BY <2>4 DEF ContractStatus
  <2>6. ASSUME NEW j \in Jobs \ {w} PROVE Same(j)
    <3>1. /\ Accepted(j)' <=> Accepted(j)
          /\ Offered(j)' <=> Offered(j)
          /\ Unresolved(j)' <=> Unresolved(j)
      BY <1>1, <2>1, <2>w DEF Accepted, Offered, InFlight, Committed, Unresolved, KnownRejected
    <3> QED  BY <1>1, <3>1, Looks
  <2>7. Status' = [Status EXCEPT ![w] = "offered"]
    BY <2>5, <2>6, Moves
  <2> QED  BY <1>1, <2>3, <2>7, ContractActions
<1>6. CASE ThreadRead
  <2>1. CASE \/ worker' = [worker EXCEPT !.pc = "guard", !.method = "start"]
             \/ worker' = [worker EXCEPT !.pc = "turns"]
    <3>1. worker.pc = "probing" /\ worker'.pc \in {"turns", "guard"}
      BY <1>6, <2>1, <1>t DEF ThreadRead, TypeOK, Workers
    <3> QED  BY <1>4, <3>1
  <2> QED  BY <1>2, <1>6, <2>1 DEF ThreadRead
<1>7. CASE TurnsList
  <2>1. CASE worker' = [worker EXCEPT !.pc = "guard", !.method = "steer"]
    <3>1. worker.pc = "turns" /\ worker'.pc = "guard"
      BY <1>7, <2>1, <1>t DEF TurnsList, TypeOK, Workers
    <3> QED  BY <1>4, <3>1
  <2> QED  BY <1>2, <1>7, <2>1 DEF TurnsList
<1>8. CASE QueryFails
  BY <1>2, <1>8 DEF QueryFails
<1>9. CASE DispatchGuard
  BY <1>2, <1>5, <1>9 DEF DispatchGuard
<1> QED  BY <1>3, <1>6, <1>7, <1>8, <1>9

LEMMA WorkerContract == IInv /\ AttemptInv /\ WorkerStep => ContractStep
<1> SUFFICES ASSUME IInv, AttemptInv, WorkerStep PROVE ContractStep
  OBVIOUS
<1>t. TypeOK /\ LockInv /\ WorkerInv
  BY DEF IInv
<1>1. UNCHANGED <<recipient, box, accepted>>
  BY OutsideWorker
<1> USE DEF mailVars, serverVars
(* Between attempts the worker has promised nothing. *)
<1>2. ASSUME worker.pc \notin {"mark", "send", "await", "write"},
             worker'.pc \notin {"mark", "send", "await", "write"},
             UNCHANGED flight,
             \A j \in Jobs : delivery'[j].state = delivery[j].state
                             \/ {delivery'[j].state, delivery[j].state} \cap Ambiguous = {}
      PROVE  ContractStep
  <2>1. \A j \in Jobs : /\ Offered(j)' <=> Offered(j)
                        /\ Unresolved(j)' <=> Unresolved(j)
    BY <1>2 DEF Offered, InFlight, Committed, Unresolved, KnownRejected
  <2> QED  BY <1>1, <2>1, WorkerUnseen
<1>3. CASE ScanConnect \/ ScanEnds \/ \E j \in Jobs : ResolveRecord(j)
  <2>1. /\ worker.pc \in {"idle", "connected"}
        /\ worker'.pc \in {"idle", "connected", "resolved"}
        /\ UNCHANGED <<flight, delivery>>
    <3>1. CASE ScanConnect
      BY <3>1, <1>t DEF ScanConnect, TypeOK, Workers
    <3>2. CASE ScanEnds
      BY <3>2 DEF ScanEnds, IdleWorker
    <3>3. ASSUME NEW j \in Jobs, ResolveRecord(j)
          PROVE  /\ worker.pc = "connected" /\ worker'.pc = "resolved"
                 /\ UNCHANGED <<flight, delivery>>
      BY <3>3, <1>t DEF ResolveRecord, TypeOK, Workers
    <3> QED  BY <1>3, <3>1, <3>2, <3>3
  <2> QED  BY <1>2, <2>1
<1>4. CASE SkipRecord \/ BeginDelivery
  <2>1. /\ worker.pc = "resolved" /\ worker'.pc \in {"connected", "probing"}
        /\ UNCHANGED <<flight, delivery>>
    BY <1>4, <1>t DEF SkipRecord, BeginDelivery, NextRecord, TypeOK, Workers
  <2> QED  BY <1>2, <2>1
<1>5. CASE ScanConnectFails
  <2>1. worker.pc = "idle" /\ UNCHANGED <<worker, flight, delivery>>
    BY <1>5 DEF ScanConnectFails
  <2> QED  BY <1>2, <2>1
<1>6. CASE OwnerMismatch
  <2>1. /\ worker.pc = "resolved" /\ worker'.pc = "connected" /\ UNCHANGED flight
        /\ worker.job \in Jobs /\ delivery[worker.job].state \notin Ambiguous
        /\ delivery' = [delivery EXCEPT ![worker.job] = Plain("failed")]
    BY <1>6, <1>t DEF OwnerMismatch, NextRecord, Deliverable, TerminalStates, Ambiguous, TypeOK,
       Workers, LockInv
  <2>2. ASSUME NEW j \in Jobs
        PROVE  delivery'[j].state = delivery[j].state
               \/ {delivery'[j].state, delivery[j].state} \cap Ambiguous = {}
    <3>1. CASE j = worker.job
      BY <2>1, <3>1, <1>t DEF TypeOK, Plain, Ambiguous
    <3> QED  BY <2>1, <3>1, <1>t DEF TypeOK
  <2> QED  BY <1>2, <2>1, <2>2
<1>7. CASE MarkDispatching \/ SendRequest \/ WriteResult
  <2>w. PICK w \in Jobs : w = worker.job
    BY <1>7, <1>t DEF MarkDispatching, SendRequest, WriteResult, LockInv, Delivering
  <2>1. ASSUME NEW j \in Jobs \ {w}, worker'.job = w \/ worker'.pc = "connected",
               InFlight(j)' <=> InFlight(j), delivery'[j] = delivery[j]
        PROVE  /\ Offered(j)' <=> Offered(j)
               /\ Unresolved(j)' <=> Unresolved(j)
    BY <2>1, <2>w DEF Offered, Committed, Unresolved, KnownRejected
  <2>2. CASE MarkDispatching
    <3>1. /\ worker'.job = w /\ worker'.pc = "send" /\ worker.pc = "mark" /\ UNCHANGED flight
          /\ \A j \in Jobs \ {w} : delivery'[j] = delivery[j]
      BY <2>2, <2>w, <1>t DEF MarkDispatching, TypeOK, Workers
    <3>2. Committed(w) /\ Committed(w)'
      BY <3>1, <2>w DEF Committed
    <3>3. \A j \in Jobs : InFlight(j)' <=> InFlight(j)
      BY <3>1 DEF InFlight
    <3> QED  BY <1>1, <2>1, <3>1, <3>2, <3>3, WorkerUnseen DEF Offered
  <2>3. CASE SendRequest
    <3>1. /\ worker'.job = w /\ worker.pc = "send" /\ UNCHANGED delivery
          /\ \E q : q.job = w /\ flight' = flight \cup {q}
      <4> DEFINE q == [job |-> worker.job, thread |-> Target, method |-> worker.method]
      <4>1. q.job = w /\ flight' = flight \cup {q}
        BY <2>3, <2>w DEF SendRequest
      <4> HIDE DEF q
      <4>2. worker'.job = w /\ worker.pc = "send" /\ UNCHANGED delivery
        BY <2>3, <2>w, <1>t DEF SendRequest, TypeOK, Workers
      <4> QED  BY <4>1, <4>2
    <3>2. Committed(w)
      BY <3>1, <2>w DEF Committed
    <3>3. InFlight(w)' /\ \A j \in Jobs \ {w} : InFlight(j)' <=> InFlight(j)
      BY <3>1 DEF InFlight
    <3> QED  BY <1>1, <2>1, <3>1, <3>2, <3>3, WorkerUnseen DEF Offered
  <2>4. CASE WriteResult
    <3>1. /\ worker'.pc = "connected" /\ worker.pc = "write" /\ UNCHANGED flight
          /\ delivery'[w] = worker.result
          /\ \A j \in Jobs \ {w} : delivery'[j] = delivery[j]
      <4>1. delivery' = [delivery EXCEPT ![w] = worker.result] /\ worker' = NextRecord
        BY <2>4, <2>w DEF WriteResult
      <4>2. worker'.pc = "connected"
        BY <4>1, <1>t DEF NextRecord, TypeOK, Workers
      <4> QED  BY <2>4, <4>1, <4>2, <1>t DEF WriteResult, TypeOK
    <3>2. \A j \in Jobs : InFlight(j)' <=> InFlight(j)
      BY <3>1 DEF InFlight
    <3>3. Offered(w)' <=> Offered(w)
      BY <3>1, <3>2 DEF Offered, Committed
    <3>4. box[w] = "inbox" => (Unresolved(w)' <=> Unresolved(w))
      BY <3>1, <2>w DEF Unresolved, KnownRejected, AttemptInv, Ambiguous
    <3> QED  BY <1>1, <2>1, <3>1, <3>2, <3>3, <3>4, WorkerUnseen
  <2> QED  BY <1>7, <2>2, <2>3, <2>4
<1> QED  BY <1>3, <1>4, <1>5, <1>6, <1>7, AttemptContract DEF WorkerStep

(* The promise of DeliveryContract is kept by registry, senders, worker,   *)
(* receivers and app-server together: in particular an offer of unknown    *)
(* outcome is never repeated.                                              *)
THEOREM DeliversAsPromised == Spec => ImplementsContract
<1>1. Init => Contract!Init
  <2> SUFFICES ASSUME Init PROVE Contract!Init
    OBVIOUS
  <2>1. ASSUME NEW j \in Jobs PROVE ContractStatus(j) \in {"unsent", "withdrawn"}
    <3>1. ~Accepted(j) /\ ~InFlight(j)
      BY DEF Init, Accepted, InFlight
    <3>2. ~Committed(j) /\ box[j] \in {"unsent", "inbox"} /\ recipient[j] = NoThread
      BY DEF Init, Committed, IdleWorker
    <3> QED  BY <3>1, <3>2 DEF ContractStatus
  <2> QED  BY <2>1 DEF Init, Contract!Init
<1>2. IInv /\ AttemptInv /\ [Next]_vars => [Contract!Next]_Contract!contractVars
  <2> SUFFICES ASSUME IInv, AttemptInv, [Next]_vars PROVE ContractStep
    BY DEF ContractStep, Contract!contractVars, Status
  <2>1. CASE UNCHANGED vars
    BY <2>1, Unseen DEF vars, mailVars, serverVars
  <2> QED  BY <2>1, RegistryContract, SenderContract, ReceiverContract, WorkerContract,
              RestartContract, ClockContract, ServerContract DEF Next
<1> QED  BY <1>1, <1>2, Attempts, PTL DEF Spec, ImplementsContract, Contract!Spec

=============================================================================
