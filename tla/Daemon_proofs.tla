---------------------------- MODULE Daemon_proofs ----------------------------
(***************************************************************************)
(* TLAPS proofs about Daemon, for any number of processes and clients:     *)
(*                                                                         *)
(*   JobInv     until somebody starts a daemon by hand, the one process    *)
(*              that runs is the one launchd watches, and has the socket   *)
(*              from the moment it is bound                                *)
(*   CallInv    a client ends its call with a good answer, which is given  *)
(*              after the operation was carried out, or carries it out     *)
(*              itself; before it asks nobody does, and a request that is  *)
(*              still there afterwards is one its client gave up on        *)
(*                                                                         *)
(* and, from CallInv, that every step is one CallContract allows.          *)
(***************************************************************************)
EXTENDS Daemon, TLAPS

USE DaemonAssumption

-----------------------------------------------------------------------------
(* The inductive invariants.                                               *)

JobInv ==
    /\ TypeOK
    /\ manual = 0 => \A p \in Pids : /\ daemon[p] \in Running => job = p
                                     /\ daemon[p] = "bound" => sock = p

(* A registration that its caller believes done was written, by the daemon *)
(* or by the caller (_register_through_daemon_or_file).                    *)
RegistrationsWritten == \A c \in Panes : client[c] = "done" => c \in applied

CallInv ==
    /\ TypeOK
    /\ \A c \in Clients :
          /\ answer[c] = "ok" => c \in applied
          /\ client[c] \in {"idle", "call", "direct"} => c \notin applied /\ request[c] = NoPid
          /\ request[c] # NoPid /\ c \in applied => client[c] = "done"
    /\ RegistrationsWritten

-----------------------------------------------------------------------------
LEMMA JobInit == Init => JobInv
  BY DEF Init, JobInv, TypeOK, Running, Clients

(* The daemon's own steps.                                                 *)
LEMMA ServeKeepsJob == \A p \in Pids : JobInv /\ Serve(p) => JobInv'
<1> SUFFICES ASSUME NEW p \in Pids, JobInv, Serve(p) PROVE JobInv'
  OBVIOUS
<1> USE DEF JobInv, TypeOK, Running, At, Ended, clientVars, files
<1>1. CASE CheckRefuses(p)
  BY <1>1 DEF CheckRefuses
<1>2. CASE CheckPasses(p)
  BY <1>2 DEF CheckPasses
<1>3. CASE Clean(p)
  BY <1>3 DEF Clean
<1>4. CASE Bind(p)
  BY <1>4 DEF Bind
<1>5. CASE WritePid(p)
  BY <1>5 DEF WritePid
<1>6. CASE UnlinkPid(p)
  BY <1>6 DEF UnlinkPid
<1>7. CASE UnlinkSocket(p)
  BY <1>7 DEF UnlinkSocket
<1> QED  BY <1>1, <1>2, <1>3, <1>4, <1>5, <1>6, <1>7 DEF Serve

(* What happens to a daemon: starts, stops, deaths, pids given away.       *)
LEMMA EventsKeepJob ==
  \A p \in Pids : JobInv /\ (Launch(p) \/ RunByHand(p) \/ Stop(p) \/ Dies(p) \/ Stranger(p)) => JobInv'
<1> SUFFICES ASSUME NEW p \in Pids, JobInv,
                    Launch(p) \/ RunByHand(p) \/ Stop(p) \/ Dies(p) \/ Stranger(p)
             PROVE  JobInv'
  OBVIOUS
<1> USE DEF JobInv, TypeOK, Running, At, Ended, Closed, clientVars, files
<1>1. CASE Launch(p)
  BY <1>1 DEF Launch
<1>2. CASE RunByHand(p)
  BY <1>2 DEF RunByHand
<1>3. CASE Stop(p)
  BY <1>3 DEF Stop
<1>4. CASE Dies(p)
  BY <1>4 DEF Dies
<1>5. CASE Stranger(p)
  BY <1>5 DEF Stranger
<1> QED  BY <1>1, <1>2, <1>3, <1>4, <1>5

(* A client changes nothing of the daemon's.                               *)
LEMMA CallsKeepJob ==
  \A c \in Clients : JobInv /\ (ClientStep(c) \/ \E p \in Pids : Handle(p, c)) => JobInv'
<1> SUFFICES ASSUME NEW c \in Clients, JobInv, ClientStep(c) \/ \E p \in Pids : Handle(p, c)
             PROVE  JobInv'
  OBVIOUS
<1> USE DEF JobInv, TypeOK, Running, Clients, Apply, daemonVars, files
<1>1. CASE CallBegin(c)
  BY <1>1 DEF CallBegin
<1>2. CASE Connect(c)
  BY <1>2 DEF Connect
<1>3. CASE Answered(c)
  BY <1>3 DEF Answered
<1>4. CASE Unanswered(c)
  BY <1>4 DEF Unanswered
<1>5. CASE Fallback(c)
  BY <1>5 DEF Fallback
<1>6. CASE Direct(c)
  BY <1>6 DEF Direct
<1>7. ASSUME NEW p \in Pids, Handle(p, c) PROVE JobInv'
  BY <1>7 DEF Handle
<1> QED  BY <1>1, <1>2, <1>3, <1>4, <1>5, <1>6, <1>7 DEF ClientStep

(* The inductive invariant of daemons and pid file.                       *)
THEOREM JobInvariant == Spec => []JobInv
<1>1. JobInv /\ [Next]_vars => JobInv'
  <2> SUFFICES ASSUME JobInv, [Next]_vars PROVE JobInv'
    OBVIOUS
  <2>1. CASE UNCHANGED vars
    BY <2>1 DEF vars, daemonVars, clientVars, files, JobInv, TypeOK, Running
  <2>2. CASE Next
    BY <2>2, ServeKeepsJob, EventsKeepJob, CallsKeepJob DEF Next
  <2> QED  BY <2>1, <2>2
<1> QED  BY JobInit, <1>1, PTL DEF Spec

(* Type correctness, and: without daemons started by hand a daemon that    *)
(* serves is on file and has the socket.                                   *)
THEOREM DaemonTypeCorrect == Spec => []TypeOK
<1>1. JobInv => TypeOK
  BY DEF JobInv
<1> QED  BY <1>1, JobInvariant, PTL

-----------------------------------------------------------------------------
(* The daemon's own steps leave answers and what was done alone; a process *)
(* that ends takes its requests along.                                     *)
LEMMA DaemonKeepsCalls ==
  \A p \in Pids :
     CallInv /\ TypeOK' /\ (Serve(p) \/ Launch(p) \/ RunByHand(p) \/ Stop(p) \/ Dies(p) \/ Stranger(p)) => CallInv'
<1> SUFFICES ASSUME NEW p \in Pids, CallInv, TypeOK',
                    Serve(p) \/ Launch(p) \/ RunByHand(p) \/ Stop(p) \/ Dies(p) \/ Stranger(p)
             PROVE  CallInv'
  OBVIOUS
<1>1. /\ UNCHANGED <<client, answer, owner, applied>>
      /\ \A c \in Clients : request'[c] \in {request[c], NoPid}
  BY DEF Serve, Launch, RunByHand, Stop, Dies, Stranger, CheckRefuses, CheckPasses, Clean, Bind,
         WritePid, UnlinkPid, UnlinkSocket, Ended, clientVars
<1> QED  BY <1>1 DEF CallInv, RegistrationsWritten

LEMMA ClientsKeepCalls ==
  \A c \in Clients : CallInv /\ TypeOK' /\ (ClientStep(c) \/ \E p \in Pids : Handle(p, c)) => CallInv'
<1> SUFFICES ASSUME NEW c \in Clients, CallInv, TypeOK',
                    ClientStep(c) \/ \E p \in Pids : Handle(p, c)
             PROVE  CallInv'
  OBVIOUS
<1> USE DEF CallInv, TypeOK, RegistrationsWritten, Clients, Apply
<1>1. CASE CallBegin(c)
  BY <1>1 DEF CallBegin
<1>2. CASE Connect(c)
  BY <1>2 DEF Connect
<1>3. CASE Answered(c)
  BY <1>3 DEF Answered, GoodAnswer
<1>4. CASE Unanswered(c)
  BY <1>4 DEF Unanswered
<1>5. CASE Fallback(c)
  BY <1>5 DEF Fallback
<1>6. CASE Direct(c)
  BY <1>6 DEF Direct
<1>7. ASSUME NEW p \in Pids, Handle(p, c) PROVE CallInv'
  BY <1>7 DEF Handle
<1> QED  BY <1>1, <1>2, <1>3, <1>4, <1>5, <1>6, <1>7 DEF ClientStep

(* The inductive invariant of the calls.                                   *)
THEOREM CallInvariant == Spec => []CallInv
<1>1. Init => CallInv
  BY DEF Init, CallInv, TypeOK, RegistrationsWritten, Running, Clients
<1>2. CallInv /\ TypeOK' /\ [Next]_vars => CallInv'
  <2> SUFFICES ASSUME CallInv, TypeOK', [Next]_vars PROVE CallInv'
    OBVIOUS
  <2>1. CASE UNCHANGED vars
    BY <2>1 DEF vars, daemonVars, clientVars, files, CallInv, RegistrationsWritten
  <2>2. CASE Next
    BY <2>2, DaemonKeepsCalls, ClientsKeepCalls DEF Next
  <2> QED  BY <2>1, <2>2
<1> QED  BY <1>1, <1>2, DaemonTypeCorrect, PTL DEF Spec

(* A registration that its caller believes done was written, whenever the  *)
(* daemon stops, dies, hangs, answers an error or loses its answer.        *)
THEOREM RegistrationsAreWritten == Spec => []RegistrationsWritten
<1>1. CallInv => RegistrationsWritten
  BY DEF CallInv
<1> QED  BY <1>1, CallInvariant, PTL

-----------------------------------------------------------------------------
(* Daemon implements CallContract.                                         *)

PhaseOf(s) == CASE s = "idle" -> "idle" [] s = "done" -> "returned" [] OTHER -> "open"
Phase == [c \in Clients |-> PhaseOf(client[c])]
Late == {c \in applied : ToCome(c)}

(* The contract's steps in terms of those two.                             *)
LEMMA ContractSteps ==
  /\ \A S \in SUBSET Clients :
        Contract!Lose(S) <=> Late' = Late \ S /\ UNCHANGED <<Phase, owner, applied>>
  /\ \A c \in Clients :
        /\ Contract!Begin(c) <=> /\ Phase[c] = "idle"
                                 /\ Phase' = [Phase EXCEPT ![c] = "open"]
                                 /\ UNCHANGED <<owner, applied, Late>>
        /\ Contract!Return(c) <=> /\ Phase[c] = "open"
                                  /\ c \in Panes => c \in applied
                                  /\ Phase' = [Phase EXCEPT ![c] = "returned"]
                                  /\ UNCHANGED <<owner, applied, Late>>
        /\ Contract!Perform(c) <=> /\ Phase[c] # "idle"
                                   /\ c \notin applied
                                   /\ Apply(c)
                                   /\ Late' \in {Late, Late \cup {c}}
                                   /\ Phase' \in {Phase, [Phase EXCEPT ![c] = "returned"]}
        /\ Contract!Repeat(c) <=> /\ c \in Late
                                  /\ owner' = IF c \in Panes THEN c ELSE Nobody
                                  /\ Late' = Late \ {c}
                                  /\ Phase' \in {Phase, [Phase EXCEPT ![c] = "returned"]}
                                  /\ UNCHANGED applied
  /\ (\E c \in Clients : Contract!Begin(c) \/ Contract!Perform(c) \/ Contract!Repeat(c) \/ Contract!Return(c))
        => Contract!Next
  /\ (\E S \in SUBSET Clients : Contract!Lose(S)) => Contract!Next
  BY DEF PhaseOf, Phase, Late, Apply, Contract!Lose, Contract!Begin, Contract!Return, Contract!Perform,
         Contract!Repeat, Contract!Effect, Contract!MayReturn, Contract!Next

LEMMA CallsInit == Init => Contract!Init
  BY DEF Init, Contract!Init, ToCome, Clients, PhaseOf

LEMMA PhaseMoves ==
  ASSUME TypeOK, NEW c \in Clients, NEW to, client' = [client EXCEPT ![c] = to]
  PROVE  Phase' = [Phase EXCEPT ![c] = PhaseOf(to)]
<1>1. client' = [d \in Clients |-> IF d = c THEN to ELSE client[d]]
  BY DEF TypeOK
<1> QED  BY <1>1 DEF Phase

LEMMA PhaseAt == \A c \in Clients : Phase[c] = PhaseOf(client[c])
  BY DEF Phase

(* Where nothing is carried out and no call begins or returns, requests    *)
(* may get lost.                                                           *)
LEMMA OnlyLost ==
  ASSUME UNCHANGED <<Phase, owner, applied>>, \A c \in applied : ToCome(c)' => ToCome(c), CallInv
  PROVE  Contract!Next
<1>1. PICK S \in SUBSET Clients : S = {c \in Clients : ~ToCome(c)'}
  OBVIOUS
<1>2. Late' = Late \ S
  BY <1>1 DEF Late, CallInv, TypeOK
<1> QED  BY <1>2, ContractSteps

LEMMA DaemonLosesCalls ==
  \A p \in Pids :
     CallInv /\ (Serve(p) \/ Launch(p) \/ RunByHand(p) \/ Stop(p) \/ Dies(p) \/ Stranger(p)) => Contract!Next
<1> SUFFICES ASSUME NEW p \in Pids, CallInv,
                    Serve(p) \/ Launch(p) \/ RunByHand(p) \/ Stop(p) \/ Dies(p) \/ Stranger(p)
             PROVE  Contract!Next
  OBVIOUS
<1>1. /\ UNCHANGED <<client, answer, owner, applied>>
      /\ \A c \in Clients : request'[c] \in {request[c], NoPid}
  BY DEF Serve, Launch, RunByHand, Stop, Dies, Stranger, CheckRefuses, CheckPasses, Clean, Bind,
         WritePid, UnlinkPid, UnlinkSocket, Ended, clientVars
<1>2. UNCHANGED Phase /\ \A c \in applied : ToCome(c)' => ToCome(c)
  BY <1>1 DEF Phase, ToCome, CallInv, TypeOK
<1> QED  BY <1>1, <1>2, OnlyLost

LEMMA ClientsKeepContract == \A c \in Clients : CallInv /\ ClientStep(c) => Contract!Next
<1> SUFFICES ASSUME NEW c \in Clients, CallInv, ClientStep(c) PROVE Contract!Next
  OBVIOUS
<1>0. TypeOK /\ Phase[c] = PhaseOf(client[c])
  BY PhaseAt DEF CallInv
<1> USE DEF CallInv, TypeOK, RegistrationsWritten, Clients, Late, ToCome
<1>1. CASE CallBegin(c)
  <2>1. Phase[c] = "idle" /\ Phase' = [Phase EXCEPT ![c] = "open"]
    BY <1>0, <1>1, PhaseMoves DEF CallBegin, PhaseOf
  <2>2. UNCHANGED <<owner, applied, Late>>
    BY <1>1 DEF CallBegin
  <2> QED  BY <2>1, <2>2, ContractSteps
<1>2. CASE Connect(c)
  <2>1. \E s \in {"sent", "failed"} : client' = [client EXCEPT ![c] = s]
    BY <1>2 DEF Connect
  <2>2. Phase' = [Phase EXCEPT ![c] = Phase[c]] /\ DOMAIN Phase = Clients
    BY <1>0, <1>2, <2>1, PhaseMoves DEF Connect, PhaseOf, Phase
  <2>3. UNCHANGED <<owner, applied>> /\ \A d \in applied : ToCome(d)' => ToCome(d)
    BY <1>2 DEF Connect
  <2> QED  BY <2>2, <2>3, OnlyLost DEF Phase
<1>3. CASE Answered(c)
  <2>1. Phase[c] = "open" /\ Phase' = [Phase EXCEPT ![c] = "returned"]
    BY <1>0, <1>3, PhaseMoves DEF Answered, PhaseOf
  <2>2. UNCHANGED <<owner, applied, Late>> /\ c \in applied
    BY <1>3 DEF Answered, GoodAnswer
  <2> QED  BY <2>1, <2>2, ContractSteps
<1>4. CASE Unanswered(c)
  <2>1. Phase' = [Phase EXCEPT ![c] = Phase[c]] /\ DOMAIN Phase = Clients
    BY <1>0, <1>4, PhaseMoves DEF Unanswered, PhaseOf, Phase
  <2>2. UNCHANGED <<owner, applied>> /\ \A d \in applied : ToCome(d)' => ToCome(d)
    BY <1>4 DEF Unanswered, GoodAnswer
  <2> QED  BY <2>1, <2>2, OnlyLost DEF Phase
<1>5. CASE Fallback(c)
  <2>1. Phase[c] = "open" /\ Phase' = [Phase EXCEPT ![c] = "returned"]
    BY <1>0, <1>5, PhaseMoves DEF Fallback, PhaseOf
  <2>2. CASE c \notin Panes
    <3>1. UNCHANGED <<owner, applied, Late>>
      BY <1>5, <2>2 DEF Fallback
    <3> QED  BY <2>1, <2>2, <3>1, ContractSteps
  <2>3. CASE c \in Panes /\ c \notin applied
    <3>1. Apply(c) /\ Late' \in {Late, Late \cup {c}}
      BY <1>5, <2>3 DEF Fallback, Apply
    <3> QED  BY <2>1, <2>3, <3>1, ContractSteps
  <2>4. CASE c \in Panes /\ c \in applied
    <3>1. /\ c \in Late /\ Late' = Late \ {c}
          /\ owner' = c /\ UNCHANGED applied
      BY <1>5, <2>4 DEF Fallback, Apply
    <3> QED  BY <2>1, <2>4, <3>1, ContractSteps
  <2> QED  BY <2>2, <2>3, <2>4
<1>6. CASE Direct(c)
  <2>1. Phase[c] = "open" /\ Phase' = [Phase EXCEPT ![c] = "returned"]
    BY <1>0, <1>6, PhaseMoves DEF Direct, PhaseOf
  <2>2. c \notin applied /\ Apply(c) /\ UNCHANGED Late
    BY <1>6 DEF Direct, Apply
  <2> QED  BY <2>1, <2>2, ContractSteps
<1> QED  BY <1>1, <1>2, <1>3, <1>4, <1>5, <1>6 DEF ClientStep

(* A request that is carried out, once or again, answered or not, or       *)
(* refused.                                                                *)
LEMMA RequestsKeepContract ==
  \A p \in Pids, c \in Clients : CallInv /\ Handle(p, c) => Contract!Next
<1> SUFFICES ASSUME NEW p \in Pids, NEW c \in Clients, CallInv, Handle(p, c) PROVE Contract!Next
  OBVIOUS
<1> USE DEF CallInv, TypeOK, RegistrationsWritten, Clients, Late, ToCome, Handle
<1>1. UNCHANGED Phase
  BY DEF Phase
<1>2. CASE UNCHANGED <<owner, applied>>
  <2>1. \A d \in applied : ToCome(d)' => ToCome(d)
    BY <1>2
  <2> QED  BY <1>1, <1>2, <2>1, OnlyLost
<1>3. CASE Apply(c) /\ c \notin applied
  <2>1. Phase[c] # "idle"
    BY PhaseAt DEF PhaseOf
  <2>2. Late' \in {Late, Late \cup {c}}
    BY <1>3 DEF Apply
  <2> QED  BY <1>1, <1>3, <2>1, <2>2, ContractSteps
<1>4. CASE Apply(c) /\ c \in applied
  <2>1. c \in Late /\ Late' = Late \ {c} /\ UNCHANGED applied
    BY <1>4 DEF Apply
  <2> QED  BY <1>1, <1>4, <2>1, ContractSteps DEF Apply
<1> QED  BY <1>2, <1>3, <1>4

(* The daemon with its clients keeps to what a call promises: what returned *)
(* was written, nothing is written unasked, and nothing a third time.      *)
THEOREM DaemonKeepsContract == Spec => ImplementsCallContract
<1>1. CallInv /\ [Next]_vars => [Contract!Next]_(Contract!contractVars)
  <2> SUFFICES ASSUME CallInv, [Next]_vars PROVE [Contract!Next]_(Contract!contractVars)
    OBVIOUS
  <2>1. CASE UNCHANGED vars
    BY <2>1 DEF vars, daemonVars, clientVars, files, Contract!contractVars, ToCome
  <2>2. CASE Next
    BY <2>2, DaemonLosesCalls, RequestsKeepContract, ClientsKeepContract DEF Next
  <2> QED  BY <2>1, <2>2
<1> QED  BY CallsInit, <1>1, CallInvariant, PTL DEF Spec, ImplementsCallContract, Contract!Spec

(* CallsSound, of the variables of this module.                            *)
SoundCalls ==
  /\ Phase \in [Clients -> {"idle", "open", "returned"}]
  /\ \A c \in Panes : Phase[c] = "returned" => c \in applied
  /\ Late \subseteq applied
  /\ applied \subseteq {c \in Clients : Phase[c] # "idle"}

(* In the contract a registration that returned was carried out, only what *)
(* was carried out may come once more, and every change of the label's     *)
(* owner is the doing of a call that was asked for and is due: one whose   *)
(* first turn is still to come, or a late one.                             *)
THEOREM ContractKeepsCalls ==
  Contract!Spec => []Contract!CallsSound /\ Contract!ChangesAreDue
<1> DEFINE Due ==
             owner' # owner =>
                \E c \in Clients :
                   /\ Phase[c] # "idle"
                   /\ c \notin applied \/ c \in Late
                   /\ c \in applied'
                   /\ owner' = IF c \in Panes THEN c ELSE Nobody
<1>1. Contract!Init => SoundCalls
  BY DEF Contract!Init, SoundCalls, Phase, Late, PhaseOf, Clients
<1>2. SoundCalls /\ [Contract!Next]_(Contract!contractVars) => SoundCalls' /\ Due
  <2> SUFFICES ASSUME SoundCalls, [Contract!Next]_(Contract!contractVars)
               PROVE  SoundCalls' /\ Due
    OBVIOUS
  <2> USE DEF SoundCalls
  <2>1. CASE UNCHANGED Contract!contractVars
    <3>1. UNCHANGED <<Phase, owner, applied, Late>>
      BY <2>1 DEF Contract!contractVars, Phase, PhaseOf, Late
    <3> QED  BY <3>1
  <2>2. ASSUME NEW c \in Clients, Contract!Begin(c) PROVE SoundCalls' /\ Due
    <3>1. /\ Phase[c] = "idle"
          /\ Phase' = [Phase EXCEPT ![c] = "open"]
          /\ UNCHANGED <<owner, applied, Late>>
      BY <2>2, ContractSteps
    <3> QED  BY <3>1 DEF Clients
  <2>3. ASSUME NEW c \in Clients, Contract!Perform(c) PROVE SoundCalls' /\ Due
    <3>1. /\ Phase[c] # "idle" /\ c \notin applied /\ Apply(c)
          /\ Late' \in {Late, Late \cup {c}}
          /\ Phase' \in {Phase, [Phase EXCEPT ![c] = "returned"]}
      BY <2>3, ContractSteps
    <3>2. SoundCalls'
      BY <3>1 DEF Apply, Clients
    <3>3. Due
      BY <3>1 DEF Apply
    <3> QED  BY <3>2, <3>3
  <2>4. ASSUME NEW c \in Clients, Contract!Repeat(c) PROVE SoundCalls' /\ Due
    <3>1. /\ c \in Late /\ owner' = IF c \in Panes THEN c ELSE Nobody
          /\ Late' = Late \ {c}
          /\ Phase' \in {Phase, [Phase EXCEPT ![c] = "returned"]}
          /\ UNCHANGED applied
      BY <2>4, ContractSteps
    <3>2. SoundCalls'
      BY <3>1 DEF Clients
    <3>3. Due
      BY <3>1
    <3> QED  BY <3>2, <3>3
  <2>5. ASSUME NEW c \in Clients, Contract!Return(c) PROVE SoundCalls' /\ Due
    <3>1. /\ c \in Panes => c \in applied
          /\ Phase' = [Phase EXCEPT ![c] = "returned"]
          /\ UNCHANGED <<owner, applied, Late>>
      BY <2>5, ContractSteps
    <3> QED  BY <3>1 DEF Clients
  <2>6. ASSUME NEW S \in SUBSET Clients, Contract!Lose(S) PROVE SoundCalls' /\ Due
    BY <2>6, ContractSteps
  <2> QED  BY <2>1, <2>2, <2>3, <2>4, <2>5, <2>6 DEF Contract!Next
<1>3. SoundCalls => Contract!CallsSound
  BY DEF SoundCalls, Contract!CallsSound, Phase, PhaseOf, Late, Clients
<1>4. Due => Contract!ChangeIsDue
  <2> SUFFICES ASSUME Due, owner' # owner PROVE Contract!ChangeIsDue
    BY DEF Contract!ChangeIsDue
  <2>1. PICK c \in Clients : /\ Phase[c] # "idle"
                             /\ c \notin applied \/ c \in Late
                             /\ c \in applied'
                             /\ owner' = IF c \in Panes THEN c ELSE Nobody
    OBVIOUS
  <2>2. client[c] # "idle"
    BY <2>1 DEF Phase, PhaseOf
  <2> QED  BY <2>1, <2>2 DEF Contract!ChangeIsDue, Late
<1>5. SoundCalls /\ [Contract!Next]_(Contract!contractVars)
         => [Contract!ChangeIsDue]_(Contract!contractVars)
  BY <1>2, <1>4
<1> QED
  <2>1. SoundCalls /\ [Contract!Next]_(Contract!contractVars) => SoundCalls'
    BY <1>2
  <2> QED  BY <1>1, <2>1, <1>3, <1>5, PTL DEF Contract!Spec, Contract!ChangesAreDue
=============================================================================
