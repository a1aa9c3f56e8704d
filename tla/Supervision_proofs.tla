------------------------- MODULE Supervision_proofs -------------------------
(***************************************************************************)
(* TLAPS proof about Supervision, for any number of processes and callers. *)
(* ProcessInv adds that a process of the service has a version of its own: *)
(* a pid that a stranger had is given a version anew; and that only the    *)
(* watchdog is ensured under a lock.                                       *)
(***************************************************************************)
EXTENDS Supervision, TLAPS

USE SupervisionAssumption DEF Holding, OnceSteps, Ensuring, Stale

-----------------------------------------------------------------------------
ProcessInv ==
    /\ TypeOK
    /\ \A p \in Pids : proc[p] \in {"started"} \cup Holding \cup OnceSteps
                          => version[p] \in {"old", "current"}
    /\ \A c \in Callers : caller[c] \in {"lock", "recheck", "kill"} => service = "watchdog"

LEMMA ProcessInit == Init => ProcessInv
<1> SUFFICES ASSUME Init PROVE ProcessInv
  OBVIOUS
<1>1. CASE Fresh
  BY <1>1 DEF Init, Fresh, NoBeat, ProcessInv, TypeOK
<1>2. CASE service = "watchdog" /\ \E p \in Pids : Left(p)
  BY <1>2 DEF Init, Left, ProcessInv, TypeOK
<1> QED  BY <1>1, <1>2 DEF Init

(* The calls start and end processes; none that they touch gets the lock.  *)
LEMMA CallersKeep == \A c \in Callers : ProcessInv /\ (CallerStep(c) \/ CallerDies(c)) => ProcessInv'
<1> SUFFICES ASSUME NEW c \in Callers, ProcessInv, CallerStep(c) \/ CallerDies(c) PROVE ProcessInv'
  OBVIOUS
<1> USE DEF ProcessInv, TypeOK, files
<1>1. CASE EnsureBegin(c)
  BY <1>1 DEF EnsureBegin
<1>2. CASE EnsureLock(c)
  <2>1. caller[c] = "lock" /\ ensureLock # c /\ c # Nobody
    BY <1>2 DEF EnsureLock
  <2>2. CASE ensureLock = Nobody
    <3>1. /\ ensureLock' = c
          /\ caller' = [caller EXCEPT ![c] = "recheck"]
          /\ UNCHANGED <<service, proc, version, runLock, files, events>>
      BY <1>2, <2>2 DEF EnsureLock
    <3>2. \A d \in Callers : service = "watchdog" /\ caller'[d] \in Ensuring => ensureLock' = d
      BY <2>2, <3>1
    <3>3. service = "watchdog"
      BY <2>1
    <3> QED  BY <3>1, <3>2, <3>3
  <2>3. CASE ensureLock # Nobody
    <3>1. /\ UNCHANGED <<service, proc, version, runLock, files, events, ensureLock>>
          /\ caller' = [caller EXCEPT ![c] = "idle"]
      BY <1>2, <2>3 DEF EnsureLock
    <3> QED  BY <2>1, <3>1
  <2> QED  BY <2>2, <2>3
<1>3. CASE EnsureRecheck(c)
  BY <1>3 DEF EnsureRecheck
<1>4. CASE EnsureKill(c)
  BY <1>4 DEF EnsureKill, Alive
<1>5. CASE EnsureSpawn(c)
  BY <1>5 DEF EnsureSpawn
<1>6. CASE CallerDies(c)
  BY <1>6 DEF CallerDies
<1> QED  BY <1>1, <1>2, <1>3, <1>4, <1>5, <1>6 DEF CallerStep

LEMMA ProcessesKeep ==
  \A p \in Pids :
     ProcessInv /\ (ProcessStep(p) \/ RunOnce(p) \/ Dies(p) \/ Stranger(p)) => ProcessInv'
<1> SUFFICES ASSUME NEW p \in Pids, ProcessInv,
                    ProcessStep(p) \/ RunOnce(p) \/ Dies(p) \/ Stranger(p)
             PROVE  ProcessInv'
  OBVIOUS
<1> USE DEF ProcessInv, TypeOK, files
<1>1. CASE Starts(p)
  BY <1>1 DEF Starts, First
<1>2. CASE WritePid(p)
  BY <1>2 DEF WritePid
<1>3. CASE Stamp(p)
  BY <1>3 DEF Stamp
<1>4. CASE Scan(p)
  BY <1>4 DEF Scan, First
<1>5. CASE Terminates(p)
  BY <1>5 DEF Terminates, Ended
<1>6. CASE RunOnce(p)
  BY <1>6 DEF RunOnce
<1>7. CASE Dies(p)
  BY <1>7 DEF Dies, Ended
<1>8. CASE Stranger(p)
  BY <1>8 DEF Stranger
<1> QED  BY <1>1, <1>2, <1>3, <1>4, <1>5, <1>6, <1>7, <1>8 DEF ProcessStep

LEMMA TimePasses == ProcessInv /\ Tick => ProcessInv'
  BY DEF ProcessInv, TypeOK, Tick

(* The run lock is held by the one process that loops, and the ensure lock *)
(* by the one caller that starts or ends a watchdog.                       *)
THEOREM SupervisionTypeCorrect == Spec => []TypeOK
<1>1. ProcessInv /\ [Next]_vars => ProcessInv'
  <2> SUFFICES ASSUME ProcessInv, [Next]_vars PROVE ProcessInv'
    OBVIOUS
  <2>1. CASE UNCHANGED vars
    BY <2>1 DEF vars, files, ProcessInv, TypeOK
  <2>2. CASE Next
    BY <2>2, CallersKeep, ProcessesKeep, TimePasses DEF Next
  <2> QED  BY <2>1, <2>2
<1>2. ProcessInv => TypeOK
  BY DEF ProcessInv
<1> QED  BY ProcessInit, <1>1, <1>2, PTL DEF Spec
=============================================================================
