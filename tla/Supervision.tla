----------------------------- MODULE Supervision -----------------------------
(***************************************************************************)
(* How the watchdog and the mailbox worker are kept running.  Whoever asks *)
(* something looks at a pid file and a heartbeat and starts a detached     *)
(* process if it does not like what it sees; of the processes started this *)
(* way the one that gets the run lock stays, the others exit.              *)
(*                                                                         *)
(* The watchdog is started under a lock and replaced when it is of another *)
(* version; the worker is neither.  service says which of the two it is.   *)
(***************************************************************************)
EXTENDS Naturals

CONSTANTS
    Pids,         \* process ids; those of ended processes are given out again
    NoPid,
    Callers,      \* processes that call ensure_watchdog_running or ensure_worker
    Nobody,       \* no caller
    MaxEvents     \* bound: processes that die, pids taken by strangers, scans by hand

ASSUME SupervisionAssumption ==
    /\ NoPid \notin Pids
    /\ Nobody \notin Callers
    /\ MaxEvents \in Nat

VARIABLES
    service,     \* "watchdog" or "worker"
    proc,        \* proc[p]: what process p is doing
    version,     \* version[p]
    runLock,     \* the process that has watchdog.lock, mailbox-worker.lock
    pidFile,     \* watchdog.pid
    beat,        \* the heartbeat file; its age in halves of the time it is good for
    caller,      \* caller[c]: a call of ensure
    ensureLock,  \* the caller that has watchdog-ensure.lock
    events

files == <<pidFile, beat>>
vars == <<service, proc, version, runLock, files, caller, ensureLock, events>>

Stale == 2
First == IF service = "watchdog" THEN "pid" ELSE "stamp"

Holding == {"pid", "stamp", "scan"}            \* loops with the run lock
OnceSteps == {"once-pid", "once-stamp", "once-scan"}

NoBeat == [pid |-> NoPid, version |-> "current", age |-> Stale]

\* Nothing runs.
Fresh ==
    /\ proc = [q \in Pids |-> "none"]
    /\ version = [q \in Pids |-> "current"]
    /\ runLock = NoPid
    /\ pidFile = NoPid
    /\ beat = NoBeat

\* A process that an older version started.
Left(p) ==
    /\ proc = [q \in Pids |-> IF q = p THEN "scan" ELSE "none"]
    /\ version = [q \in Pids |-> IF q = p THEN "old" ELSE "current"]
    /\ runLock = p
    /\ pidFile = p
    /\ beat = [pid |-> p, version |-> "old", age |-> 0]

Init ==
    /\ \/ service \in {"watchdog", "worker"} /\ Fresh
       \/ service = "watchdog" /\ \E p \in Pids : Left(p)
    /\ caller = [c \in Callers |-> "idle"]
    /\ ensureLock = Nobody
    /\ events = 0

-----------------------------------------------------------------------------
(* The health of the service, and the calls that ensure it.                *)

Alive(p) == p # NoPid /\ proc[p] # "none"
Known == IF service = "watchdog" THEN pidFile ELSE beat.pid

\* Variant: the version is not looked at.
HealthyAnyVersion == Alive(Known) /\ beat.age < Stale

Healthy == Alive(Known) /\ beat.age < Stale /\ beat.version = "current"

Outdated == Alive(Known) /\ beat.age < Stale /\ beat.version # "current"

EnsureBegin(c) ==
    /\ caller[c] = "idle"
    /\ ~Healthy
    /\ caller' = [caller EXCEPT ![c] = IF service = "watchdog" THEN "lock" ELSE "spawn"]
    /\ UNCHANGED <<service, proc, version, runLock, files, ensureLock, events>>

(* The lock is not waited for.                                             *)
EnsureLock(c) ==
    /\ caller[c] = "lock"
    /\ IF ensureLock = Nobody
       THEN ensureLock' = c /\ caller' = [caller EXCEPT ![c] = "recheck"]
       ELSE caller' = [caller EXCEPT ![c] = "idle"] /\ UNCHANGED ensureLock
    /\ UNCHANGED <<service, proc, version, runLock, files, events>>

EnsureRecheck(c) ==
    /\ caller[c] = "recheck"
    /\ caller' = [caller EXCEPT ![c] = IF Healthy THEN "idle" ELSE IF Outdated THEN "kill" ELSE "spawn"]
    /\ ensureLock' = IF Healthy THEN Nobody ELSE ensureLock
    /\ UNCHANGED <<service, proc, version, runLock, files, events>>

(* The pid file is read again; the process has a moment to go away.        *)
EnsureKill(c) ==
    /\ caller[c] = "kill"
    /\ proc' = IF Alive(pidFile) THEN [proc EXCEPT ![pidFile] = "dying"] ELSE proc
    /\ caller' = [caller EXCEPT ![c] = "spawn"]
    /\ UNCHANGED <<service, version, runLock, files, ensureLock, events>>

EnsureSpawn(c) ==
    /\ caller[c] = "spawn"
    /\ \E p \in Pids :
          /\ proc[p] = "none"
          /\ proc' = [proc EXCEPT ![p] = "started"]
          /\ version' = [version EXCEPT ![p] = "current"]
    /\ caller' = [caller EXCEPT ![c] = "idle"]
    /\ ensureLock' = IF ensureLock = c THEN Nobody ELSE ensureLock
    /\ UNCHANGED <<service, runLock, files, events>>

-----------------------------------------------------------------------------
(* The process: the lock for good, then heartbeat and scan in turn.        *)

\* Variant: a process that does not get the lock stays.
StartsAnyway(p) ==
    /\ proc[p] = "started"
    /\ proc' = [proc EXCEPT ![p] = First]
    /\ runLock' = p
    /\ UNCHANGED <<service, version, files, caller, ensureLock, events>>

Starts(p) ==
    /\ proc[p] = "started"
    /\ IF runLock = NoPid
       THEN proc' = [proc EXCEPT ![p] = First] /\ runLock' = p
       ELSE proc' = [proc EXCEPT ![p] = "none"] /\ UNCHANGED runLock
    /\ UNCHANGED <<service, version, files, caller, ensureLock, events>>

(* The pid file is written before the heartbeat.                           *)
WritePid(p) ==
    /\ proc[p] \in {"pid", "once-pid"}
    /\ pidFile' = p
    /\ proc' = [proc EXCEPT ![p] = IF @ = "pid" THEN "stamp" ELSE "once-stamp"]
    /\ UNCHANGED <<service, version, runLock, beat, caller, ensureLock, events>>

Stamp(p) ==
    /\ proc[p] \in {"stamp", "once-stamp"}
    /\ beat' = [pid |-> p, version |-> version[p], age |-> 0]
    /\ proc' = [proc EXCEPT ![p] = IF @ = "stamp" THEN "scan" ELSE "once-scan"]
    /\ UNCHANGED <<service, version, runLock, pidFile, caller, ensureLock, events>>

Scan(p) ==
    /\ proc[p] \in {"scan", "once-scan"}
    /\ proc' = [proc EXCEPT ![p] = IF @ = "scan" THEN First ELSE "none"]
    /\ UNCHANGED <<service, version, runLock, files, caller, ensureLock, events>>

(* watch --once: without the run lock                                      *)
RunOnce(p) ==
    /\ service = "watchdog"
    /\ proc[p] = "none"
    /\ events < MaxEvents
    /\ events' = events + 1
    /\ proc' = [proc EXCEPT ![p] = "once-pid"]
    /\ version' = [version EXCEPT ![p] = "current"]
    /\ UNCHANGED <<service, runLock, files, caller, ensureLock>>

-----------------------------------------------------------------------------
(* Ends, events and time.                                                  *)

Ended(p) ==
    /\ proc' = [proc EXCEPT ![p] = "none"]
    /\ runLock' = IF runLock = p THEN NoPid ELSE runLock

Terminates(p) ==
    /\ proc[p] = "dying"
    /\ Ended(p)
    /\ UNCHANGED <<service, version, files, caller, ensureLock, events>>

Dies(p) ==
    /\ proc[p] \notin {"none", "dying"}
    /\ events < MaxEvents
    /\ events' = events + 1
    /\ Ended(p)
    /\ UNCHANGED <<service, version, files, caller, ensureLock>>

(* Another program gets the pid of a process that is gone.                 *)
Stranger(p) ==
    /\ proc[p] = "none"
    /\ events < MaxEvents
    /\ events' = events + 1
    /\ proc' = [proc EXCEPT ![p] = "stranger"]
    /\ version' = [version EXCEPT ![p] = "stranger"]
    /\ UNCHANGED <<service, runLock, files, caller, ensureLock>>

CallerDies(c) ==
    /\ caller[c] # "idle"
    /\ events < MaxEvents
    /\ events' = events + 1
    /\ caller' = [caller EXCEPT ![c] = "idle"]
    /\ ensureLock' = IF ensureLock = c THEN Nobody ELSE ensureLock
    /\ UNCHANGED <<service, proc, version, runLock, files>>

(* A scan may be slow, and then the heartbeat of a process that runs gets  *)
(* stale; a heartbeat somebody else left always does.                      *)
Tick ==
    /\ beat.age < Stale
    /\ beat' = [beat EXCEPT !.age = @ + 1]
    /\ UNCHANGED <<service, proc, version, runLock, pidFile, caller, ensureLock, events>>

-----------------------------------------------------------------------------
CallerStep(c) == EnsureBegin(c) \/ EnsureLock(c) \/ EnsureRecheck(c) \/ EnsureKill(c) \/ EnsureSpawn(c)
ProcessStep(p) == Starts(p) \/ WritePid(p) \/ Stamp(p) \/ Scan(p) \/ Terminates(p)

Next ==
    \/ \E c \in Callers : CallerStep(c) \/ CallerDies(c)
    \/ \E p \in Pids : ProcessStep(p) \/ RunOnce(p) \/ Dies(p) \/ Stranger(p)
    \/ Tick

Spec == Init /\ [][Next]_vars

(* Processes run, time passes, and asks that ensure the service keep       *)
(* coming.                                                                 *)
FairSpec ==
    /\ Spec
    /\ WF_vars(Tick)
    /\ \A p \in Pids : WF_vars(ProcessStep(p))
    /\ \A c \in Callers : SF_vars(CallerStep(c))

-----------------------------------------------------------------------------
\* Where a caller that starts a watchdog has the ensure lock.
Ensuring == {"recheck", "kill", "spawn"}

(* Every variable holds what the code can put there.  The run lock is held *)
(* by the one process that loops, or by one that has been told to stop,    *)
(* and never by a process that is gone or by a stranger with its pid; the  *)
(* ensure lock by the one caller that starts or replaces the watchdog, and *)
(* never by a call that is over: neither is ever left behind.              *)
TypeOK ==
    /\ service \in {"watchdog", "worker"}
    /\ proc \in [Pids -> {"none", "started", "dying", "stranger"} \cup Holding \cup OnceSteps]
    /\ version \in [Pids -> {"old", "current", "stranger"}]
    /\ runLock \in Pids \cup {NoPid}
    /\ pidFile \in Pids \cup {NoPid}
    /\ beat \in [pid : Pids \cup {NoPid}, version : {"old", "current"}, age : 0..Stale]
    /\ caller \in [Callers -> {"idle", "lock", "recheck", "kill", "spawn"}]
    /\ ensureLock \in Callers \cup {Nobody}
    /\ \A p \in Pids : proc[p] \in Holding => runLock = p
    /\ runLock # NoPid => proc[runLock] \in Holding \cup {"dying"}
    /\ \A c \in Callers : service = "watchdog" /\ caller[c] \in Ensuring => ensureLock = c
    /\ ensureLock # Nobody => service = "watchdog" /\ caller[ensureLock] \in Ensuring

\* The process that loops is late with its heartbeat.
SlowScan == runLock # NoPid /\ beat.pid = runLock /\ beat.age = Stale

(* In the end a process of this version runs and stays, whatever died,     *)
(* whatever pid is on file and however many were started at once (unless   *)
(* scans are slow again and again, which hides a watchdog's old version).  *)
CurrentRuns ==
    \/ <>[](runLock # NoPid /\ version[runLock] = "current")
    \/ []<>SlowScan
=============================================================================
