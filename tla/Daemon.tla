------------------------------- MODULE Daemon -------------------------------
(***************************************************************************)
(* The registry daemon: its start and stop around a pid file and a Unix    *)
(* socket, launchd, which starts it again whenever it ends, and the        *)
(* clients, which ask it to register or unregister the one label of this   *)
(* model and may do it themselves.                                         *)
(***************************************************************************)
EXTENDS Naturals

CONSTANTS
    Pids, NoPid,
    Panes,        \* clients that register the label, once each
    Closers,      \* clients that run close-pane or despawn on the label
    First,        \* the pane that has the label in the beginning
    Nobody,       \* no pane
    MaxManual,    \* bound: daemons started by hand, beside launchd's
    MaxEnds       \* bound: daemons that are stopped or die

ASSUME DaemonAssumption ==
    /\ NoPid \notin Pids
    /\ First \in Panes
    /\ Panes \cap Closers = {}
    /\ Nobody \notin Panes \cup Closers
    /\ {MaxManual, MaxEnds} \subseteq Nat

VARIABLES
    daemon,      \* daemon[p]: where process p is in _serve
    job,         \* the process launchd started and watches
    pidFile,     \* daemon.pid
    sock,        \* daemon.sock: the process that listens there, "left" behind, or "none"
    manual, ends,
    client,      \* client[c]: a call through daemon_client
    request,     \* request[c]: the process that has c's request
    answer,      \* answer[c]
    owner,       \* the pane the label is registered for
    applied      \* history: the clients whose operation was carried out

files == <<pidFile, sock>>
daemonVars == <<daemon, job, files, manual, ends>>
clientVars == <<client, request, answer, owner, applied>>
vars == <<daemonVars, clientVars>>

Clients == Panes \cup Closers
Running == {"check", "clean", "bind", "bound", "serving", "stopping", "unlinked"}

Init ==
    /\ daemon = [p \in Pids |-> "none"]
    /\ job = NoPid
    /\ pidFile = NoPid
    /\ sock = "none"
    /\ manual = 0 /\ ends = 0
    /\ client = [c \in Clients |-> IF c = First THEN "done" ELSE "idle"]
    /\ request = [c \in Clients |-> NoPid]
    /\ answer = [c \in Clients |-> "none"]
    /\ owner = First
    /\ applied = {First}

-----------------------------------------------------------------------------
(* The daemon.                                                             *)

\* Variant: a pid file is a daemon.
ExistingByFile == pidFile # NoPid

ExistingAlive == pidFile # NoPid /\ daemon[pidFile] # "none"

At(p, here, there) == daemon[p] = here /\ daemon' = [daemon EXCEPT ![p] = there]

\* What is bound to an ended process, or closed by it
Ended(p) ==
    /\ job' = IF job = p THEN NoPid ELSE job
    /\ request' = [c \in Clients |-> IF request[c] = p THEN NoPid ELSE request[c]]
    /\ UNCHANGED <<client, answer, owner, applied>>

Closed(p) == IF sock = p THEN "left" ELSE sock

Launch(p) ==
    /\ job = NoPid
    /\ At(p, "none", "check")
    /\ job' = p
    /\ UNCHANGED <<files, manual, ends, clientVars>>

RunByHand(p) ==
    /\ manual < MaxManual
    /\ At(p, "none", "check")
    /\ manual' = manual + 1
    /\ UNCHANGED <<job, files, ends, clientVars>>

CheckRefuses(p) ==
    /\ ExistingAlive
    /\ At(p, "check", "none")
    /\ Ended(p)
    /\ UNCHANGED <<files, manual, ends>>

CheckPasses(p) ==
    /\ ~ExistingAlive
    /\ At(p, "check", "clean")
    /\ UNCHANGED <<job, files, manual, ends, clientVars>>

Clean(p) ==
    /\ At(p, "clean", "bind")
    /\ sock' = "none"
    /\ UNCHANGED <<job, pidFile, manual, ends, clientVars>>

(* start_unix_server takes the path whoever has it.                        *)
Bind(p) ==
    /\ At(p, "bind", "bound")
    /\ sock' = p
    /\ UNCHANGED <<job, pidFile, manual, ends, clientVars>>

\* Variant: the pid file of a daemon that died is left alone.
WritePidOnce(p) ==
    /\ At(p, "bound", "serving")
    /\ pidFile' = IF pidFile = NoPid THEN p ELSE pidFile
    /\ UNCHANGED <<job, sock, manual, ends, clientVars>>

WritePid(p) ==
    /\ At(p, "bound", "serving")
    /\ pidFile' = p
    /\ UNCHANGED <<job, sock, manual, ends, clientVars>>

Stop(p) ==
    /\ ends < MaxEnds
    /\ At(p, "serving", "stopping")
    /\ ends' = ends + 1
    /\ sock' = Closed(p)
    /\ UNCHANGED <<job, pidFile, manual, clientVars>>

UnlinkPid(p) ==
    /\ At(p, "stopping", "unlinked")
    /\ pidFile' = NoPid
    /\ UNCHANGED <<job, sock, manual, ends, clientVars>>

UnlinkSocket(p) ==
    /\ At(p, "unlinked", "none")
    /\ sock' = "none"
    /\ Ended(p)
    /\ UNCHANGED <<pidFile, manual, ends>>

Dies(p) ==
    /\ ends < MaxEnds
    /\ daemon[p] \in Running
    /\ daemon' = [daemon EXCEPT ![p] = "none"]
    /\ ends' = ends + 1
    /\ sock' = Closed(p)
    /\ Ended(p)
    /\ UNCHANGED <<pidFile, manual>>

(* Another program gets the pid of a daemon that has ended.                *)
Stranger(p) ==
    /\ At(p, "none", "stranger")
    /\ UNCHANGED <<job, files, manual, ends, clientVars>>

-----------------------------------------------------------------------------
(* A request: one connection, one answer.                                  *)

Apply(c) ==
    /\ owner' = IF c \in Panes THEN c ELSE Nobody
    /\ applied' = applied \cup {c}

(* Not every client has opted in to the daemon.                            *)
CallBegin(c) ==
    /\ client[c] = "idle"
    /\ \/ sock # "none" /\ client' = [client EXCEPT ![c] = "call"]
       \/ client' = [client EXCEPT ![c] = "direct"]
    /\ UNCHANGED <<daemonVars, request, answer, owner, applied>>

Connect(c) ==
    /\ client[c] = "call"
    /\ IF sock \in Pids
       THEN request' = [request EXCEPT ![c] = sock] /\ client' = [client EXCEPT ![c] = "sent"]
       ELSE client' = [client EXCEPT ![c] = "failed"] /\ UNCHANGED request
    /\ UNCHANGED <<daemonVars, answer, owner, applied>>

(* The answer may be lost on its way, or the daemon end before it gives it. *)
Handle(p, c) ==
    /\ request[c] = p
    /\ daemon[p] \in {"serving", "stopping"}
    /\ request' = [request EXCEPT ![c] = NoPid]
    /\ \/ Apply(c) /\ answer' = [answer EXCEPT ![c] = "ok"]
       \/ Apply(c) /\ UNCHANGED answer
       \/ answer' = [answer EXCEPT ![c] = "error"] /\ UNCHANGED <<owner, applied>>
    /\ UNCHANGED <<daemonVars, client>>

\* Variant: any answer is a result.
AnyAnswer(c) == answer[c] # "none"

GoodAnswer(c) == answer[c] = "ok"

Answered(c) ==
    /\ client[c] = "sent"
    /\ GoodAnswer(c)
    /\ client' = [client EXCEPT ![c] = "done"]
    /\ UNCHANGED <<daemonVars, request, answer, owner, applied>>

(* The connection ends without a result, or the client's five seconds do.  *)
Unanswered(c) ==
    /\ client[c] = "sent"
    /\ ~GoodAnswer(c)
    /\ client' = [client EXCEPT ![c] = "failed"]
    /\ UNCHANGED <<daemonVars, request, answer, owner, applied>>

(* A registration is then written by the client; close-pane and despawn    *)
(* leave it at that.                                                       *)
Fallback(c) ==
    /\ client[c] = "failed"
    /\ client' = [client EXCEPT ![c] = "done"]
    /\ IF c \in Panes THEN Apply(c) ELSE UNCHANGED <<owner, applied>>
    /\ UNCHANGED <<daemonVars, request, answer>>

Direct(c) ==
    /\ client[c] = "direct"
    /\ client' = [client EXCEPT ![c] = "done"]
    /\ Apply(c)
    /\ UNCHANGED <<daemonVars, request, answer>>

-----------------------------------------------------------------------------
Serve(p) ==
    \/ CheckRefuses(p) \/ CheckPasses(p) \/ Clean(p) \/ Bind(p) \/ WritePid(p)
    \/ UnlinkPid(p) \/ UnlinkSocket(p)

ClientStep(c) ==
    \/ CallBegin(c) \/ Connect(c) \/ Answered(c) \/ Unanswered(c) \/ Fallback(c) \/ Direct(c)

Next ==
    \/ \E p \in Pids : Launch(p) \/ RunByHand(p) \/ Serve(p) \/ Stop(p) \/ Dies(p) \/ Stranger(p)
    \/ \E p \in Pids, c \in Clients : Handle(p, c)
    \/ \E c \in Clients : ClientStep(c)

Spec == Init /\ [][Next]_vars

(* launchd starts the daemon again, not always under the same pid.         *)
FairSpec ==
    /\ Spec
    /\ \A p \in Pids : SF_vars(Launch(p)) /\ WF_vars(Serve(p))

-----------------------------------------------------------------------------
(* Every variable holds what the code can put there, and without daemons   *)
(* started by hand a daemon that serves is the one on file.                *)
TypeOK ==
    /\ daemon \in [Pids -> Running \cup {"none", "stranger"}]
    /\ job \in Pids \cup {NoPid}
    /\ pidFile \in Pids \cup {NoPid}
    /\ sock \in Pids \cup {"none", "left"}
    /\ manual \in 0..MaxManual /\ ends \in 0..MaxEnds
    /\ client \in [Clients -> {"idle", "call", "sent", "failed", "direct", "done"}]
    /\ request \in [Clients -> Pids \cup {NoPid}]
    /\ answer \in [Clients -> {"none", "ok", "error"}]
    /\ owner \in Panes \cup {Nobody}
    /\ applied \subseteq Clients
    /\ manual = 0 => \A p \in Pids : daemon[p] = "serving" => pidFile = p /\ sock = p

(* What is still to be carried out for c: its request, or what c falls     *)
(* back to.                                                                *)
ToCome(c) ==
    \/ request[c] # NoPid
    \/ c \in Panes /\ client[c] = "failed"
    \/ c \in Panes /\ client[c] = "sent" /\ answer[c] # "ok"

Contract == INSTANCE CallContract WITH
    Calls <- Clients,
    Registering <- Panes,
    phase <- [c \in Clients |-> CASE client[c] = "idle" -> "idle"
                                  [] client[c] = "done" -> "returned"
                                  [] OTHER -> "open"],
    performed <- applied,
    late <- {c \in applied : ToCome(c)}

(* Whatever the daemon does with a request and however late, a registration *)
(* that returned was written ("a missing/crashing daemon never blocks a    *)
(* register call", _register_through_daemon_or_file), nothing is written   *)
(* unasked, and nothing a third time.                                      *)
ImplementsCallContract == Contract!Spec

(* launchd's daemon comes back after every stop and every death, whatever  *)
(* pid file and socket are left, and can be reached (unless another daemon *)
(* is started by hand, which takes the socket along when it ends, or       *)
(* another program runs under a pid that is on file).                      *)
ComesBack ==
    \/ <>[](\E p \in Pids : daemon[p] = "serving" /\ sock = p)
    \/ <>(manual > 0)
    \/ <>(\E p \in Pids : daemon[p] = "stranger")
=============================================================================
