--------------------------- MODULE ServerLifecycle ---------------------------
(***************************************************************************)
(* The server processes of one instance directory: the instance lock, the  *)
(* private control socket, startup, controlled shutdown with its drain     *)
(* limit, kills and restarts; and the maintenance gate, by which an online *)
(* backup keeps pushes and pull-request operations out while it copies.    *)
(*                                                                         *)
(* Sources: src/serve.rs, src/instance.rs, src/control.rs,                 *)
(* src/maintenance.rs, src/backup.rs, src/ssh.rs (finish_receive).         *)
(*                                                                         *)
(* A push first holds its gate permit in the async task of its SSH         *)
(* session; its ref changes then run in a spawn_blocking closure.  A       *)
(* canceled task does not stop a closure that runs.  The closure of        *)
(* finish_receive moves lease.service and not lease._maintenance (closures *)
(* capture fields), so a canceled task drops the permit.  A web operation  *)
(* and a backup take their guards inside the closure.                      *)
(***************************************************************************)
EXTENDS Integers, FiniteSets

CONSTANTS
  Servers,   \* server processes; one that is refused at startup is launched again
  Faulty,    \* those that may be killed or find a listener address in use
  Pushes,    \* receive-pack channels
  WebOps,    \* pull-request and default-branch operations of the web server
  Backups,   \* online backup requests on the control socket
  NoServer   \* nobody

ASSUME ServerAssumption == NoServer \notin Servers /\ Faulty \subseteq Servers
\* One host per push, operation or backup: the three kinds share no member.
ASSUME WorkAssumption ==
  Pushes \cap WebOps = {} /\ Pushes \cap Backups = {} /\ WebOps \cap Backups = {}

VARIABLES
  stage,   \* where each server process is
  lock,    \* the process that holds the flock on tit.lock
  socket,  \* the process that created the file control.sock, if the file exists
  sshOn,   \* servers whose SSH sessions are alive
  ctlOn,   \* servers whose control task is alive
  job,     \* pushes: "idle", "open", "running", "done"
  permit,  \* pushes whose asynchronous read permit is held
  op,      \* web operations: "idle", "running", "done"
  backup,  \* backups: "idle", "queued", "locked", "copying", "done"
  host     \* the process a push, operation or backup runs in

gateVars == <<job, permit, op, backup, host>>
vars == <<stage, lock, socket, sshOn, ctlOn, gateVars>>

Work == Pushes \cup WebOps \cup Backups
Stages == {"new", "locked", "control", "serving", "draining", "failing", "returned",
           "refused", "exited", "killed"}
Ended(s) == stage[s] \in {"exited", "killed"}
Live(s) == stage[s] # "new" /\ ~Ended(s)
\* Blocking closures: they run on until they end, whatever happens to the tasks.
PushRuns(s) == \E p \in Pushes : host[p] = s /\ job[p] = "running"
OpRuns(s) == \E o \in WebOps : host[o] = s /\ op[o] = "running"
BackupRuns(s) == \E b \in Backups : host[b] = s /\ backup[b] \in {"locked", "copying"}
Closures(s) == PushRuns(s) \/ OpRuns(s) \/ BackupRuns(s)
Set(f, x, v) == [f EXCEPT ![x] = v]

Init ==
  /\ stage = [s \in Servers |-> "new"]
  /\ lock = NoServer
  /\ socket = NoServer
  /\ sshOn = {}
  /\ ctlOn = {}
  /\ job = [p \in Pushes |-> "idle"]
  /\ permit = {}
  /\ op = [o \in WebOps |-> "idle"]
  /\ backup = [b \in Backups |-> "idle"]
  /\ host = [w \in Work |-> NoServer]

-----------------------------------------------------------------------------
(***************************************************************************)
(* Startup                                                                 *)
(***************************************************************************)

\* InstanceLock::acquire; a launch that finds the lock held ends with nothing done.
Launch(s) ==
  /\ stage[s] = "new"
  /\ lock = NoServer
  /\ lock' = s
  /\ stage' = Set(stage, s, "locked")
  /\ UNCHANGED <<socket, sshOn, ctlOn, gateVars>>

\* The two recoveries, then RunningControlServer::start: a socket file that
\* exists is refused (SocketExists), whoever left it.
BindControl(s) ==
  /\ stage[s] = "locked"
  /\ IF socket = NoServer
       THEN /\ socket' = s
            /\ ctlOn' = ctlOn \cup {s}
            /\ stage' = Set(stage, s, "control")
            /\ UNCHANGED lock
       ELSE /\ lock' = NoServer
            /\ stage' = Set(stage, s, "refused")
            /\ UNCHANGED <<socket, ctlOn>>
  /\ UNCHANGED <<sshOn, gateVars>>

\* The web and SSH listeners are up: ready.
Serve(s) ==
  /\ stage[s] = "control"
  /\ stage' = Set(stage, s, "serving")
  /\ sshOn' = sshOn \cup {s}
  /\ UNCHANGED <<lock, socket, ctlOn, gateVars>>

\* The web listener cannot start: run() returns, which drops the lock; the
\* control task lives until the runtime is dropped (Exit).
WebFails(s) ==
  /\ s \in Faulty
  /\ stage[s] = "control"
  /\ lock' = NoServer
  /\ stage' = Set(stage, s, "returned")
  /\ UNCHANGED <<socket, sshOn, ctlOn, gateVars>>

\* The SSH listener cannot start: control.shutdown() and web.shutdown() wait.
SshFails(s) ==
  /\ s \in Faulty
  /\ stage[s] = "control"
  /\ stage' = Set(stage, s, "failing")
  /\ UNCHANGED <<lock, socket, sshOn, ctlOn, gateVars>>

-----------------------------------------------------------------------------
(***************************************************************************)
(* Shutdown.  The three shutdown_bounded calls run side by side; each ends *)
(* when its task ends or cancels it after SHUTDOWN_DRAIN_LIMIT.            *)
(***************************************************************************)
Signal(s) ==
  /\ stage[s] = "serving"
  /\ stage' = Set(stage, s, "draining")
  /\ UNCHANGED <<lock, socket, sshOn, ctlOn, gateVars>>

Stopping(s) == stage[s] \in {"draining", "failing"}

\* The SSH listener task ends.  What happens to the sessions is up to russh: some
\* are canceled, with the permits they hold, and the others live until Exit.
SshEnds(s) ==
  /\ Stopping(s)
  /\ s \in sshOn
  /\ sshOn' = sshOn \ {s}
  /\ \E gone \in SUBSET {p \in Pushes : host[p] = s} :
       /\ permit' = permit \ gone
       /\ job' = [p \in Pushes |-> IF p \in gone /\ job[p] = "open" THEN "done" ELSE job[p]]
  /\ UNCHANGED <<stage, lock, socket, ctlOn, op, backup, host>>

\* Mutant: the cleanup removes whatever socket is at the path.
RemoveSocketAny(s) == NoServer
\* SocketCleanup: the file is removed if it is the one this process created.
RemoveSocket(s) == IF socket = s THEN NoServer ELSE socket

\* Control ends: its listener and its waiting backups go, and the socket file.
ControlEnds(s) ==
  /\ Stopping(s)
  /\ s \in ctlOn
  /\ ctlOn' = ctlOn \ {s}
  /\ socket' = RemoveSocket(s)
  /\ backup' = [b \in Backups |-> IF host[b] = s /\ backup[b] = "queued" THEN "done" ELSE backup[b]]
  /\ UNCHANGED <<stage, lock, sshOn, job, permit, op, host>>

\* run() returns and drops the instance lock.
Return(s) ==
  /\ Stopping(s)
  /\ s \notin sshOn \cup ctlOn
  /\ stage' = Set(stage, s, "returned")
  /\ lock' = NoServer
  /\ UNCHANGED <<socket, sshOn, ctlOn, gateVars>>

\* #[tokio::main] drops the runtime: tasks are dropped, closures are waited for.
\* The supervisor will launch a process again that was refused at startup.
Exit(s) ==
  /\ stage[s] \in {"returned", "refused"}
  /\ ~Closures(s)
  /\ stage' = Set(stage, s, IF stage[s] = "refused" THEN "new" ELSE "exited")
  /\ ctlOn' = ctlOn \ {s}
  /\ socket' = IF s \in ctlOn THEN RemoveSocket(s) ELSE socket
  /\ permit' = permit \ {p \in Pushes : host[p] = s}
  /\ job' = [p \in Pushes |-> IF host[p] = s THEN "done" ELSE job[p]]
  /\ backup' = [b \in Backups |-> IF host[b] = s THEN "done" ELSE backup[b]]
  /\ UNCHANGED <<lock, sshOn, op, host>>

\* Mutant: the lock is the existence of the file, which a kill leaves behind.
KillKeepsLock(s) ==
  /\ s \in Faulty
  /\ Live(s)
  /\ stage' = Set(stage, s, "killed")
  /\ sshOn' = sshOn \ {s}
  /\ ctlOn' = ctlOn \ {s}
  /\ permit' = permit \ {p \in Pushes : host[p] = s}
  /\ job' = [p \in Pushes |-> IF host[p] = s THEN "done" ELSE job[p]]
  /\ op' = [o \in WebOps |-> IF host[o] = s THEN "done" ELSE op[o]]
  /\ backup' = [b \in Backups |-> IF host[b] = s THEN "done" ELSE backup[b]]
  /\ UNCHANGED <<lock, socket, host>>

\* SIGKILL or a power loss: the flock and every task and closure are gone, the
\* socket file stays.
Kill(s) ==
  /\ s \in Faulty
  /\ Live(s)
  /\ stage' = Set(stage, s, "killed")
  /\ lock' = IF lock = s THEN NoServer ELSE lock
  /\ sshOn' = sshOn \ {s}
  /\ ctlOn' = ctlOn \ {s}
  /\ permit' = permit \ {p \in Pushes : host[p] = s}
  /\ job' = [p \in Pushes |-> IF host[p] = s THEN "done" ELSE job[p]]
  /\ op' = [o \in WebOps |-> IF host[o] = s THEN "done" ELSE op[o]]
  /\ backup' = [b \in Backups |-> IF host[b] = s THEN "done" ELSE backup[b]]
  /\ UNCHANGED <<socket, host>>

\* Not in the code: an operator removes the socket file of a process that is gone
\* or no longer serves.
OperatorRemovesSocket ==
  /\ socket # NoServer
  /\ stage[socket] = "returned" \/ Ended(socket)
  /\ socket' = NoServer
  /\ UNCHANGED <<stage, lock, sshOn, ctlOn, gateVars>>

-----------------------------------------------------------------------------
(***************************************************************************)
(* The gate.  Both RwLocks queue: a waiting writer holds back new readers. *)
(***************************************************************************)
AsyncWriter(s) == \E b \in Backups : host[b] = s /\ backup[b] \in {"queued", "locked", "copying"}
AsyncReader(s) == \E p \in permit : host[p] = s
SyncWriter(s) == BackupRuns(s)

\* open_git_service: mutation_permit, held by the session from here on.
PushOpen(p, s) ==
  /\ s \in sshOn
  /\ stage[s] = "serving"
  /\ job[p] = "idle"
  /\ ~AsyncWriter(s)
  /\ job' = Set(job, p, "open")
  /\ host' = Set(host, p, s)
  /\ permit' = permit \cup {p}
  /\ UNCHANGED <<stage, lock, socket, sshOn, ctlOn, op, backup>>

\* Mutant: the permit is dropped before the closure is awaited.
PushRunWithoutPermit(p) ==
  /\ job[p] = "open"
  /\ ~PushRuns(host[p])
  /\ job' = Set(job, p, "running")
  /\ permit' = permit \ {p}
  /\ UNCHANGED <<stage, lock, socket, sshOn, ctlOn, op, backup, host>>

\* finish_receive: push_jobs has one permit; the closure starts.
PushRun(p) ==
  /\ job[p] = "open"
  /\ ~PushRuns(host[p])
  /\ job' = Set(job, p, "running")
  /\ UNCHANGED <<stage, lock, socket, sshOn, ctlOn, permit, op, backup, host>>

\* Mutant: the permit of a push outlives it.
PushEndKeepsPermit(p) ==
  /\ job[p] \in {"open", "running"}
  /\ job' = Set(job, p, "done")
  /\ UNCHANGED <<stage, lock, socket, sshOn, ctlOn, permit, op, backup, host>>

\* The closure ends, or the channel closes or times out before it starts.
PushEnd(p) ==
  /\ job[p] \in {"open", "running"}
  /\ job' = Set(job, p, "done")
  /\ permit' = permit \ {p}
  /\ UNCHANGED <<stage, lock, socket, sshOn, ctlOn, op, backup, host>>

\* mutation() and git_operation(), both inside the closure; connections the web
\* server has accepted go on while it drains.
OpRun(o, s) ==
  /\ stage[s] = "serving" \/ Stopping(s)
  /\ op[o] = "idle"
  /\ ~SyncWriter(s)
  /\ ~OpRuns(s)
  /\ op' = Set(op, o, "running")
  /\ host' = Set(host, o, s)
  /\ UNCHANGED <<stage, lock, socket, sshOn, ctlOn, job, permit, backup>>

OpEnd(o) ==
  /\ op[o] = "running"
  /\ op' = Set(op, o, "done")
  /\ UNCHANGED <<stage, lock, socket, sshOn, ctlOn, job, permit, backup, host>>

\* handle: the request arrives on the socket and waits for maintenance_async.
BackupRequest(b, s) ==
  /\ s \in ctlOn
  /\ socket = s
  /\ backup[b] = "idle"
  /\ backup' = Set(backup, b, "queued")
  /\ host' = Set(host, b, s)
  /\ UNCHANGED <<stage, lock, socket, sshOn, ctlOn, job, permit, op>>

BackupLock(b) ==
  /\ backup[b] = "queued"
  /\ ~AsyncReader(host[b])
  /\ \A c \in Backups : host[c] = host[b] => backup[c] \notin {"locked", "copying"}
  /\ backup' = Set(backup, b, "locked")
  /\ UNCHANGED <<stage, lock, socket, sshOn, ctlOn, job, permit, op, host>>

BackupCopy(b) ==
  /\ backup[b] = "locked"
  /\ ~OpRuns(host[b])
  /\ backup' = Set(backup, b, "copying")
  /\ UNCHANGED <<stage, lock, socket, sshOn, ctlOn, job, permit, op, host>>

BackupEnd(b) ==
  /\ backup[b] = "copying"
  /\ backup' = Set(backup, b, "done")
  /\ UNCHANGED <<stage, lock, socket, sshOn, ctlOn, job, permit, op, host>>

Lifecycle(s) ==
  \/ Launch(s) \/ BindControl(s) \/ Serve(s) \/ WebFails(s) \/ SshFails(s)
  \/ Signal(s) \/ SshEnds(s) \/ ControlEnds(s) \/ Return(s) \/ Exit(s)
WorkSteps(s) ==
  \/ \E p \in Pushes : PushOpen(p, s)
  \/ \E o \in WebOps : OpRun(o, s)
  \/ \E b \in Backups : BackupRequest(b, s)
PushStep(p) == PushRun(p) \/ PushEnd(p)
BackupStep(b) == BackupLock(b) \/ BackupCopy(b) \/ BackupEnd(b)

Next ==
  \/ \E s \in Servers : Lifecycle(s) \/ WorkSteps(s) \/ Kill(s)
  \/ OperatorRemovesSocket
  \/ \E p \in Pushes : PushStep(p)
  \/ \E o \in WebOps : OpEnd(o)
  \/ \E b \in Backups : BackupStep(b)

Spec == Init /\ [][Next]_vars

\* Closures and drains end and requests are served; the supervisor launches
\* the next process when the last one has ended.  WF of PushEnd says that no two
\* pushes share a connection: SshSessions has the case where they wait for each other.
Relaunch(s) == Launch(s) /\ \A t \in Servers : ~Live(t)
ProgressFairness ==
  /\ \A s \in Servers : WF_vars(Relaunch(s)) /\ WF_vars(BindControl(s) \/ Serve(s))
  /\ \A s \in Servers : WF_vars(SshEnds(s)) /\ WF_vars(ControlEnds(s) \/ Return(s) \/ Exit(s))
  /\ \A p \in Pushes : WF_vars(PushEnd(p))
  /\ \A o \in WebOps : WF_vars(OpEnd(o))
  /\ \A b \in Backups : WF_vars(BackupStep(b))
FairSpec == Spec /\ ProgressFairness

-----------------------------------------------------------------------------
TypeOK ==
  /\ stage \in [Servers -> Stages]
  /\ lock \in Servers \cup {NoServer}
  /\ socket \in Servers \cup {NoServer}
  /\ sshOn \subseteq Servers
  /\ ctlOn \subseteq Servers
  /\ job \in [Pushes -> {"idle", "open", "running", "done"}]
  /\ permit \subseteq Pushes
  /\ op \in [WebOps -> {"idle", "running", "done"}]
  /\ backup \in [Backups -> {"idle", "queued", "locked", "copying", "done"}]
  /\ host \in [Work -> Servers \cup {NoServer}]

\* At most one process is between acquiring the lock and releasing it, and a
\* process that serves is reachable on the control socket it created: neither
\* a process that failed earlier nor one that shuts down takes it away.
SocketIsServers ==
  /\ \A s, t \in Servers :
       {stage[s], stage[t]} \subseteq {"locked", "control", "serving", "draining", "failing"}
         => s = t
  /\ \A s \in Servers : stage[s] \in {"control", "serving"} => socket = s

\* While create_archive copies, no web operation changes a ref or its rows and no
\* push changes a ref.  The exception is a server that drains: a session canceled
\* there drops the permit of a push whose closure runs on.
CopyExcludesWork ==
  \A b \in Backups : backup[b] = "copying" =>
    /\ ~OpRuns(host[b])
    /\ host[b] \in sshOn => ~PushRuns(host[b])

\* A backup that was accepted ends: the gate cannot lock up.
BackupEnds == \A b \in Backups : backup[b] = "queued" ~> backup[b] = "done"

\* The socket file that a kill left behind: bind refuses it at every later start.
LeftByKill == socket # NoServer /\ stage[socket] = "killed"

\* A supervisor that launches the next process when the others have ended gets a
\* server, however those failed, unless a kill left the socket file; it
\* gets one too after an operator has removed that file, which nobody is assumed to do.
ServesUnlessLeft ==
  \A t \in Servers \ Faulty :
    (stage[t] = "new" /\ \A s \in Servers \ {t} : Ended(s)) ~> (stage[t] = "serving" \/ LeftByKill)
=============================================================================
