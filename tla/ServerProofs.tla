---------------------------- MODULE ServerProofs ----------------------------
(***************************************************************************)
(* The server process and its web requests, for any number of processes,   *)
(* pushes, web operations, backups, requests, names and repositories.      *)
(*                                                                         *)
(* ServerLifecycle: the instance lock and the control socket belong to the *)
(* process that serves, and the maintenance gate keeps work out of a copy. *)
(* WebRequests: the permits are not exceeded, an answer tells whether its  *)
(* change was made, and shows only what could be read while it lasted.     *)
(***************************************************************************)
EXTENDS ServerLifecycle, WebRequests, SequenceTheorems, FiniteSetTheorems, TLAPS

-----------------------------------------------------------------------------
(***************************************************************************)
(* The invariants of the server lifecycle                                  *)
(***************************************************************************)

\* The stages between acquiring the lock and releasing it.
Holding == {"locked", "control", "serving", "draining", "failing"}

\* The flock is held by the process that is in one of those stages, and by no other.
LockHeld == \A s \in Servers : stage[s] \in Holding <=> lock = s

\* From the bind to the shutdown the socket at the path is this process's own.
SocketHeld == \A s \in Servers : stage[s] \in {"control", "serving"} => socket = s

\* Sessions are alive only between Serve and the end of the SSH listener.
SessionsServe == \A s \in sshOn : stage[s] \in {"serving", "draining"}

\* A push that was opened is in a process whose listeners were up.
PushHosted ==
  \A p \in Pushes : job[p] \in {"open", "running"} =>
    host[p] \in Servers /\ stage[host[p]] \in {"serving", "draining", "failing", "returned"}

\* While the sessions of its process are alive, a push has its permit until it ends.
PermitKept ==
  \A p \in Pushes : job[p] \in {"open", "running"} /\ host[p] \in sshOn => p \in permit

\* The asynchronous half of the gate: a backup that holds it shares its process
\* with no open push, as long as the sessions there are alive.
AsyncGate ==
  \A b \in Backups, p \in Pushes :
    backup[b] \in {"locked", "copying"} /\ host[b] \in sshOn /\ job[p] \in {"open", "running"}
      => host[p] # host[b]

\* The synchronous half: a copy shares its process with no web operation.
SyncGate ==
  \A b \in Backups, o \in WebOps :
    backup[b] = "copying" /\ op[o] = "running" => host[o] # host[b]

LifecycleInv == TypeOK /\ LockHeld /\ SocketHeld
GateInv == LifecycleInv /\ SessionsServe /\ PushHosted /\ PermitKept /\ AsyncGate /\ SyncGate

-----------------------------------------------------------------------------
(***************************************************************************)
(* Types                                                                   *)
(***************************************************************************)

\* Removing the socket file leaves a process or nobody behind.
LEMMA RemoveSocketType ==
  ASSUME TypeOK, NEW s \in Servers
  PROVE  RemoveSocket(s) \in Servers \cup {NoServer}
  BY DEF RemoveSocket, TypeOK

\* Every operation of a server process keeps the types.
LEMMA LifecycleTypes ==
  ASSUME TypeOK, NEW s \in Servers, Lifecycle(s) \/ Kill(s)
  PROVE  TypeOK'
<1>1. CASE Launch(s)
  BY <1>1 DEF Launch, TypeOK, Set, Stages, gateVars
<1>2. CASE BindControl(s)
  BY <1>2 DEF BindControl, TypeOK, Set, Stages, gateVars
<1>3. CASE Serve(s)
  BY <1>3 DEF Serve, TypeOK, Set, Stages, gateVars
<1>4. CASE WebFails(s)
  BY <1>4 DEF WebFails, TypeOK, Set, Stages, gateVars
<1>5. CASE SshFails(s)
  BY <1>5 DEF SshFails, TypeOK, Set, Stages, gateVars
<1>6. CASE Signal(s)
  BY <1>6 DEF Signal, TypeOK, Set, Stages, gateVars
<1>7. CASE SshEnds(s)
  BY <1>7 DEF SshEnds, TypeOK, Set, Stages, gateVars
<1>8. CASE ControlEnds(s)
  BY <1>8, RemoveSocketType DEF ControlEnds, TypeOK, Set, Stages, gateVars
<1>9. CASE Return(s)
  BY <1>9 DEF Return, TypeOK, Set, Stages, gateVars
<1>10. CASE Exit(s)
  BY <1>10, RemoveSocketType DEF Exit, TypeOK, Set, Stages, gateVars
<1>11. CASE Kill(s)
  BY <1>11 DEF Kill, TypeOK, Set, Stages, gateVars
<1> QED
  BY <1>1, <1>2, <1>3, <1>4, <1>5, <1>6, <1>7, <1>8, <1>9, <1>10, <1>11 DEF Lifecycle

\* Every step of a push, a web operation or a backup keeps the types.
LEMMA WorkTypes ==
  ASSUME TypeOK,
         \/ \E s \in Servers : WorkSteps(s)
         \/ OperatorRemovesSocket
         \/ \E p \in Pushes : PushStep(p)
         \/ \E o \in WebOps : OpEnd(o)
         \/ \E b \in Backups : BackupStep(b)
  PROVE  TypeOK'
<1>1. ASSUME NEW s \in Servers, NEW p \in Pushes, PushOpen(p, s) PROVE TypeOK'
  BY <1>1 DEF PushOpen, TypeOK, Set, Work
<1>2. ASSUME NEW s \in Servers, NEW o \in WebOps, OpRun(o, s) PROVE TypeOK'
  BY <1>2 DEF OpRun, TypeOK, Set, Work
<1>3. ASSUME NEW s \in Servers, NEW b \in Backups, BackupRequest(b, s) PROVE TypeOK'
  BY <1>3 DEF BackupRequest, TypeOK, Set, Work
<1>4. CASE OperatorRemovesSocket
  BY <1>4 DEF OperatorRemovesSocket, TypeOK, gateVars
<1>5. ASSUME NEW p \in Pushes, PushStep(p) PROVE TypeOK'
  BY <1>5 DEF PushStep, PushRun, PushEnd, TypeOK, Set
<1>6. ASSUME NEW o \in WebOps, OpEnd(o) PROVE TypeOK'
  BY <1>6 DEF OpEnd, TypeOK, Set
<1>7. ASSUME NEW b \in Backups, BackupStep(b) PROVE TypeOK'
  BY <1>7 DEF BackupStep, BackupLock, BackupCopy, BackupEnd, TypeOK, Set
<1> QED
  BY <1>1, <1>2, <1>3, <1>4, <1>5, <1>6, <1>7 DEF WorkSteps

\* Type correctness of the lifecycle and of the gate.
THEOREM LifecycleTypeOK == Spec => []TypeOK
<1>1. Init => TypeOK
  BY DEF Init, TypeOK, Stages
<1>2. TypeOK /\ [Next]_vars => TypeOK'
  <2> SUFFICES ASSUME TypeOK, [Next]_vars PROVE TypeOK'
    OBVIOUS
  <2>1. CASE \E s \in Servers : Lifecycle(s) \/ Kill(s)
    BY <2>1, LifecycleTypes
  <2>2. CASE UNCHANGED vars
    BY <2>2 DEF vars, gateVars, TypeOK
  <2> QED
    BY <2>1, <2>2, WorkTypes DEF Next
<1> QED
  BY <1>1, <1>2, PTL DEF Spec

-----------------------------------------------------------------------------
(***************************************************************************)
(* The instance lock and the control socket                                *)
(***************************************************************************)

\* A step that touches neither the stages, nor the lock, nor the socket.
LEMMA LifecycleFrame ==
  ASSUME LockHeld, SocketHeld, UNCHANGED <<stage, lock, socket>>
  PROVE  LockHeld' /\ SocketHeld'
  BY DEF LockHeld, SocketHeld

\* Startup, shutdown, exit and kill: the lock follows the stages, and the socket
\* stays with the process that serves.
LEMMA LifecycleStep ==
  ASSUME LifecycleInv, NEW s \in Servers, Lifecycle(s) \/ Kill(s)
  PROVE  LockHeld' /\ SocketHeld'
<1> USE ServerAssumption DEF LifecycleInv, TypeOK, LockHeld, SocketHeld, Holding, Set
<1>1. CASE Launch(s)
  BY <1>1 DEF Launch
<1>2. CASE BindControl(s)
  BY <1>2 DEF BindControl
<1>3. CASE Serve(s)
  BY <1>3 DEF Serve
<1>4. CASE WebFails(s)
  BY <1>4 DEF WebFails
<1>5. CASE SshFails(s)
  BY <1>5 DEF SshFails
<1>6. CASE Signal(s)
  BY <1>6 DEF Signal
<1>7. CASE SshEnds(s)
  BY <1>7 DEF SshEnds
<1>8. CASE ControlEnds(s)
  BY <1>8 DEF ControlEnds, RemoveSocket, Stopping
<1>9. CASE Return(s)
  BY <1>9 DEF Return, Stopping
<1>10. CASE Exit(s)
  BY <1>10 DEF Exit, RemoveSocket
<1>11. CASE Kill(s)
  BY <1>11 DEF Kill
<1> QED
  BY <1>1, <1>2, <1>3, <1>4, <1>5, <1>6, <1>7, <1>8, <1>9, <1>10, <1>11 DEF Lifecycle

\* Every step keeps the lock and the socket where they belong.
LEMMA LifecycleInvStep == LifecycleInv /\ [Next]_vars => LockHeld' /\ SocketHeld'
<1> SUFFICES ASSUME LifecycleInv, [Next]_vars PROVE LockHeld' /\ SocketHeld'
  OBVIOUS
<1>1. CASE \E s \in Servers : Lifecycle(s) \/ Kill(s)
  BY <1>1, LifecycleStep
<1>2. CASE OperatorRemovesSocket
  BY <1>2, ServerAssumption DEF OperatorRemovesSocket, Ended, LifecycleInv, TypeOK, LockHeld, SocketHeld
<1>3. ASSUME NEW s \in Servers, WorkSteps(s) PROVE LockHeld' /\ SocketHeld'
  BY <1>3, LifecycleFrame DEF LifecycleInv, WorkSteps, PushOpen, OpRun, BackupRequest
<1>4. ASSUME NEW p \in Pushes, PushStep(p) PROVE LockHeld' /\ SocketHeld'
  BY <1>4, LifecycleFrame DEF LifecycleInv, PushStep, PushRun, PushEnd
<1>5. ASSUME NEW o \in WebOps, OpEnd(o) PROVE LockHeld' /\ SocketHeld'
  BY <1>5, LifecycleFrame DEF LifecycleInv, OpEnd
<1>6. ASSUME NEW b \in Backups, BackupStep(b) PROVE LockHeld' /\ SocketHeld'
  BY <1>6, LifecycleFrame DEF LifecycleInv, BackupStep, BackupLock, BackupCopy, BackupEnd
<1>7. CASE UNCHANGED vars
  BY <1>7, LifecycleFrame DEF LifecycleInv, vars
<1> QED
  BY <1>1, <1>2, <1>3, <1>4, <1>5, <1>6, <1>7 DEF Next

\* The lock and socket invariant of every reachable state.
THEOREM LifecycleInvariant == Spec => []LifecycleInv
<1>1. Init => LockHeld /\ SocketHeld
  BY ServerAssumption DEF Init, LockHeld, SocketHeld, Holding
<1> QED
  BY <1>1, LifecycleInvStep, LifecycleTypeOK, PTL DEF Spec, LifecycleInv

\* For any number of processes, killed and restarted in any order: at most one is
\* between acquiring and releasing the lock (InstanceLock::acquire), and the one
\* that serves is reachable on the socket it created (SocketCleanup).
THEOREM SocketTheorem == Spec => []SocketIsServers
<1>1. LifecycleInv => SocketIsServers
  <2> SUFFICES ASSUME LifecycleInv PROVE SocketIsServers
    OBVIOUS
  <2>1. ASSUME NEW s \in Servers, NEW t \in Servers, {stage[s], stage[t]} \subseteq Holding
        PROVE  s = t
    <3>1. stage[s] \in Holding /\ stage[t] \in Holding
      BY <2>1
    <3> QED
      BY <3>1 DEF LifecycleInv, LockHeld
  <2> QED
    BY <2>1 DEF LifecycleInv, SocketHeld, SocketIsServers, Holding
<1> QED
  BY <1>1, LifecycleInvariant, PTL

-----------------------------------------------------------------------------
(***************************************************************************)
(* The maintenance gate                                                    *)
(***************************************************************************)

\* A step that leaves the sessions and the work alone: no process loses a stage in
\* which its sessions live or its pushes are hosted.
LEMMA GateFrame ==
  ASSUME GateInv, UNCHANGED <<sshOn, gateVars>>,
         \A s \in sshOn : stage'[s] \in {"serving", "draining"},
         \A s \in Servers : stage[s] \in {"serving", "draining", "failing", "returned"}
                              => stage'[s] \in {"serving", "draining", "failing", "returned"}
  PROVE  SessionsServe' /\ PushHosted' /\ PermitKept' /\ AsyncGate' /\ SyncGate'
  BY DEF GateInv, SessionsServe, PushHosted, PermitKept, AsyncGate, SyncGate, gateVars

\* Startup and shutdown steps.  Serve is where sessions start to live: a process
\* that has not served has no push (PushHosted), so its backups shut none out.
LEMMA GateLifecycle ==
  ASSUME GateInv, NEW s \in Servers, Lifecycle(s) \/ Kill(s)
  PROVE  SessionsServe' /\ PushHosted' /\ PermitKept' /\ AsyncGate' /\ SyncGate'
<1> USE DEF GateInv, LifecycleInv, TypeOK, SessionsServe, PushHosted, PermitKept, AsyncGate, SyncGate, Set,
            Work
<1>1. CASE Launch(s)
  BY <1>1, GateFrame DEF Launch
<1>2. CASE BindControl(s)
  BY <1>2, GateFrame DEF BindControl
<1>3. CASE Serve(s)
  BY <1>3 DEF Serve, gateVars
<1>4. CASE WebFails(s)
  BY <1>4, GateFrame DEF WebFails
<1>5. CASE SshFails(s)
  BY <1>5, GateFrame DEF SshFails
<1>6. CASE Signal(s)
  BY <1>6, GateFrame DEF Signal
<1>7. CASE SshEnds(s)
  BY <1>7 DEF SshEnds
<1>8. CASE ControlEnds(s)
  BY <1>8 DEF ControlEnds
<1>9. CASE Return(s)
  BY <1>9, GateFrame DEF Return, Stopping
<1>10. CASE Exit(s)
  BY <1>10 DEF Exit
<1>11. CASE Kill(s)
  BY <1>11 DEF Kill
<1> QED
  BY <1>1, <1>2, <1>3, <1>4, <1>5, <1>6, <1>7, <1>8, <1>9, <1>10, <1>11 DEF Lifecycle

\* Pushes, web operations and backups at the gate.
LEMMA GateWork ==
  ASSUME GateInv,
         \/ \E s \in Servers : WorkSteps(s)
         \/ OperatorRemovesSocket
         \/ \E p \in Pushes : PushStep(p)
         \/ \E o \in WebOps : OpEnd(o)
         \/ \E b \in Backups : BackupStep(b)
  PROVE  SessionsServe' /\ PushHosted' /\ PermitKept' /\ AsyncGate' /\ SyncGate'
<1> DEFINE Goal == SessionsServe' /\ PushHosted' /\ PermitKept' /\ AsyncGate' /\ SyncGate'
<1> USE DEF GateInv, LifecycleInv, TypeOK, SessionsServe, PushHosted, PermitKept, AsyncGate, SyncGate, Set,
            Work
<1>1. ASSUME NEW s \in Servers, NEW p \in Pushes, PushOpen(p, s) PROVE Goal
  BY <1>1, WorkAssumption DEF PushOpen, AsyncWriter
<1>2. ASSUME NEW s \in Servers, NEW o \in WebOps, OpRun(o, s) PROVE Goal
  BY <1>2, WorkAssumption DEF OpRun, SyncWriter, BackupRuns
<1>3. ASSUME NEW s \in Servers, NEW b \in Backups, BackupRequest(b, s) PROVE Goal
  BY <1>3, WorkAssumption DEF BackupRequest
<1>4. ASSUME OperatorRemovesSocket PROVE Goal
  BY <1>4, GateFrame DEF OperatorRemovesSocket
<1>5. ASSUME NEW p \in Pushes, PushRun(p) PROVE Goal
  BY <1>5 DEF PushRun
<1>6. ASSUME NEW p \in Pushes, PushEnd(p) PROVE Goal
  BY <1>6 DEF PushEnd
<1>7. ASSUME NEW o \in WebOps, OpEnd(o) PROVE Goal
  BY <1>7 DEF OpEnd
<1>8. ASSUME NEW b \in Backups, BackupLock(b) PROVE Goal
  BY <1>8 DEF BackupLock, AsyncReader
<1>9. ASSUME NEW b \in Backups, BackupCopy(b) PROVE Goal
  BY <1>9 DEF BackupCopy, OpRuns
<1>10. ASSUME NEW b \in Backups, BackupEnd(b) PROVE Goal
  BY <1>10 DEF BackupEnd
<1> HIDE DEF Goal
<1>11. Goal
  BY <1>1, <1>2, <1>3, <1>4, <1>5, <1>6, <1>7, <1>8, <1>9, <1>10 DEF WorkSteps, PushStep, BackupStep
<1> QED
  BY <1>11 DEF Goal

\* The gate invariant of every reachable state.
THEOREM GateInvariant == Spec => []GateInv
<1>1. Init => SessionsServe /\ PushHosted /\ PermitKept /\ AsyncGate /\ SyncGate
  BY DEF Init, SessionsServe, PushHosted, PermitKept, AsyncGate, SyncGate
<1>2. GateInv /\ [Next]_vars => SessionsServe' /\ PushHosted' /\ PermitKept' /\ AsyncGate' /\ SyncGate'
  <2>1. CASE \E s \in Servers : Lifecycle(s) \/ Kill(s)
    BY <2>1, GateLifecycle
  <2>2. CASE UNCHANGED vars
    BY <2>2, GateFrame DEF vars, GateInv, SessionsServe
  <2> QED
    BY <2>1, <2>2, GateWork DEF Next
<1> QED
  BY <1>1, <1>2, LifecycleInvariant, PTL DEF Spec, GateInv

\* For any number of pushes, operations and backups in any number of processes: an
\* archive is copied while no web operation runs in its process and, as long as the
\* SSH sessions there live, no push (MaintenanceGate::maintenance_async).
THEOREM CopyTheorem == Spec => []CopyExcludesWork
<1>1. GateInv => CopyExcludesWork
  BY DEF GateInv, AsyncGate, SyncGate, CopyExcludesWork, OpRuns, PushRuns
<1> QED
  BY <1>1, GateInvariant, PTL

-----------------------------------------------------------------------------
(***************************************************************************)
(* Web requests.  The invariant of a request relates its row, what is left *)
(* of its closure, what it served and committed and the history: where the *)
(* request is and what its jobs may still do (Control), what was committed *)
(* and what the answer says of it (Told), and what was resolved and read   *)
(* (Reads).  First what a job and the jobs after it may consist of, and    *)
(* that every handler is made so; then what each kind of step makes of a   *)
(* request, as facts about rows; then the steps of the specification.      *)
(***************************************************************************)

\* What requests, their handlers and their closures are made of
Operations == {"actor", "auth", "manage", "resolve", "read", "name", "list", "stream", "mutate", "intent",
               "reread", "store", "account", "reload"}
NamedChanges == {"mutate", "intent", "pull", "merge"}
ChangeKinds == {"mutate", "intent", "pull", "merge", "store", "account"}
NameKinds == {"page", "file"}
HandlerKinds == ChangeKinds \cup NameKinds \cup {"list", "token"}
Phases == {"none", "waiting", "queued", "running", "done"}
Shown == {"public", "private"}

Answers == {"none", "ok", "308", "400", "403", "404", "408", "409", "415", "429", "500", "503", "login"}
HandlerRow == [kind : HandlerKinds, jobs : Seq(Seq(Operations)), early : SUBSET Answers,
               hidden : {"403", "404"}, absent : {"404", "500"}, confirm : SUBSET {"yes", "no"}]
RequestRow == [phase : Phases, handler : HandlerRow, name : Names \cup {NoRequest.name},
               confirm : {"yes", "no"}, cookie : BOOLEAN,
               actor : BOOLEAN, answer : Answers, public : BOOLEAN]
TaskRow == [operations : Seq(Operations), repo : Repos \cup {NoRepo}]
SeenRows == [Repos -> {"never", "private", "public"}]

\* The operations that the jobs of a kind of handler are made of
Allowed(kind) ==
  CASE kind = "account"           -> {"actor", "auth", "account", "reload"}
    [] kind \in {"pull", "merge"} -> {"actor", "auth", "intent", "reread"}
    [] kind \in {"mutate", "intent", "store"} -> {"actor", "auth", kind}
    [] kind = "page"              -> {"actor", "manage", "resolve", "read", "name", "stream"}
    [] kind = "file"              -> {"actor", "resolve", "read", "name", "stream"}
    [] kind \in {"list", "token"} -> {"actor", "auth", "list", "reload"}

\* What is left of a job that runs or is still to run: whoever asks who the actor is,
\* or streams, does nothing else; a change comes first, and only the reload or the second
\* look at the pull request follows it; a file is read once, at the end.
After == {"reload", "reread"}
JobGood(kind, s, committed) ==
  /\ s # <<>>
  /\ \A i \in 1..Len(s) :
       /\ s[i] \in Allowed(kind)
       /\ s[i] \in {"actor", "auth", "stream"} => Len(s) = 1
       /\ s[i] \in ChangeKinds => i = 1
       /\ s[i] \in After /\ kind \in ChangeKinds => i = 2 \/ (i = 1 /\ committed = 1)
       /\ s[i] \in {"read", "name"} /\ kind = "file" => i = Len(s)

\* The jobs after it: a change is in the last job, and a file is streamed once it is read.
Streams(jobs) == \A m \in 1..Len(jobs) : jobs[m] = <<"stream">>
Follow(kind, s, jobs) ==
  \A i \in 1..Len(s) :
    /\ s[i] \in {"actor", "auth"} => jobs # <<>>
    /\ kind \in ChangeKinds /\ s[i] \in ChangeKinds \cup After => jobs = <<>>
    /\ kind = "file" /\ s[i] \in {"resolve", "read", "name"} => Streams(jobs)

JobsGood(kind, jobs) ==
  \A n \in 1..Len(jobs) :
    /\ JobGood(kind, jobs[n], 0)
    /\ \A i \in 1..Len(jobs[n]) :
         /\ jobs[n][i] \in {"actor", "auth"} => n # Len(jobs)
         /\ kind \in ChangeKinds /\ jobs[n][i] \in ChangeKinds \cup After => n = Len(jobs)
         /\ kind = "file" /\ jobs[n][i] \in {"resolve", "read", "name"} =>
              \A m \in (n + 1)..Len(jobs) : jobs[m] = <<"stream">>

\* The name is resolved in a later job, after jobs that read nothing.
ToCome(jobs) ==
  \E n \in 1..Len(jobs) :
    /\ jobs[n][1] = "resolve"
    /\ \A m \in 1..(n - 1) : Len(jobs[m]) = 1 /\ jobs[m][1] \in {"actor", "manage"}

EarlyGood(kind, early) ==
  /\ "none" \notin early
  /\ kind \in ChangeKinds \cup NameKinds => "ok" \notin early
  /\ kind \in NameKinds \cup NamedChanges => "409" \notin early

HandlerGood(h) ==
  /\ h \in HandlerRow
  /\ h.jobs # <<>>
  /\ JobsGood(h.kind, h.jobs)
  /\ EarlyGood(h.kind, h.early)
  /\ h.kind \in NameKinds => ToCome(h.jobs)

-----------------------------------------------------------------------------
LEMMA HeadTail ==
  ASSUME NEW S, NEW s \in Seq(S), s # <<>>
  PROVE  /\ Len(s) \in Nat /\ Len(s) >= 1
         /\ Head(s) = s[1] /\ s[1] \in S
         /\ Tail(s) \in Seq(S) /\ Len(Tail(s)) = Len(s) - 1
         /\ \A i \in 1..Len(Tail(s)) : i + 1 \in 1..Len(s) /\ Tail(s)[i] = s[i + 1]
         /\ Tail(s) = <<>> <=> Len(s) = 1
<1>1. Len(s) \in Nat /\ Len(s) >= 1
  BY EmptySeq
<1>2. Tail(s) \in Seq(S) /\ Len(Tail(s)) = Len(s) - 1
  BY <1>1
<1>3. \A t \in Seq(S) : t = <<>> <=> Len(t) = 0
  BY EmptySeq
<1>4. Tail(s) = <<>> <=> Len(s) = 1
  <2> DEFINE t == Tail(s)
  <2>1. t \in Seq(S) /\ Len(t) = Len(s) - 1
    BY <1>2
  <2> HIDE DEF t
  <2>2. t = <<>> <=> Len(s) = 1
    BY <1>1, <1>3, <2>1
  <2> QED
    BY <2>2 DEF t
<1>5. \A i \in 1..Len(Tail(s)) : i + 1 \in 1..Len(s) /\ Tail(s)[i] = s[i + 1]
  BY <1>1, <1>2
<1>6. Head(s) = s[1] /\ s[1] \in S
  BY <1>1
<1> QED
  BY <1>1, <1>2, <1>4, <1>5, <1>6

\* What is left of a job is as good as the job; after its change something is committed.
LEMMA TailJob ==
  ASSUME NEW kind \in HandlerKinds, NEW s \in Seq(Operations), NEW c, NEW d, NEW jobs,
         JobGood(kind, s, c), Tail(s) # <<>>,
         c = 1 \/ s[1] \in ChangeKinds => d = 1
  PROVE  /\ JobGood(kind, Tail(s), d)
         /\ Follow(kind, s, jobs) => Follow(kind, Tail(s), jobs)
         /\ s[1] \notin {"actor", "auth", "stream"}
         /\ Tail(s)[1] \notin {"actor", "auth", "stream"} \cup ChangeKinds
<1> DEFINE t == Tail(s)
<1>1. s # <<>>
  BY DEF JobGood
<1>2. /\ Len(s) \in Nat /\ Len(s) >= 2
      /\ t \in Seq(Operations) /\ Len(t) = Len(s) - 1
      /\ \A i \in 1..Len(t) : i + 1 \in 1..Len(s) /\ t[i] = s[i + 1]
      /\ t # <<>>
  BY <1>1, HeadTail
<1> HIDE DEF t
<1>3. \A i \in 1..Len(s) : s[i] \notin {"actor", "auth", "stream"} /\ s[i] \in Allowed(kind)
  BY <1>2 DEF JobGood
<1>4. \A i \in 1..Len(t) : t[i] \notin {"actor", "auth", "stream"} \cup ChangeKinds /\ t[i] \in Allowed(kind)
  BY <1>2, <1>3 DEF JobGood
<1>5. ASSUME NEW i \in 1..Len(t), t[i] \in After, kind \in ChangeKinds
      PROVE  i = 1 /\ d = 1
  <2>1. s[i + 1] \in After /\ i + 1 \in 1..Len(s)
    BY <1>2, <1>5
  <2>2. i + 1 = 2
    BY <1>5, <2>1 DEF JobGood
  <2>3. 1 \in 1..Len(s)
    BY <1>2
  <2>4. s[1] \in ChangeKinds \cup After
    BY <1>3, <1>5, <2>2, <2>3 DEF Allowed, ChangeKinds, After
  <2>5. s[1] \in After => c = 1
    BY <1>5, <2>3 DEF JobGood
  <2> QED
    BY <1>5, <2>2, <2>4, <2>5
<1>6. \A i \in 1..Len(t) : t[i] \in {"read", "name"} /\ kind = "file" => i = Len(t)
  BY <1>2 DEF JobGood
<1>7. JobGood(kind, t, d)
  BY <1>2, <1>4, <1>5, <1>6 DEF JobGood
<1>8. Follow(kind, s, jobs) => Follow(kind, t, jobs)
  BY <1>2 DEF Follow
<1>9. 1 \in 1..Len(s) /\ 1 \in 1..Len(t)
  BY <1>2
<1> QED
  BY <1>3, <1>4, <1>7, <1>8, <1>9 DEF t

\* The first job of those that are left, and the others
LEMMA TailJobs ==
  ASSUME NEW kind \in HandlerKinds, NEW jobs \in Seq(Seq(Operations)), NEW c,
         jobs # <<>>, JobsGood(kind, jobs)
  PROVE  /\ JobsGood(kind, Tail(jobs))
         /\ JobGood(kind, Head(jobs), c)
         /\ Follow(kind, Head(jobs), Tail(jobs))
<1> DEFINE t == Tail(jobs)
<1>1. /\ Len(jobs) \in Nat /\ Len(jobs) >= 1
      /\ Head(jobs) = jobs[1]
      /\ t \in Seq(Seq(Operations))
      /\ Len(t) = Len(jobs) - 1
      /\ \A i \in 1..Len(t) : i + 1 \in 1..Len(jobs) /\ t[i] = jobs[i + 1]
      /\ t = <<>> <=> Len(jobs) = 1
  BY HeadTail
<1> HIDE DEF t
<1>2. JobsGood(kind, t)
  <2> SUFFICES ASSUME NEW n \in 1..Len(t)
               PROVE  /\ JobGood(kind, t[n], 0)
                      /\ \A i \in 1..Len(t[n]) :
                           /\ t[n][i] \in {"actor", "auth"} => n # Len(t)
                           /\ kind \in ChangeKinds /\ t[n][i] \in ChangeKinds \cup After => n = Len(t)
                           /\ kind = "file" /\ t[n][i] \in {"resolve", "read", "name"} =>
                                \A m \in (n + 1)..Len(t) : t[m] = <<"stream">>
    BY DEF JobsGood
  <2>1. n + 1 \in 1..Len(jobs) /\ t[n] = jobs[n + 1] /\ (n = Len(t) <=> n + 1 = Len(jobs))
    BY <1>1
  <2>2. ASSUME NEW m \in (n + 1)..Len(t)
        PROVE  m + 1 \in ((n + 1) + 1)..Len(jobs) /\ t[m] = jobs[m + 1]
    BY <1>1
  <2> QED
    BY <2>1, <2>2 DEF JobsGood
<1>3. JobGood(kind, jobs[1], c)
  <2>1. 1 \in 1..Len(jobs)
    BY <1>1
  <2>2. JobGood(kind, jobs[1], 0)
    BY <2>1 DEF JobsGood
  <2> QED
    BY <2>2 DEF JobGood
<1>4. Follow(kind, jobs[1], t)
  <2>1. 1 \in 1..Len(jobs)
    BY <1>1
  <2>2. ASSUME NEW i \in 1..Len(jobs[1]), kind = "file", jobs[1][i] \in {"resolve", "read", "name"}
        PROVE  Streams(t)
    <3>1. \A m \in (1 + 1)..Len(jobs) : jobs[m] = <<"stream">>
      BY <2>1, <2>2 DEF JobsGood
    <3>2. \A m \in 1..Len(t) : m + 1 \in (1 + 1)..Len(jobs) /\ t[m] = jobs[m + 1]
      BY <1>1
    <3> QED
      BY <3>1, <3>2 DEF Streams
  <2> QED
    BY <1>1, <2>1, <2>2 DEF Follow, JobsGood
<1> QED
  BY <1>1, <1>2, <1>3, <1>4 DEF t

\* The job that asks who the actor is comes before any jobs.
LEMMA ActorFirst ==
  ASSUME NEW kind \in HandlerKinds, NEW jobs \in Seq(Seq(Operations)), jobs # <<>>
  PROVE  LET more == <<<<"actor">>>> \o jobs IN
         /\ more \in Seq(Seq(Operations)) /\ more # <<>>
         /\ JobsGood(kind, jobs) => JobsGood(kind, more)
         /\ ToCome(jobs) => ToCome(more)
<1> DEFINE more == <<<<"actor">>>> \o jobs
<1>1. <<"actor">> \in Seq(Operations) /\ Len(<<"actor">>) = 1 /\ <<"actor">>[1] = "actor" /\ <<"actor">> # <<>>
  BY DEF Operations
<1>2. <<<<"actor">>>> \in Seq(Seq(Operations)) /\ Len(<<<<"actor">>>>) = 1 /\ <<<<"actor">>>>[1] = <<"actor">>
  BY <1>1
<1>3. Len(jobs) \in Nat /\ Len(jobs) >= 1
  BY EmptySeq
<1>4. /\ more \in Seq(Seq(Operations))
      /\ Len(more) = Len(jobs) + 1
      /\ \A i \in 1..(Len(jobs) + 1) : more[i] = IF i <= 1 THEN <<<<"actor">>>>[i] ELSE jobs[i - 1]
  BY <1>2, <1>3, ConcatProperties
<1>5. more[1] = <<"actor">> /\ \A i \in 2..Len(more) : i - 1 \in 1..Len(jobs) /\ more[i] = jobs[i - 1]
  BY <1>2, <1>3, <1>4
<1>6. more # <<>>
  BY <1>3, <1>4, EmptySeq
<1>7. Len(more) = Len(jobs) + 1
  BY <1>4
<1> HIDE DEF more
<1>8. ASSUME JobsGood(kind, jobs) PROVE JobsGood(kind, more)
  <2> SUFFICES ASSUME NEW n \in 1..Len(more)
               PROVE  /\ JobGood(kind, more[n], 0)
                      /\ \A i \in 1..Len(more[n]) :
                           /\ more[n][i] \in {"actor", "auth"} => n # Len(more)
                           /\ kind \in ChangeKinds /\ more[n][i] \in ChangeKinds \cup After => n = Len(more)
                           /\ kind = "file" /\ more[n][i] \in {"resolve", "read", "name"} =>
                                \A m \in (n + 1)..Len(more) : more[m] = <<"stream">>
    BY DEF JobsGood
  <2>1. CASE n = 1
    <3>1. "actor" \in Allowed(kind)
      BY DEF Allowed, HandlerKinds, ChangeKinds, NameKinds
    <3>2. JobGood(kind, more[1], 0)
      BY <1>1, <1>5, <3>1 DEF JobGood, ChangeKinds, After
    <3>3. \A i \in 1..Len(more[1]) : more[1][i] = "actor"
      BY <1>1, <1>5
    <3> QED
      BY <1>3, <1>7, <2>1, <3>2, <3>3 DEF ChangeKinds, After
  <2>2. CASE n # 1
    <3>1. n \in 2..Len(more)
      BY <1>3, <1>7, <2>2
    <3> DEFINE k == n - 1
    <3>2. k \in 1..Len(jobs) /\ more[n] = jobs[k] /\ (n = Len(more) <=> k = Len(jobs))
      BY <1>3, <1>5, <1>7, <3>1
    <3>3. ASSUME NEW m \in (n + 1)..Len(more) PROVE m - 1 \in (k + 1)..Len(jobs) /\ more[m] = jobs[m - 1]
      <4>1. m \in 2..Len(more) /\ m - 1 \in (k + 1)..Len(jobs)
        BY <1>3, <1>7, <3>1
      <4> QED
        BY <1>5, <4>1
    <3> HIDE DEF k
    <3> QED
      BY <1>8, <3>2, <3>3 DEF JobsGood
  <2> QED
    BY <2>1, <2>2
<1>9. ASSUME ToCome(jobs) PROVE ToCome(more)
  <2>1. PICK n \in 1..Len(jobs) :
          /\ jobs[n][1] = "resolve"
          /\ \A m \in 1..(n - 1) : Len(jobs[m]) = 1 /\ jobs[m][1] \in {"actor", "manage"}
    BY <1>9 DEF ToCome
  <2>2. n + 1 \in 1..Len(more) /\ more[n + 1][1] = "resolve"
    <3>1. n + 1 \in 2..Len(more) /\ (n + 1) - 1 = n
      BY <1>3, <1>7
    <3> QED
      BY <1>5, <2>1, <3>1
  <2>3. ASSUME NEW m \in 1..n PROVE Len(more[m]) = 1 /\ more[m][1] \in {"actor", "manage"}
    <3>1. CASE m = 1
      BY <1>1, <1>5, <3>1
    <3>2. CASE m # 1
      <4>1. m - 1 \in 1..(n - 1) /\ m \in 2..Len(more)
        BY <1>3, <1>7, <3>2
      <4>2. more[m] = jobs[m - 1]
        BY <1>5, <4>1
      <4> QED
        BY <2>1, <4>1, <4>2
    <3> QED
      BY <3>1, <3>2
  <2>4. (n + 1) - 1 = n
    OBVIOUS
  <2> QED
    BY <2>2, <2>3, <2>4 DEF ToCome
<1> QED
  BY <1>4, <1>6, <1>8, <1>9 DEF more

-----------------------------------------------------------------------------
\* The jobs of the handlers, one after another
LEMMA Longer ==
  /\ ReadPage \o <<"name">> = <<"resolve", "manage", "read", "name">>
  /\ Read \o <<"name">> = <<"resolve", "read", "name">>
<1>1. /\ <<"resolve", "manage", "read">> \in Seq(Operations) /\ Len(<<"resolve", "manage", "read">>) = 3
      /\ <<"resolve", "read">> \in Seq(Operations) /\ Len(<<"resolve", "read">>) = 2
      /\ <<"name">> \in Seq(Operations) /\ Len(<<"name">>) = 1
      /\ <<"resolve", "manage", "read", "name">> \in Seq(Operations)
      /\ Len(<<"resolve", "manage", "read", "name">>) = 4
      /\ <<"resolve", "read", "name">> \in Seq(Operations) /\ Len(<<"resolve", "read", "name">>) = 3
  BY DEF Operations
<1>2. ReadPage \o <<"name">> = <<"resolve", "manage", "read", "name">>
  <2> DEFINE s == <<"resolve", "manage", "read">> \o <<"name">>
             t == <<"resolve", "manage", "read", "name">>
  <2>1. /\ s \in Seq(Operations) /\ Len(s) = 4
        /\ \A i \in 1..4 : s[i] = IF i <= 3 THEN <<"resolve", "manage", "read">>[i] ELSE <<"name">>[i - 3]
    BY <1>1, ConcatProperties
  <2>2. \A i \in 1..4 : i = 1 \/ i = 2 \/ i = 3 \/ i = 4
    OBVIOUS
  <2>3. \A i \in 1..4 : s[i] = t[i]
    BY <2>1, <2>2
  <2>4. Len(s) = Len(t) /\ t \in Seq(Operations) /\ \A i \in 1..Len(s) : s[i] = t[i]
    BY <1>1, <2>1, <2>3
  <2> QED
    BY <2>1, <2>4, SeqEqual DEF ReadPage
<1>3. Read \o <<"name">> = <<"resolve", "read", "name">>
  <2> DEFINE s == <<"resolve", "read">> \o <<"name">>
             t == <<"resolve", "read", "name">>
  <2>1. /\ s \in Seq(Operations) /\ Len(s) = 3
        /\ \A i \in 1..3 : s[i] = IF i <= 2 THEN <<"resolve", "read">>[i] ELSE <<"name">>[i - 2]
    BY <1>1, ConcatProperties
  <2>2. \A i \in 1..3 : i = 1 \/ i = 2 \/ i = 3
    OBVIOUS
  <2>3. \A i \in 1..3 : s[i] = t[i]
    BY <2>1, <2>2
  <2>4. Len(s) = Len(t) /\ t \in Seq(Operations) /\ \A i \in 1..Len(s) : s[i] = t[i]
    BY <1>1, <2>1, <2>3
  <2> QED
    BY <2>1, <2>4, SeqEqual DEF Read
<1> QED
  BY <1>2, <1>3

\* A list of one job, and of two
LEMMA OneJob ==
  ASSUME NEW kind \in HandlerKinds, NEW s \in Seq(Operations), JobGood(kind, s, 0),
         \A i \in 1..Len(s) : s[i] \notin {"actor", "auth"}
  PROVE  /\ <<s>> \in Seq(Seq(Operations)) /\ <<s>> # <<>>
         /\ JobsGood(kind, <<s>>)
         /\ s[1] = "resolve" => ToCome(<<s>>)
<1>1. <<s>> \in Seq(Seq(Operations)) /\ Len(<<s>>) = 1 /\ <<s>>[1] = s /\ <<s>> # <<>>
  OBVIOUS
<1> DEFINE jobs == <<s>>
<1>2. Len(jobs) = 1 /\ jobs[1] = s
  BY <1>1
<1> HIDE DEF jobs
<1>3. JobsGood(kind, jobs)
  BY <1>2 DEF JobsGood
<1>4. s[1] = "resolve" => ToCome(jobs)
  <2>1. 1 \in 1..Len(jobs) /\ \A m \in 1..(1 - 1) : FALSE
    BY <1>2
  <2> QED
    BY <1>2, <2>1 DEF ToCome
<1> QED
  BY <1>1, <1>3, <1>4 DEF jobs

LEMMA TwoJobs ==
  ASSUME NEW kind \in HandlerKinds, NEW s \in Seq(Operations), NEW t \in Seq(Operations),
         JobGood(kind, s, 0), JobGood(kind, t, 0),
         \A i \in 1..Len(t) : t[i] \notin {"actor", "auth"},
         kind \in ChangeKinds => \A i \in 1..Len(s) : s[i] \notin ChangeKinds \cup After,
         kind = "file" => t = <<"stream">>
  PROVE  /\ <<s, t>> \in Seq(Seq(Operations)) /\ <<s, t>> # <<>>
         /\ JobsGood(kind, <<s, t>>)
         /\ s[1] = "resolve" => ToCome(<<s, t>>)
<1>1. <<s, t>> \in Seq(Seq(Operations)) /\ Len(<<s, t>>) = 2 /\ <<s, t>>[1] = s /\ <<s, t>>[2] = t /\ <<s, t>> # <<>>
  OBVIOUS
<1> DEFINE jobs == <<s, t>>
<1>2. Len(jobs) = 2 /\ jobs[1] = s /\ jobs[2] = t
  BY <1>1
<1> HIDE DEF jobs
<1>3. JobsGood(kind, jobs)
  <2> SUFFICES ASSUME NEW n \in 1..2
               PROVE  /\ JobGood(kind, jobs[n], 0)
                      /\ \A i \in 1..Len(jobs[n]) :
                           /\ jobs[n][i] \in {"actor", "auth"} => n # 2
                           /\ kind \in ChangeKinds /\ jobs[n][i] \in ChangeKinds \cup After => n = 2
                           /\ kind = "file" /\ jobs[n][i] \in {"resolve", "read", "name"} =>
                                \A m \in (n + 1)..2 : jobs[m] = <<"stream">>
    BY <1>2 DEF JobsGood
  <2>1. CASE n = 1
    BY <1>2, <2>1
  <2>2. CASE n = 2
    BY <1>2, <2>2
  <2> QED
    BY <2>1, <2>2
<1>4. s[1] = "resolve" => ToCome(jobs)
  <2>1. 1 \in 1..Len(jobs) /\ \A m \in 1..(1 - 1) : FALSE
    BY <1>2
  <2> QED
    BY <1>2, <2>1 DEF ToCome
<1> QED
  BY <1>1, <1>3, <1>4 DEF jobs

LEMMA PageJobs ==
  \A jobs \in {<<ReadPage \o <<"name">>>>, <<ReadPage>>, <<Read>>, <<<<"manage">>, Read>>,
               <<<<"manage">>, Read, Read, <<"name">>>>, <<Read \o <<"name">>>>} :
    jobs \in Seq(Seq(Operations)) /\ jobs # <<>> /\ JobsGood("page", jobs) /\ ToCome(jobs)
<1> DEFINE Good(s) == /\ s \in Seq(Operations) /\ JobGood("page", s, 0) /\ s[1] = "resolve"
                      /\ \A i \in 1..Len(s) : s[i] \notin {"actor", "auth"}
<1>1. Good(ReadPage \o <<"name">>) /\ Good(ReadPage) /\ Good(Read) /\ Good(Read \o <<"name">>)
  <2>1. Good(<<"resolve", "manage", "read", "name">>)
    BY DEF Operations, JobGood, Allowed, ChangeKinds
  <2>2. Good(<<"resolve", "read", "name">>)
    BY DEF Operations, JobGood, Allowed, ChangeKinds
  <2>3. Good(<<"resolve", "manage", "read">>)
    BY DEF Operations, JobGood, Allowed, ChangeKinds
  <2>4. Good(<<"resolve", "read">>)
    BY DEF Operations, JobGood, Allowed, ChangeKinds
  <2> HIDE DEF Good
  <2> QED
    BY <2>1, <2>2, <2>3, <2>4, Longer DEF Read, ReadPage
<1>2. \A s \in {ReadPage \o <<"name">>, ReadPage, Read, Read \o <<"name">>} :
        <<s>> \in Seq(Seq(Operations)) /\ <<s>> # <<>> /\ JobsGood("page", <<s>>) /\ ToCome(<<s>>)
  <2>1. "page" \in HandlerKinds
    BY DEF HandlerKinds, NameKinds
  <2>2. \A s : Good(s) =>
          <<s>> \in Seq(Seq(Operations)) /\ <<s>> # <<>> /\ JobsGood("page", <<s>>) /\ ToCome(<<s>>)
    BY <2>1, OneJob
  <2> HIDE DEF Good
  <2> QED
    BY ONLY <1>1, <2>2, ZenonT(30)
<1>3. LET jobs == <<<<"manage">>, Read>> IN
      jobs \in Seq(Seq(Operations)) /\ jobs # <<>> /\ JobsGood("page", jobs) /\ ToCome(jobs)
  BY DEF Operations, JobsGood, JobGood, Allowed, ChangeKinds, ToCome, Read
<1>4. LET jobs == <<<<"manage">>, Read, Read, <<"name">>>> IN
      jobs \in Seq(Seq(Operations)) /\ jobs # <<>> /\ JobsGood("page", jobs) /\ ToCome(jobs)
  <2> DEFINE jobs == <<<<"manage">>, Read, Read, <<"name">>>>
             Plain(s) == JobGood("page", s, 0) /\ \A i \in 1..Len(s) : s[i] \notin {"actor", "auth"}
  <2>1. /\ <<"manage">> \in Seq(Operations) /\ Len(<<"manage">>) = 1 /\ <<"manage">>[1] = "manage"
        /\ Read \in Seq(Operations) /\ Read[1] = "resolve"
        /\ <<"name">> \in Seq(Operations)
    BY DEF Operations, Read
  <2>2. Plain(<<"manage">>) /\ Plain(Read) /\ Plain(<<"name">>)
    BY DEF JobGood, Allowed, ChangeKinds, Read
  <2>3. /\ jobs \in Seq(Seq(Operations)) /\ jobs # <<>> /\ Len(jobs) = 4
        /\ jobs[1] = <<"manage">> /\ jobs[2] = Read /\ jobs[3] = Read /\ jobs[4] = <<"name">>
    BY <2>1
  <2> HIDE DEF jobs, Plain
  <2>4. \A n \in 1..Len(jobs) : n = 1 \/ n = 2 \/ n = 3 \/ n = 4
    BY <2>3
  <2>5. \A n \in 1..Len(jobs) : Plain(jobs[n])
    BY <2>2, <2>3, <2>4
  <2>6. JobsGood("page", jobs)
    BY <2>5 DEF JobsGood, Plain, ChangeKinds
  <2>7. ToCome(jobs)
    <3>1. 2 \in 1..Len(jobs) /\ \A m \in 1..(2 - 1) : m = 1
      BY <2>3
    <3> QED
      BY <2>1, <2>3, <3>1 DEF ToCome
  <2> QED
    BY <2>3, <2>6, <2>7 DEF jobs
<1> QED
  BY ONLY <1>2, <1>3, <1>4

LEMMA FileJobs ==
  \A jobs \in {<<Read, <<"stream">>>>, <<Read>>, <<EventPage>>} :
    jobs \in Seq(Seq(Operations)) /\ jobs # <<>> /\ JobsGood("file", jobs) /\ ToCome(jobs)
<1> DEFINE Good(s) == /\ s \in Seq(Operations) /\ JobGood("file", s, 0)
                      /\ \A i \in 1..Len(s) : s[i] \notin {"actor", "auth"}
<1>1. Good(Read) /\ Good(EventPage) /\ Good(<<"stream">>)
  BY DEF Operations, JobGood, Allowed, ChangeKinds, Read, EventPage
<1>2. \A s \in {Read, EventPage} :
        <<s>> \in Seq(Seq(Operations)) /\ <<s>> # <<>> /\ JobsGood("file", <<s>>) /\ ToCome(<<s>>)
  <2>1. Read[1] = "resolve" /\ EventPage[1] = "resolve"
    BY DEF Read, EventPage
  <2>2. "file" \in HandlerKinds
    BY DEF HandlerKinds, NameKinds
  <2>3. \A s : Good(s) /\ s[1] = "resolve" =>
          <<s>> \in Seq(Seq(Operations)) /\ <<s>> # <<>> /\ JobsGood("file", <<s>>) /\ ToCome(<<s>>)
    BY <2>2, OneJob
  <2> HIDE DEF Good
  <2> QED
    BY ONLY <1>1, <2>1, <2>3, ZenonT(30)
<1>3. LET jobs == <<Read, <<"stream">>>> IN
      jobs \in Seq(Seq(Operations)) /\ jobs # <<>> /\ JobsGood("file", jobs) /\ ToCome(jobs)
  <2>1. Read[1] = "resolve"
    BY DEF Read
  <2> QED
    BY <1>1, <2>1, TwoJobs DEF HandlerKinds, NameKinds, ChangeKinds
<1> QED
  BY ONLY <1>2, <1>3

LEMMA OtherJobs ==
  /\ \A kind \in {"list", "token"} :
       \A jobs \in {<<<<"list", "list">>>>, <<<<"list", "reload">>>>, <<<<"auth">>, <<"list">>>>, <<<<"list">>>>} :
         jobs \in Seq(Seq(Operations)) /\ jobs # <<>> /\ JobsGood(kind, jobs)
  /\ \A jobs \in {Signed, <<<<"store">>>>} :
       jobs \in Seq(Seq(Operations)) /\ jobs # <<>> /\ JobsGood("store", jobs)
  /\ \A jobs \in {<<<<"account", "reload">>>>, <<<<"auth">>, <<"account", "reload">>>>} :
       jobs \in Seq(Seq(Operations)) /\ jobs # <<>> /\ JobsGood("account", jobs)
  /\ \A kind \in {"mutate", "intent"} :
       LET jobs == <<<<"auth">>, <<kind>>>> IN
       jobs \in Seq(Seq(Operations)) /\ jobs # <<>> /\ JobsGood(kind, jobs)
  /\ \A kind \in {"pull", "merge"} :
       LET jobs == <<<<"auth">>, <<"intent", "reread">>>> IN
       jobs \in Seq(Seq(Operations)) /\ jobs # <<>> /\ JobsGood(kind, jobs)
<1>1. \A kind \in ChangeKinds \cup {"list", "token"} : <<"auth">> \in Seq(Operations) /\ JobGood(kind, <<"auth">>, 0)
  BY DEF Operations, JobGood, Allowed, ChangeKinds, After
<1> DEFINE Listing(kind, s) == /\ s \in Seq(Operations) /\ JobGood(kind, s, 0)
                               /\ \A i \in 1..Len(s) : s[i] \notin {"actor", "auth"}
<1>2. ASSUME NEW kind \in {"list", "token"}, NEW s \in {<<"list", "list">>, <<"list", "reload">>, <<"list">>}
      PROVE  Listing(kind, s)
  <2>1. Listing(kind, <<"list", "list">>)
    BY DEF Operations, JobGood, Allowed, ChangeKinds, After
  <2>2. Listing(kind, <<"list", "reload">>)
    BY DEF Operations, JobGood, Allowed, ChangeKinds, After
  <2>3. Listing(kind, <<"list">>)
    BY DEF Operations, JobGood, Allowed, ChangeKinds, After
  <2> HIDE DEF Listing
  <2> QED
    BY <2>1, <2>2, <2>3
<1>3. \A kind \in {"mutate", "intent", "store"} :
        LET s == <<kind>> IN
        /\ s \in Seq(Operations) /\ JobGood(kind, s, 0)
        /\ \A i \in 1..Len(s) : s[i] \notin {"actor", "auth"}
  BY DEF Operations, JobGood, Allowed, ChangeKinds, After
<1>4. LET s == <<"account", "reload">> IN
        /\ s \in Seq(Operations) /\ JobGood("account", s, 0)
        /\ \A i \in 1..Len(s) : s[i] \notin {"actor", "auth"}
  BY DEF Operations, JobGood, Allowed, ChangeKinds, After
<1>5. \A i \in 1..Len(<<"auth">>) : <<"auth">>[i] \notin ChangeKinds \cup After
  BY DEF ChangeKinds, After
<1>6. ASSUME NEW kind \in {"list", "token"},
             NEW jobs \in {<<<<"list", "list">>>>, <<<<"list", "reload">>>>, <<<<"auth">>, <<"list">>>>, <<<<"list">>>>}
      PROVE  jobs \in Seq(Seq(Operations)) /\ jobs # <<>> /\ JobsGood(kind, jobs)
  <2>1. ASSUME NEW s \in {<<"list", "list">>, <<"list", "reload">>, <<"list">>}, jobs = <<s>>
        PROVE  jobs \in Seq(Seq(Operations)) /\ jobs # <<>> /\ JobsGood(kind, jobs)
    BY <1>2, <2>1, OneJob DEF HandlerKinds
  <2>2. CASE jobs = <<<<"auth">>, <<"list">>>>
    BY <1>1, <1>2, <2>2, TwoJobs DEF HandlerKinds, ChangeKinds
  <2> QED
    BY <2>1, <2>2
<1>7. \A jobs \in {Signed, <<<<"store">>>>} :
        jobs \in Seq(Seq(Operations)) /\ jobs # <<>> /\ JobsGood("store", jobs)
  <2>1. /\ <<"store">> \in Seq(Operations) /\ JobGood("store", <<"store">>, 0)
        /\ \A i \in 1..Len(<<"store">>) : <<"store">>[i] \notin {"actor", "auth"}
    BY <1>3 DEF ChangeKinds
  <2>2. LET jobs == <<<<"store">>>> IN jobs \in Seq(Seq(Operations)) /\ jobs # <<>> /\ JobsGood("store", jobs)
    BY <2>1, OneJob DEF HandlerKinds, ChangeKinds
  <2>3. LET jobs == <<<<"auth">>, <<"store">>>> IN
        jobs \in Seq(Seq(Operations)) /\ jobs # <<>> /\ JobsGood("store", jobs)
    BY <1>1, <1>5, <2>1, TwoJobs DEF HandlerKinds, ChangeKinds
  <2> QED
    BY <2>2, <2>3 DEF Signed
<1>8. \A jobs \in {<<<<"account", "reload">>>>, <<<<"auth">>, <<"account", "reload">>>>} :
        jobs \in Seq(Seq(Operations)) /\ jobs # <<>> /\ JobsGood("account", jobs)
  BY <1>1, <1>4, <1>5, OneJob, TwoJobs DEF HandlerKinds, ChangeKinds
<1>9. ASSUME NEW kind \in {"mutate", "intent"}
      PROVE  LET jobs == <<<<"auth">>, <<kind>>>> IN
             jobs \in Seq(Seq(Operations)) /\ jobs # <<>> /\ JobsGood(kind, jobs)
  BY <1>1, <1>3, <1>5, OneJob, TwoJobs DEF HandlerKinds, ChangeKinds
<1>10. ASSUME NEW kind \in {"pull", "merge"}
       PROVE  LET jobs == <<<<"auth">>, <<"intent", "reread">>>> IN
              jobs \in Seq(Seq(Operations)) /\ jobs # <<>> /\ JobsGood(kind, jobs)
  <2>1. LET s == <<"intent", "reread">> IN
        /\ s \in Seq(Operations) /\ JobGood(kind, s, 0)
        /\ \A i \in 1..Len(s) : s[i] \notin {"actor", "auth"}
    BY DEF Operations, JobGood, Allowed, ChangeKinds, After
  <2> QED
    BY <1>1, <1>5, <2>1, TwoJobs DEF HandlerKinds, ChangeKinds
<1> QED
  BY ONLY <1>6, <1>7, <1>8, <1>9, <1>10

\* The answers without a job that refuse or redirect
Refusals == {"308", "400", "403", "404", "415", "429", "login"}

\* Rows of handlers made of good jobs
LEMMA RowsGood ==
  ASSUME NEW jobs \in Seq(Seq(Operations)), jobs # <<>>, NEW early \in SUBSET Answers, "none" \notin early
  PROVE  /\ JobsGood("page", jobs) /\ ToCome(jobs) /\ "ok" \notin early /\ "409" \notin early =>
              HandlerGood(Get(jobs, early)) /\ HandlerGood([Get(jobs, early) EXCEPT !.hidden = "403"])
         /\ JobsGood("file", jobs) /\ ToCome(jobs) /\ "ok" \notin early /\ "409" \notin early =>
              HandlerGood([Get(jobs, early) EXCEPT !.kind = "file"])
         /\ \A kind \in {"list", "token"} :
              JobsGood(kind, jobs) => HandlerGood([Get(jobs, early) EXCEPT !.kind = kind])
         /\ \A kind \in {"store", "account"} :
              JobsGood(kind, jobs) /\ "ok" \notin early => HandlerGood(Form(kind, jobs, early))
  BY DEF Get, Form, HandlerGood, HandlerRow, HandlerKinds, ChangeKinds, NameKinds, NamedChanges, EarlyGood

LEMMA PostsGood ==
  \A hidden \in {"403", "404"}, absent \in {"404", "500"} :
    /\ HandlerGood(Mutate(hidden, absent))
    /\ HandlerGood(Post("intent", <<"intent">>, hidden, absent))
    /\ \A kind \in {"pull", "merge"} : HandlerGood(Post(kind, <<"intent", "reread">>, hidden, absent))
<1> SUFFICES ASSUME NEW hidden \in {"403", "404"}, NEW absent \in {"404", "500"},
                    NEW kind \in NamedChanges, NEW change,
                    LET jobs == <<<<"auth">>, change>> IN
                    jobs \in Seq(Seq(Operations)) /\ jobs # <<>> /\ JobsGood(kind, jobs)
             PROVE  HandlerGood(Post(kind, change, hidden, absent))
  BY OtherJobs DEF Mutate, NamedChanges
<1> DEFINE jobs == <<<<"auth">>, change>>
<1>1. jobs \in Seq(Seq(Operations)) /\ jobs # <<>> /\ JobsGood(kind, jobs)
  OBVIOUS
<1> DEFINE early == {"400", "403", "login"}
           h == [kind |-> kind, jobs |-> jobs, early |-> early, hidden |-> hidden, absent |-> absent,
                 confirm |-> {"yes"}]
<1>2. Post(kind, change, hidden, absent) = h
  <2> DEFINE f == [kind |-> kind, jobs |-> jobs, early |-> early, hidden |-> "404", absent |-> "404",
                   confirm |-> {"yes"}]
  <2>1. Post(kind, change, hidden, absent) = [f EXCEPT !.hidden = hidden, !.absent = absent]
    BY DEF Post, Form
  <2> HIDE DEF jobs, early
  <2> QED
    BY <2>1
<1> HIDE DEF jobs
<1>3. h \in HandlerRow /\ h.kind = kind /\ h.jobs = jobs /\ h.early = early
  <2>1. early \in SUBSET Answers
    BY DEF Answers
  <2> HIDE DEF early
  <2> QED
    BY <1>1, <2>1 DEF HandlerRow, HandlerKinds, ChangeKinds, NamedChanges
<1> HIDE DEF h
<1>4. HandlerGood(h)
  BY <1>1, <1>3 DEF HandlerGood, EarlyGood, ChangeKinds, NameKinds, NamedChanges
<1> QED
  BY <1>2, <1>4

\* A form that has to be confirmed is as good as one that has not.
LEMMA ConfirmedGood == ASSUME NEW h, HandlerGood(h) PROVE HandlerGood(Confirmed(h))
BY DEF Confirmed, HandlerGood, HandlerRow

\* Every handler has a name to resolve before it reads, and makes one change at the end.
LEMMA HandlersGood == \A h \in Handlers : HandlerGood(h)
<1>1. \A h \in {Summary, Refs, Commits, Search, Commit, Diff, TreeResponse, Blob, Blame, InfoRefs, GitUploadPack,
                IssueList, IssueDetail, WatchPage, PullRequestList, PullRequestDetail, Settings} : HandlerGood(h)
  <2>1. \A jobs \in {<<ReadPage \o <<"name">>>>, <<ReadPage>>, <<Read>>, <<<<"manage">>, Read>>,
                     <<<<"manage">>, Read, Read, <<"name">>>>, <<Read \o <<"name">>>>} :
        \A early \in SUBSET Refusals :
          HandlerGood(Get(jobs, early)) /\ HandlerGood([Get(jobs, early) EXCEPT !.hidden = "403"])
    <3>1. \A early \in SUBSET Refusals :
            early \in SUBSET Answers /\ "none" \notin early /\ "ok" \notin early /\ "409" \notin early
      BY DEF Refusals, Answers
    <3> QED
      BY <3>1, PageJobs, RowsGood
  <2> QED
    BY <2>1 DEF Refusals, Summary, Refs, Commits, Search, Commit, Diff, TreeResponse, Blob, Blame, InfoRefs, GitUploadPack,
                IssueList, IssueDetail, WatchPage, PullRequestList, PullRequestDetail, Settings
<1>2. \A h \in {CommitPatch, Raw, Archive, FeedResponse, DownloadRevisionPatch} : HandlerGood(h)
  <2>1. \A jobs \in {<<Read, <<"stream">>>>, <<Read>>, <<EventPage>>} : \A early \in SUBSET Refusals :
          HandlerGood([Get(jobs, early) EXCEPT !.kind = "file"])
    <3>1. \A early \in SUBSET Refusals :
            early \in SUBSET Answers /\ "none" \notin early /\ "ok" \notin early /\ "409" \notin early
      BY DEF Refusals, Answers
    <3> QED
      BY <3>1, FileJobs, RowsGood
  <2> QED
    BY <2>1 DEF Refusals, CommitPatch, Raw, Archive, FeedResponse, DownloadRevisionPatch
<1>3. \A h \in {Home, PublicProfile, Activity, TokenFeed, MetadataSearch} : HandlerGood(h)
  <2>1. \A kind \in {"list", "token"} :
        \A jobs \in {<<<<"list", "list">>>>, <<<<"list", "reload">>>>, <<<<"auth">>, <<"list">>>>, <<<<"list">>>>} :
        \A early \in SUBSET (Refusals \cup {"ok"}) :
          HandlerGood([Get(jobs, early) EXCEPT !.kind = kind])
    <3>1. \A early \in SUBSET (Refusals \cup {"ok"}) :
            early \in SUBSET Answers /\ "none" \notin early
      BY DEF Refusals, Answers
    <3> QED
      BY <3>1, OtherJobs, RowsGood
  <2> QED
    BY <2>1 DEF Refusals, Home, PublicProfile, Activity, TokenFeed, MetadataSearch
<1>4. \A h \in {CreateIssue, EditIssue, CommentIssue, ChangeState, SetWatch, EditPullRequest, ChangePullRequestState,
                CreateReview, MergePullRequest, OpenPullRequest, RevisePullRequest, Rename, UpdateGeneral,
                UpdateCollaborator, UpdateDefaultBranch, ArchiveRepository, Unarchive} : HandlerGood(h)
  BY PostsGood, ConfirmedGood DEF CreateIssue, EditIssue, CommentIssue, ChangeState, SetWatch, EditPullRequest,
                   ChangePullRequestState, CreateReview, MergePullRequest, OpenPullRequest, RevisePullRequest,
                   Rename, UpdateGeneral, UpdateCollaborator, UpdateDefaultBranch, ArchiveRepository, Unarchive
<1>5. \A h \in {CreateRepository, CreateOrganization, UpdateOrganizationProfile, SetOrganizationMember,
                RemoveOrganizationMember, BeginKeyAdd, BeginKeyRevoke, IssueToken, RotateToken, RevokeToken,
                LoginChallenge, LoginSsh, LoginSshComplete, LoginVerify} : HandlerGood(h)
  <2>1. \A jobs \in {Signed, <<<<"store">>>>} : \A early \in SUBSET Refusals :
          HandlerGood(Form("store", jobs, early))
    <3>1. \A early \in SUBSET Refusals :
            early \in SUBSET Answers /\ "none" \notin early /\ "ok" \notin early
      BY DEF Refusals, Answers
    <3> QED
      BY <3>1, OtherJobs, RowsGood
  <2> QED
    BY <2>1, ConfirmedGood DEF Refusals, CreateRepository, CreateOrganization, UpdateOrganizationProfile, SetOrganizationMember,
                RemoveOrganizationMember, BeginKeyAdd, BeginKeyRevoke, IssueToken, RotateToken, RevokeToken,
                LoginChallenge, LoginSsh, LoginSshComplete, LoginVerify
<1>6. \A h \in {Signup, Recover, CompleteKeyAdd, CompleteKeyRevoke, UpdateProfile} : HandlerGood(h)
  <2>1. \A jobs \in {<<<<"account", "reload">>>>, <<<<"auth">>, <<"account", "reload">>>>} :
        \A early \in SUBSET Refusals :
          HandlerGood(Form("account", jobs, early))
    <3>1. \A early \in SUBSET Refusals :
            early \in SUBSET Answers /\ "none" \notin early /\ "ok" \notin early
      BY DEF Refusals, Answers
    <3> QED
      BY <3>1, OtherJobs, RowsGood
  <2> QED
    BY <2>1 DEF Refusals, Signup, Recover, CompleteKeyAdd, CompleteKeyRevoke, UpdateProfile
<1> QED
  BY ONLY <1>1, <1>2, <1>3, <1>4, <1>5, <1>6 DEF Handlers

-----------------------------------------------------------------------------
(***************************************************************************)
(* The invariant of one request q: of its row r, its closure t, what it    *)
(* served (sv, loosely lo), its commits c, the open intents O, and of the  *)
(* history sn, M, B (seen, met, rebound) and the repository bd of its name.*)
(***************************************************************************)

\* Where a request, its handler and its closure are
Control(r, s, sv, c) ==
  /\ r.phase \in {"none", "waiting", "queued"} => s = <<>>
  /\ r.phase \in {"none", "waiting"} => sv = {} /\ r.public = FALSE
  /\ r.phase # "done" => r.answer = "none"
  /\ r.phase \in {"waiting", "queued"} => r.handler.jobs # <<>>
  /\ r.phase \in {"waiting", "queued", "running"} =>
       JobsGood(r.handler.kind, r.handler.jobs) /\ EarlyGood(r.handler.kind, r.handler.early)
  /\ r.phase = "running" =>
       JobGood(r.handler.kind, s, c) /\ Follow(r.handler.kind, s, r.handler.jobs) /\ s[1] # "stream"
  /\ r.phase = "done" /\ s # <<>> =>
       JobGood(r.handler.kind, s, c) /\ (r.answer = "408" \/ (r.answer = "ok" /\ s[1] = "stream"))

\* What was committed so far, and what the answer says of it
AfterCommit(kind) == {"ok", "408"} \cup Unsure(kind)
Told(q, r, s, c, O) ==
  /\ r.handler.kind \notin ChangeKinds => c = 0 /\ q \notin O
  /\ c \in {0, 1}
  /\ r.phase \in {"none", "waiting", "queued"} => c = 0 /\ q \notin O
  /\ s # <<>> => q \notin O /\ (c = 1 => s[1] \in After) /\ (s[1] \in ChangeKinds => r.confirm = "yes")
  /\ r.confirm = "no" => c = 0 /\ q \notin O
  /\ r.phase = "running" => s # <<>>
  /\ q \in O => c = 0 /\ r.answer \in {"408"} \cup Unsure(r.handler.kind)
  /\ c = 1 /\ r.phase = "done" => r.answer \in AfterCommit(r.handler.kind)
  /\ r.answer = "ok" /\ r.confirm = "yes" /\ r.handler.kind \in ChangeKinds => c = 1

\* The request has resolved its name, to the repository that it reads by identifier.
Resolved(q, repo, sn, M, B, bd) ==
  /\ q \in M
  /\ repo # NoRepo
  /\ sn[repo] \in Shown
  /\ bd = repo \/ q \in B

\* What was served was readable meanwhile, or was looked up by a name that led elsewhere.
Fine(q, x, public, lo, sn, B) ==
  /\ x \in Repos
  /\ \/ sn[x] = "public"
     \/ sn[x] \in Shown /\ public = FALSE
     \/ x \in lo /\ q \in B

\* Nothing is read before the name is resolved, and what is read was readable.
Reads(q, r, t, sv, lo, sn, M, B, bd) ==
  /\ r.phase \in {"queued", "running"} \/ r.answer \in {"ok", "409"} =>
       \A x \in sv : Fine(q, x, r.public, lo, sn, B)
  /\ r.handler.kind # "file" => r.public = FALSE
  /\ r.phase = "waiting" /\ r.handler.kind \in NameKinds => ToCome(r.handler.jobs)
  /\ r.phase \in {"queued", "running"} /\ r.handler.kind \in NameKinds =>
       \/ Resolved(q, t.repo, sn, M, B, bd)
       \/ r.phase = "running" /\ t.operations[1] = "resolve"
       \/ /\ ToCome(r.handler.jobs)
          /\ r.phase = "running" => Len(t.operations) = 1 /\ t.operations[1] \in {"actor", "manage"}
  /\ r.handler.kind = "file" /\ r.phase \in {"queued", "running"} /\ sv # {} =>
       /\ \A i \in 1..Len(t.operations) : t.operations[i] \notin {"resolve", "read", "name"}
       /\ Streams(r.handler.jobs)
  /\ r.handler.kind = "file" /\ r.phase \in {"queued", "running"} /\ r.public # FALSE => Streams(r.handler.jobs)
  /\ r.handler.kind = "file" /\ r.phase = "running" /\ t.operations[1] = "read" /\ r.public # FALSE =>
       sn[t.repo] = "public"
  /\ r.answer \in {"ok", "409"} /\ r.confirm = "yes" /\ r.handler.kind \in NameKinds \cup NamedChanges => q \in M

\* A request, its closure and its effects fit together.
Fit(q, r, t, sv, lo, c, O, sn, M, B, bd) ==
  /\ Control(r, t.operations, sv, c)
  /\ Told(q, r, t.operations, c, O)
  /\ Reads(q, r, t, sv, lo, sn, M, B, bd)

\* The rows of a request that is answered, whose job goes on, or ends with an error, and of one
\* that has asked who the actor is, starts its next job, or is admitted
AnsweredRow(r, a) ==
  [r EXCEPT !.phase = "done", !.answer = a, !.handler = [NoHandler EXCEPT !.kind = r.handler.kind]]
ContinuedRow(r, rest, public) ==
  IF r.phase # "running" THEN r
  ELSE IF rest # <<>> THEN [r EXCEPT !.public = public]
  ELSE IF r.handler.jobs # <<>> THEN [r EXCEPT !.public = public, !.phase = "queued"]
  ELSE [AnsweredRow(r, "ok") EXCEPT !.public = public]
StoppedRow(r, a) == IF r.phase = "running" THEN AnsweredRow(r, a) ELSE r
ActorRow(r, actor) == [r EXCEPT !.actor = actor, !.phase = IF @ = "running" THEN "queued" ELSE @]
StartedRow(r) ==
  IF Head(r.handler.jobs) = <<"stream">> THEN AnsweredRow(r, "ok")
  ELSE [r EXCEPT !.phase = "running", !.handler.jobs = Tail(@)]
AdmittedRow(r) ==
  [r EXCEPT !.phase = "queued", !.handler.jobs = IF r.cookie THEN <<<<"actor">>>> \o @ ELSE @]

\* What an answer, and what a job that goes on, make of a row
Became(r, a, p) ==
  /\ p \in RequestRow
  /\ p.phase = "done" /\ p.answer = a
  /\ p.handler.kind = r.handler.kind /\ p.name = r.name /\ p.confirm = r.confirm
Follows(r, rest, public, p) ==
  /\ r.phase # "running" => p = r
  /\ r.phase = "running" /\ rest = <<>> /\ r.handler.jobs = <<>> => Became(r, "ok", p) /\ p.public = public
  /\ r.phase = "running" /\ ~(rest = <<>> /\ r.handler.jobs = <<>>) =>
       /\ p \in RequestRow
       /\ p.phase = IF rest = <<>> THEN "queued" ELSE "running"
       /\ p.handler = r.handler /\ p.name = r.name /\ p.confirm = r.confirm
       /\ p.answer = r.answer /\ p.public = public

LEMMA DoneHandler ==
  ASSUME NEW r \in RequestRow, NEW h, h = [NoHandler EXCEPT !.kind = r.handler.kind]
  PROVE  h \in HandlerRow /\ h.kind = r.handler.kind
<1>1. NoHandler \in HandlerRow
  BY DEF NoHandler, Get, Form, HandlerRow, HandlerKinds, NameKinds
<1>2. r.handler.kind \in HandlerKinds
  BY DEF RequestRow, HandlerRow
<1> QED
  BY <1>1, <1>2 DEF HandlerRow

LEMMA AnswerRow ==
  ASSUME NEW r \in RequestRow, NEW a \in Answers
  PROVE  Became(r, a, AnsweredRow(r, a)) /\ AnsweredRow(r, a).public = r.public
<1> DEFINE h == [NoHandler EXCEPT !.kind = r.handler.kind]
           p == AnsweredRow(r, a)
<1>1. h \in HandlerRow /\ h.kind = r.handler.kind
  BY DoneHandler
<1>2. p = [r EXCEPT !.phase = "done", !.answer = a, !.handler = h]
  BY DEF AnsweredRow
<1> HIDE DEF h, p
<1>3. Became(r, a, p) /\ p.public = r.public
  BY <1>1, <1>2 DEF RequestRow, Became, Phases
<1> QED
  BY <1>3 DEF p

LEMMA ContinueRow ==
  ASSUME NEW r \in RequestRow, NEW rest, NEW public \in BOOLEAN
  PROVE  /\ Follows(r, rest, public, ContinuedRow(r, rest, public))
         /\ ContinuedRow(r, rest, public) \in RequestRow
         /\ ContinuedRow(r, rest, public).name = r.name
<1> DEFINE p == ContinuedRow(r, rest, public)
<1>1. CASE r.phase # "running"
  BY <1>1 DEF Follows, ContinuedRow
<1>2. CASE r.phase = "running" /\ rest # <<>>
  <2>1. p = [r EXCEPT !.public = public]
    BY <1>2 DEF ContinuedRow
  <2> HIDE DEF p
  <2>2. Follows(r, rest, public, p) /\ p \in RequestRow /\ p.name = r.name
    BY <1>2, <2>1 DEF Follows, RequestRow, Phases
  <2> QED
    BY <2>2 DEF p
<1>3. CASE r.phase = "running" /\ rest = <<>> /\ r.handler.jobs # <<>>
  <2>1. p = [r EXCEPT !.public = public, !.phase = "queued"]
    BY <1>3 DEF ContinuedRow
  <2> HIDE DEF p
  <2>2. Follows(r, rest, public, p) /\ p \in RequestRow /\ p.name = r.name
    BY <1>3, <2>1 DEF Follows, RequestRow, Phases
  <2> QED
    BY <2>2 DEF p
<1>4. CASE r.phase = "running" /\ rest = <<>> /\ r.handler.jobs = <<>>
  <2> DEFINE x == AnsweredRow(r, "ok")
  <2>1. Became(r, "ok", x)
    <3>1. "ok" \in Answers
      BY DEF Answers
    <3> QED
      BY <3>1, AnswerRow
  <2>2. p = [x EXCEPT !.public = public]
    BY <1>4 DEF ContinuedRow
  <2> HIDE DEF p, x
  <2>3. Became(r, "ok", p) /\ p.public = public
    BY <2>1, <2>2 DEF Became, RequestRow
  <2>4. Follows(r, rest, public, p) /\ p \in RequestRow /\ p.name = r.name
    BY <1>4, <2>3 DEF Follows, Became
  <2> QED
    BY <2>4 DEF p
<1> QED
  BY <1>1, <1>2, <1>3, <1>4

\* A request is answered; its closure runs on, if there is one.
Answerable(r, t, sv, c, a) ==
  /\ a # "none" /\ r.phase # "done"
  /\ t.operations # <<>> => a = "408"
  /\ c = 1 => a = "408"
  /\ a = "ok" => r.confirm = "no" \/ r.handler.kind \notin ChangeKinds \cup NameKinds
  /\ a = "409" => r.handler.kind \notin NameKinds \cup NamedChanges
  /\ a \in {"ok", "409"} => sv = {}

LEMMA AnswerHolds ==
  ASSUME NEW q, NEW r \in RequestRow, NEW t \in TaskRow, NEW sv, NEW lo, NEW c \in Nat, NEW O, NEW sn, NEW M, NEW B,
         NEW bd, NEW a \in Answers,
         Fit(q, r, t, sv, lo, c, O, sn, M, B, bd), Answerable(r, t, sv, c, a)
  PROVE  /\ AnsweredRow(r, a) \in RequestRow /\ AnsweredRow(r, a).name = r.name /\ AnsweredRow(r, a).phase = "done"
         /\ Fit(q, AnsweredRow(r, a), t, sv, lo, c, O, sn, M, B, bd)
<1> DEFINE p == AnsweredRow(r, a)
<1>1. Became(r, a, p) /\ p.public = r.public
  BY AnswerRow
<1> HIDE DEF p
<1> USE DEF Fit, Answerable
<1>2. /\ r.phase \in Phases /\ p.phase = "done" /\ p.answer = a /\ p.handler.kind = r.handler.kind
      /\ p.confirm = r.confirm /\ r.confirm \in {"yes", "no"}
  BY <1>1 DEF RequestRow, Became
<1>3. Control(p, t.operations, sv, c)
  BY <1>2 DEF Control, Phases
<1>4. Told(q, p, t.operations, c, O)
  BY <1>2 DEF Told, Control, AfterCommit, Unsure
<1>5. Reads(q, p, t, sv, lo, sn, M, B, bd)
  <2>1. a \in {"ok", "409"} => r.confirm = "no" \/ r.handler.kind \notin NameKinds \cup NamedChanges
    BY DEF ChangeKinds, NamedChanges
  <2> QED
    BY <1>2, <1>1, <2>1 DEF Reads
<1> QED
  BY <1>3, <1>4, <1>5, <1>1 DEF p, Became

\* A closure ends with an error, which is the answer if the request still waits for it.
Stoppable(q, r, t, u, c, O, M, a, Q) ==
  /\ u.operations = <<>>
  /\ t.operations # <<>>
  /\ a \notin {"none", "ok"}
  /\ c = 1 => a \in Unsure(r.handler.kind)
  /\ a = "409" => r.handler.kind \notin NameKinds
  /\ a = "409" /\ r.handler.kind \in NamedChanges => q \in M
  /\ q \in Q => q \in O \/ (t.operations[1] = "intent" /\ a \in Unsure(r.handler.kind))
  /\ q \in O => q \in Q

StopFit(q, r, t, u, sv, lo, c, O, sn, M, B, bd, a, Q) ==
  Fit(q, r, t, sv, lo, c, O, sn, M, B, bd) /\ Stoppable(q, r, t, u, c, O, M, a, Q)

LEMMA StopHolds ==
  ASSUME NEW q, NEW r \in RequestRow, NEW t \in TaskRow, NEW sv, NEW lo, NEW c \in Nat, NEW O, NEW sn, NEW M, NEW B,
         NEW bd, NEW a \in Answers, NEW u \in TaskRow, NEW Q,
         StopFit(q, r, t, u, sv, lo, c, O, sn, M, B, bd, a, Q)
  PROVE  /\ StoppedRow(r, a) \in RequestRow /\ StoppedRow(r, a).name = r.name
         /\ StoppedRow(r, a).phase \notin {"queued", "running"}
         /\ Fit(q, StoppedRow(r, a), u, sv, lo, c, Q, sn, M, B, bd)
<1> DEFINE p == StoppedRow(r, a)
<1>1. /\ r.phase = "running" => Became(r, a, p) /\ p.public = r.public
      /\ r.phase # "running" => p = r
  BY AnswerRow DEF StoppedRow
<1> HIDE DEF p
<1> USE DEF StopFit, Fit, Stoppable
<1>2. /\ r.phase \in {"running", "done"}
      /\ JobGood(r.handler.kind, t.operations, c)
      /\ 1 \in 1..Len(t.operations)
      /\ t.operations[1] \in Allowed(r.handler.kind)
      /\ r.handler.kind \in HandlerKinds
  <2>1. r.phase \in {"running", "done"} /\ r.handler.kind \in HandlerKinds
    BY DEF Control, RequestRow, HandlerRow, Phases
  <2>2. JobGood(r.handler.kind, t.operations, c)
    BY <2>1 DEF Control
  <2>3. 1 \in 1..Len(t.operations)
    BY HeadTail DEF TaskRow
  <2> QED
    BY <2>1, <2>2, <2>3 DEF JobGood
<1>3. t.operations[1] = "intent" => r.handler.kind \in ChangeKinds /\ c = 0 /\ r.confirm = "yes"
  BY <1>2 DEF Told, Allowed, HandlerKinds, ChangeKinds, NameKinds, After
<1>4. c = 1 => r.handler.kind \in ChangeKinds
  BY DEF Told
<1>5. Control(p, u.operations, sv, c)
  BY <1>2, <1>1 DEF Control, Became
<1>6. r.phase = "done" => r.answer = "408" \/ (r.answer = "ok" /\ t.operations[1] = "stream")
  BY DEF Control
<1>7. Told(q, p, u.operations, c, Q)
  <2>1. CASE r.phase = "running"
    BY <1>2, <1>3, <1>4, <1>1, <2>1 DEF Told, Became, AfterCommit, ChangeKinds
  <2>2. CASE r.phase = "done"
    BY <1>2, <1>3, <1>4, <1>6, <1>1, <2>2 DEF Told, AfterCommit, ChangeKinds
  <2> QED
    BY <1>2, <2>1, <2>2
<1>8. Reads(q, p, u, sv, lo, sn, M, B, bd)
  <2>1. CASE r.phase = "running"
    BY <1>1, <2>1 DEF Reads, Became
  <2>2. CASE r.phase = "done"
    BY <1>1, <2>2 DEF Reads
  <2> QED
    BY <1>2, <2>1, <2>2
<1>9. p \in RequestRow /\ p.name = r.name /\ p.phase \notin {"queued", "running"}
  BY <1>2, <1>1 DEF Became
<1> QED
  BY <1>5, <1>7, <1>8, <1>9 DEF p

\* A closure goes on: one operation of it is done.
Goes(q, r, t, u, sv, tv, mo, c, d, public, sn, M, B, bd) ==
  /\ t.operations # <<>> /\ t.operations[1] \notin {"actor", "auth", "stream"}
  /\ u.operations = Tail(t.operations)
  /\ r.handler.kind \in ChangeKinds => d = 1 /\ r.confirm = "yes"
  /\ r.handler.kind \notin ChangeKinds => d = c
  /\ r.handler.kind \in NamedChanges => q \in M
  /\ r.handler.kind # "file" => public = FALSE
  /\ r.phase = "running" => \A x \in tv : Fine(q, x, public, mo, sn, B)
  /\ r.handler.kind \in NameKinds /\ r.phase = "running" =>
       \/ Resolved(q, u.repo, sn, M, B, bd)
       \/ ToCome(r.handler.jobs) /\ Len(t.operations) = 1
  /\ r.handler.kind = "file" => tv = sv \/ t.operations[1] \in {"read", "name"}
  /\ r.handler.kind = "file" /\ t.operations[1] = "resolve" /\ public # FALSE => sn[u.repo] = "public"

LEMMA ContinueHolds ==
  ASSUME NEW q, NEW r \in RequestRow, NEW t \in TaskRow, NEW sv, NEW lo, NEW c \in Nat, NEW O, NEW sn, NEW M, NEW B,
         NEW bd, NEW u \in TaskRow, NEW tv, NEW mo, NEW d \in Nat, NEW public \in BOOLEAN,
         Fit(q, r, t, sv, lo, c, O, sn, M, B, bd), Goes(q, r, t, u, sv, tv, mo, c, d, public, sn, M, B, bd)
  PROVE  /\ ContinuedRow(r, u.operations, public) \in RequestRow
         /\ ContinuedRow(r, u.operations, public).name = r.name
         /\ ContinuedRow(r, u.operations, public).phase \in {"queued", "running"} => r.phase = "running"
         /\ Fit(q, ContinuedRow(r, u.operations, public), u, tv, mo, d, O, sn, M, B, bd)
<1> DEFINE p == ContinuedRow(r, u.operations, public)
<1>1. Follows(r, u.operations, public, p) /\ p \in RequestRow /\ p.name = r.name
  BY ContinueRow
<1> HIDE DEF p
<1> USE DEF Fit, Goes
<1> DEFINE kind == r.handler.kind
           s == t.operations
           jobs == r.handler.jobs
           rest == u.operations
<1>2. /\ r.phase \in {"running", "done"}
      /\ JobGood(kind, s, c)
      /\ kind \in HandlerKinds
  <2>1. r.phase \in {"running", "done"} /\ kind \in HandlerKinds
    BY DEF Control, RequestRow, HandlerRow, Phases
  <2>2. JobGood(kind, s, c)
    BY <2>1 DEF Control
  <2> QED
    BY <2>1, <2>2
<1>3. /\ s \in Seq(Operations) /\ s # <<>> /\ Len(s) \in Nat /\ Len(s) >= 1 /\ 1 \in 1..Len(s)
      /\ rest \in Seq(Operations)
      /\ Len(rest) = Len(s) - 1
      /\ \A i \in 1..Len(rest) : i + 1 \in 1..Len(s) /\ rest[i] = s[i + 1]
      /\ rest = <<>> <=> Len(s) = 1
  BY HeadTail DEF TaskRow
<1>4. s[1] \in ChangeKinds => kind \in ChangeKinds
  BY <1>2, <1>3 DEF JobGood, Allowed, HandlerKinds, NameKinds, ChangeKinds
<1>5. c = 1 => kind \in ChangeKinds
  BY DEF Told
<1>6. rest # <<>> =>
        /\ JobGood(kind, rest, d)
        /\ Follow(kind, s, jobs) => Follow(kind, rest, jobs)
        /\ rest[1] \notin {"actor", "auth", "stream"} \cup ChangeKinds
        /\ rest[1] \in Allowed(kind)
  <2> SUFFICES ASSUME rest # <<>>
               PROVE  /\ JobGood(kind, rest, d)
                      /\ Follow(kind, s, jobs) => Follow(kind, rest, jobs)
                      /\ rest[1] \notin {"actor", "auth", "stream"} \cup ChangeKinds
                      /\ rest[1] \in Allowed(kind)
    OBVIOUS
  <2>1. Tail(s) # <<>> /\ rest = Tail(s)
    OBVIOUS
  <2>2. c = 1 \/ s[1] \in ChangeKinds => d = 1
    BY <1>4, <1>5
  <2>3. /\ JobGood(kind, Tail(s), d)
        /\ Follow(kind, s, jobs) => Follow(kind, Tail(s), jobs)
        /\ Tail(s)[1] \notin {"actor", "auth", "stream"} \cup ChangeKinds
    BY <1>2, <1>3, <2>1, <2>2, TailJob
  <2>4. 1 \in 1..Len(rest)
    BY <1>3, <2>1
  <2> QED
    BY <2>1, <2>3, <2>4 DEF JobGood
<1>10. /\ d = 1 => r.confirm = "yes"
       /\ r.confirm \in {"yes", "no"} /\ p.confirm = r.confirm
       /\ rest # <<>> => rest[1] \notin ChangeKinds
  <2>1. d = 1 => kind \in ChangeKinds
    BY <1>5
  <2>2. r.confirm \in {"yes", "no"}
    BY DEF RequestRow
  <2>3. p.confirm = r.confirm
    BY <1>2, <1>1 DEF Follows, Became
  <2> QED
    BY <1>6, <2>1, <2>2, <2>3
<1> HIDE DEF kind, s, jobs, rest
<1>7. p.phase \in {"queued", "running"} => r.phase = "running"
  BY <1>2, <1>1 DEF Follows
<1> SUFFICES /\ Control(p, rest, tv, d)
             /\ Told(q, p, rest, d, O)
             /\ Reads(q, p, u, tv, mo, sn, M, B, bd)
  BY <1>1, <1>7 DEF p, rest
<1>8. CASE r.phase = "done"
  <2>1. p = r /\ r.answer = "408"
    BY <1>3, <1>8, <1>1 DEF Follows, Control, s
  <2>2. Control(p, rest, tv, d)
    BY <1>6, <1>8, <2>1 DEF Control, kind, rest
  <2>3. Told(q, p, rest, d, O)
    <3>1. q \notin O /\ d \in {0, 1} /\ (kind \notin ChangeKinds => d = 0)
      BY <1>3 DEF Told, s, kind
    <3>2. rest # <<>> /\ d = 1 => rest[1] \in After
      BY <1>2, <1>6, <3>1 DEF Allowed, HandlerKinds, NameKinds, ChangeKinds, After
    <3> QED
      BY <1>8, <1>10, <2>1, <3>1, <3>2 DEF Told, AfterCommit, kind
  <2>4. Reads(q, p, u, tv, mo, sn, M, B, bd)
    BY <1>8, <2>1 DEF Reads
  <2> QED
    BY <2>2, <2>3, <2>4
<1>9. CASE r.phase = "running"
  <2>1. Follow(kind, s, jobs) /\ JobsGood(kind, jobs) /\ EarlyGood(kind, r.handler.early) /\ r.answer = "none"
    BY <1>9 DEF Control, kind, s, jobs
  <2>2. q \notin O /\ d \in {0, 1} /\ (kind \notin ChangeKinds => d = 0)
    BY <1>3 DEF Told, s, kind
  <2>3. rest # <<>> /\ d = 1 => rest[1] \in After
    BY <1>2, <1>6, <2>2 DEF Allowed, HandlerKinds, NameKinds, ChangeKinds, After
  <2>4. ASSUME kind = "file", tv # {}
        PROVE  /\ \A i \in 1..Len(rest) : rest[i] \notin {"resolve", "read", "name"}
               /\ Streams(jobs)
    <3>1. CASE s[1] \in {"read", "name"}
      <4>1. Len(s) = 1 /\ Streams(jobs)
        BY <1>2, <1>3, <2>1, <2>4, <3>1 DEF JobGood, Follow
      <4> QED
        BY <1>3, <4>1
    <3>2. CASE tv = sv
      <4>1. (\A i \in 1..Len(s) : s[i] \notin {"resolve", "read", "name"}) /\ Streams(jobs)
        BY <1>9, <2>4, <3>2 DEF Reads, kind, s, jobs
      <4> QED
        BY <1>3, <4>1
    <3> QED
      BY <2>4, <3>1, <3>2 DEF kind, s
  <2>5. ASSUME kind = "file", rest # <<>>, rest[1] = "read", public # FALSE PROVE sn[u.repo] = "public"
    <3>1. s[1] \notin {"actor", "auth", "stream", "read", "name"}
      BY <1>2, <1>3, <2>5 DEF JobGood
    <3>2. s[1] = "resolve"
      BY <1>2, <1>3, <2>5, <3>1 DEF JobGood, Allowed, ChangeKinds
    <3> QED
      BY <2>5, <3>2 DEF kind, s
  <2>6. kind = "file" => Streams(jobs)
    <3>1. kind = "file" => s[1] \in {"resolve", "read", "name"}
      BY <1>2, <1>3 DEF JobGood, Allowed, ChangeKinds, s
    <3> QED
      BY <1>3, <2>1, <3>1 DEF Follow
  <2>7. CASE rest = <<>> /\ jobs = <<>>
    <3>1. Became(r, "ok", p) /\ p.public = public
      BY <1>9, <1>1, <2>7 DEF Follows, rest, jobs
    <3>2. p.phase = "done" /\ p.answer = "ok" /\ p.handler.kind = kind
      BY <3>1 DEF Became, kind
    <3>7. kind \in ChangeKinds => d = 1
      BY DEF kind
    <3>3. kind \in NameKinds => q \in M
      <4>1. ~ToCome(jobs)
        BY <2>7, EmptySeq DEF ToCome
      <4> QED
        BY <1>9, <4>1 DEF Resolved, kind, jobs
    <3>4. Control(p, rest, tv, d)
      BY <2>7, <3>2 DEF Control
    <3>5. Told(q, p, rest, d, O)
      BY <1>9, <1>10, <2>2, <2>7, <3>2, <3>7 DEF Told, AfterCommit
    <3>6. Reads(q, p, u, tv, mo, sn, M, B, bd)
      BY <1>9, <3>1, <3>2, <3>3 DEF Reads, kind
    <3> QED
      BY <3>4, <3>5, <3>6
  <2>8. CASE rest = <<>> /\ jobs # <<>>
    <3>1. /\ p \in RequestRow /\ p.phase = "queued" /\ p.handler = r.handler
          /\ p.answer = "none" /\ p.public = public
      BY <1>9, <1>1, <2>1, <2>8 DEF Follows, rest, jobs
    <3>2. kind \notin ChangeKinds
      <4>1. kind \in ChangeKinds => s[1] \in ChangeKinds \cup After
        BY <1>2, <1>3 DEF JobGood, Allowed, ChangeKinds, After, s
      <4> QED
        BY <1>3, <2>1, <2>8, <4>1 DEF Follow
    <3>3. Control(p, rest, tv, d)
      BY <2>1, <2>8, <3>1 DEF Control, kind, jobs
    <3>4. Told(q, p, rest, d, O)
      BY <1>10, <2>2, <2>8, <3>1, <3>2 DEF Told, kind
    <3>5. Reads(q, p, u, tv, mo, sn, M, B, bd)
      BY <1>9, <2>4, <2>6, <3>1 DEF Reads, kind, jobs, rest
    <3> QED
      BY <3>3, <3>4, <3>5
  <2>9. CASE rest # <<>>
    <3>1. /\ p \in RequestRow /\ p.phase = "running" /\ p.handler = r.handler
          /\ p.answer = "none" /\ p.public = public
      BY <1>9, <1>1, <2>1, <2>9 DEF Follows, rest, jobs
    <3>2. Control(p, rest, tv, d)
      BY <1>6, <2>1, <2>9, <3>1 DEF Control, kind, jobs
    <3>3. Told(q, p, rest, d, O)
      BY <1>10, <2>2, <2>3, <2>9, <3>1 DEF Told, kind
    <3>4. kind \in NameKinds => Resolved(q, u.repo, sn, M, B, bd)
      <4>1. Len(s) # 1
        BY <1>3, <2>9
      <4> QED
        BY <1>9, <4>1 DEF kind, s
    <3>5. Reads(q, p, u, tv, mo, sn, M, B, bd)
      BY <1>9, <2>4, <2>5, <2>9, <2>6, <3>1, <3>4 DEF Reads, kind, jobs, rest
    <3> QED
      BY <3>2, <3>3, <3>5
  <2> QED
    BY <2>7, <2>8, <2>9
<1> QED
  BY <1>2, <1>8, <1>9

\* The closure that asks who the actor is ends; the handler goes on.
Asks(t, u) ==
  /\ t.operations # <<>> /\ t.operations[1] \in {"actor", "auth"}
  /\ u.operations = <<>> /\ u.repo = t.repo

LEMMA ActorHolds ==
  ASSUME NEW q, NEW r \in RequestRow, NEW t \in TaskRow, NEW sv, NEW lo, NEW c \in Nat, NEW O, NEW sn, NEW M, NEW B,
         NEW bd, NEW actor \in BOOLEAN, NEW u \in TaskRow,
         Fit(q, r, t, sv, lo, c, O, sn, M, B, bd),
         Asks(t, u)
  PROVE  /\ ActorRow(r, actor) \in RequestRow /\ ActorRow(r, actor).name = r.name
         /\ ActorRow(r, actor).phase \in {"queued", "running"} => r.phase = "running"
         /\ Fit(q, ActorRow(r, actor), u, sv, lo, c, O, sn, M, B, bd)
<1> DEFINE p == ActorRow(r, actor)
<1>1. p = [r EXCEPT !.actor = actor, !.phase = IF r.phase = "running" THEN "queued" ELSE r.phase]
  BY DEF ActorRow
<1> HIDE DEF p
<1> USE DEF Fit, Asks
<1>2. /\ p \in RequestRow /\ p.name = r.name /\ p.handler = r.handler /\ p.answer = r.answer
      /\ p.public = r.public /\ p.confirm = r.confirm
      /\ p.phase = IF r.phase = "running" THEN "queued" ELSE r.phase
  BY <1>1 DEF RequestRow, Phases
<1>3. /\ r.phase \in {"running", "done"}
      /\ 1 \in 1..Len(t.operations)
      /\ c # 1
      /\ q \notin O
  <2>1. r.phase \in {"running", "done"}
    BY DEF Control, RequestRow, Phases
  <2>2. 1 \in 1..Len(t.operations)
    BY HeadTail DEF TaskRow
  <2> QED
    BY <2>1, <2>2 DEF Told, After
<1>4. r.phase = "running" => r.handler.jobs # <<>>
  BY <1>3 DEF Control, Follow
<1>5. c = 0
  BY <1>3 DEF Told
<1>6. Control(p, u.operations, sv, c)
  BY <1>2, <1>3, <1>4 DEF Control
<1>7. Told(q, p, u.operations, c, O)
  BY <1>2, <1>3, <1>5 DEF Told
<1>8. \A i \in 1..Len(u.operations) : FALSE
  <2>1. Len(<<>>) = 0
    OBVIOUS
  <2> QED
    BY <2>1
<1>9. Reads(q, p, u, sv, lo, sn, M, B, bd)
  <2>1. CASE r.phase = "running"
    <3>1. r.handler.kind \in NameKinds => Resolved(q, t.repo, sn, M, B, bd) \/ ToCome(r.handler.jobs)
      BY <2>1 DEF Reads
    <3>2. Resolved(q, u.repo, sn, M, B, bd) <=> Resolved(q, t.repo, sn, M, B, bd)
      OBVIOUS
    <3>3. p.phase = "queued"
      BY <1>2, <2>1
    <3>4. \A x \in sv : Fine(q, x, p.public, lo, sn, B)
      BY <1>2, <2>1 DEF Reads
    <3>5. r.handler.kind = "file" /\ sv # {} => Streams(r.handler.jobs)
      BY <2>1 DEF Reads
    <3>6. r.handler.kind = "file" /\ r.public # FALSE => Streams(r.handler.jobs)
      BY <2>1 DEF Reads
    <3>7. r.answer \in {"ok", "409"} /\ r.confirm = "yes" /\ r.handler.kind \in NameKinds \cup NamedChanges => q \in M
      BY DEF Reads
    <3>8. r.handler.kind # "file" => r.public = FALSE
      BY DEF Reads
    <3> QED
      BY <1>2, <1>8, <3>1, <3>2, <3>3, <3>4, <3>5, <3>6, <3>7, <3>8 DEF Reads
  <2>2. CASE r.phase = "done"
    BY <1>2, <2>2 DEF Reads
  <2> QED
    BY <1>3, <2>1, <2>2
<1> QED
  BY <1>2, <1>3, <1>6, <1>7, <1>9 DEF p

\* The next job of a handler starts.
LEMMA StartHolds ==
  ASSUME NEW q, NEW r \in RequestRow, NEW t \in TaskRow, NEW sv, NEW lo, NEW c \in Nat, NEW O, NEW sn, NEW M, NEW B,
         NEW bd, NEW u \in TaskRow,
         Fit(q, r, t, sv, lo, c, O, sn, M, B, bd), r.phase = "queued",
         u.operations = Head(r.handler.jobs), u.repo = t.repo,
         r.confirm = "yes" \/ u.operations \in {<<"actor">>, <<"auth">>}
  PROVE  /\ StartedRow(r) \in RequestRow /\ StartedRow(r).name = r.name
         /\ Fit(q, StartedRow(r), u, sv, lo, c, O, sn, M, B, bd)
<1> DEFINE p == StartedRow(r)
<1>1. /\ Head(r.handler.jobs) = <<"stream">> => Became(r, "ok", p) /\ p.public = r.public
      /\ Head(r.handler.jobs) # <<"stream">> =>
           p = [r EXCEPT !.phase = "running", !.handler.jobs = Tail(@)]
  <2>1. "ok" \in Answers
    BY DEF Answers
  <2> QED
    BY <2>1, AnswerRow DEF StartedRow
<1> HIDE DEF p
<1> USE DEF Fit
<1> DEFINE kind == r.handler.kind
           jobs == r.handler.jobs
           s == u.operations
           rest == Tail(jobs)
<1>2. /\ kind \in HandlerKinds
      /\ jobs \in Seq(Seq(Operations)) /\ jobs # <<>>
      /\ JobsGood(kind, jobs) /\ EarlyGood(kind, r.handler.early)
      /\ r.answer = "none"
      /\ c = 0 /\ q \notin O
      /\ s = Head(jobs)
      /\ r.confirm \in {"yes", "no"}
  BY DEF RequestRow, HandlerRow, Control, Told
<1>3. JobsGood(kind, rest) /\ JobGood(kind, s, c) /\ Follow(kind, s, rest)
  BY <1>2, TailJobs
<1>4. /\ rest \in Seq(Seq(Operations))
      /\ Len(jobs) \in Nat /\ Len(jobs) >= 1 /\ s = jobs[1]
      /\ Len(rest) = Len(jobs) - 1
      /\ \A i \in 1..Len(rest) : i + 1 \in 1..Len(jobs) /\ rest[i] = jobs[i + 1]
  BY <1>2, HeadTail
<1>5. /\ s \in Seq(Operations) /\ s # <<>> /\ 1 \in 1..Len(s) /\ s[1] \in Allowed(kind)
  <2>1. s # <<>> /\ s \in Seq(Operations)
    BY <1>3 DEF JobGood, TaskRow
  <2>2. 1 \in 1..Len(s)
    BY <2>1, HeadTail
  <2> QED
    BY <1>3, <2>1, <2>2 DEF JobGood
<1>9. s[1] \in ChangeKinds => r.confirm = "yes"
  <2>1. <<"actor">>[1] = "actor" /\ <<"auth">>[1] = "auth"
    OBVIOUS
  <2> QED
    BY <2>1 DEF ChangeKinds
<1>6. s[1] = "stream" => s = <<"stream">>
  <2> SUFFICES ASSUME s[1] = "stream" PROVE s = <<"stream">>
    OBVIOUS
  <2>1. Len(s) = 1
    BY <1>3, <1>5 DEF JobGood
  <2>2. <<"stream">> \in Seq(Operations) /\ Len(<<"stream">>) = 1 /\ <<"stream">>[1] = "stream"
    BY DEF Operations
  <2> QED
    BY <1>5, <2>1, <2>2, SeqEqual
<1> HIDE DEF kind, jobs, s, rest
<1>7. CASE jobs[1] = <<"stream">>
  <2>1. Became(r, "ok", p) /\ p.public = r.public
    BY <1>2, <1>4, <1>7, <1>1 DEF jobs
  <2>2. s = <<"stream">> /\ s[1] = "stream"
    BY <1>4, <1>7
  <2>3. kind \in NameKinds
    BY <1>2, <1>5, <2>2 DEF Allowed, HandlerKinds, ChangeKinds, NameKinds
  <2>4. /\ p \in RequestRow /\ p.name = r.name /\ p.phase = "done" /\ p.answer = "ok"
        /\ p.handler.kind = kind /\ p.confirm = r.confirm
    BY <2>1 DEF Became, kind
  <2>5. kind \notin ChangeKinds
    BY <2>3 DEF ChangeKinds, NameKinds
  <2>6. Control(p, s, sv, c)
    BY <1>3, <2>2, <2>4 DEF Control
  <2>7. Told(q, p, s, c, O)
    BY <1>2, <1>9, <2>4, <2>5 DEF Told, AfterCommit
  <2>8. ~ToCome(jobs)
    <3> SUFFICES ASSUME NEW n \in 1..Len(jobs), jobs[n][1] = "resolve",
                        \A m \in 1..(n - 1) : Len(jobs[m]) = 1 /\ jobs[m][1] \in {"actor", "manage"}
                 PROVE  FALSE
      BY DEF ToCome
    <3>1. jobs[1][1] = "stream"
      BY <1>4, <2>2
    <3>2. n # 1
      BY <3>1
    <3>3. 1 \in 1..(n - 1)
      BY <1>4, <3>2
    <3> QED
      BY <3>1, <3>3
  <2>9. q \in M
    BY <2>3, <2>8 DEF Reads, Resolved, kind, jobs
  <2>10. Reads(q, p, u, sv, lo, sn, M, B, bd)
    BY <2>1, <2>4, <2>9 DEF Reads, kind
  <2> QED
    BY <2>4, <2>6, <2>7, <2>10 DEF s, p
<1>8. CASE jobs[1] # <<"stream">>
  <2>1. p = [r EXCEPT !.phase = "running", !.handler.jobs = rest]
    BY <1>2, <1>4, <1>8, <1>1 DEF jobs, rest
  <2>2. /\ p \in RequestRow /\ p.name = r.name /\ p.phase = "running" /\ p.answer = r.answer
        /\ p.public = r.public /\ p.confirm = r.confirm
        /\ p.handler.kind = kind /\ p.handler.jobs = rest /\ p.handler.early = r.handler.early
    <3>1. [r.handler EXCEPT !.jobs = rest] \in HandlerRow
      BY <1>4 DEF RequestRow, HandlerRow
    <3> QED
      BY <2>1, <3>1 DEF RequestRow, HandlerRow, Phases, kind
  <2>3. s[1] # "stream"
    BY <1>4, <1>6, <1>8
  <2>4. Control(p, s, sv, c)
    BY <1>2, <1>3, <2>2, <2>3 DEF Control
  <2>5. Told(q, p, s, c, O)
    BY <1>2, <1>5, <1>9, <2>2 DEF Told
  <2>6. ToCome(jobs) => s[1] = "resolve" \/ (ToCome(rest) /\ Len(s) = 1 /\ s[1] \in {"actor", "manage"})
    <3> SUFFICES ASSUME NEW n \in 1..Len(jobs), jobs[n][1] = "resolve",
                        \A m \in 1..(n - 1) : Len(jobs[m]) = 1 /\ jobs[m][1] \in {"actor", "manage"},
                        s[1] # "resolve"
                 PROVE  ToCome(rest) /\ Len(s) = 1 /\ s[1] \in {"actor", "manage"}
      BY DEF ToCome
    <3> DEFINE k == n - 1
    <3>1. k \in 1..Len(rest) /\ 1 \in 1..(n - 1) /\ rest[k] = jobs[n]
      <4>1. n # 1
        BY <1>4
      <4>2. k \in 1..Len(rest) /\ 1 \in 1..(n - 1) /\ k + 1 = n
        BY <1>4, <4>1
      <4> QED
        BY <1>4, <4>2
    <3>2. \A m \in 1..(k - 1) : m + 1 \in 1..(n - 1) /\ rest[m] = jobs[m + 1]
      <4>1. \A m \in 1..(k - 1) : m + 1 \in 1..(n - 1) /\ m \in 1..Len(rest)
        BY <1>4
      <4> QED
        BY <1>4, <4>1
    <3> HIDE DEF k
    <3>3. ToCome(rest)
      BY <3>1, <3>2 DEF ToCome
    <3>4. Len(jobs[1]) = 1 /\ jobs[1][1] \in {"actor", "manage"}
      BY <3>1
    <3> QED
      BY <1>4, <3>3, <3>4
  <2>7. kind = "file" /\ sv # {} => (\A i \in 1..Len(s) : s[i] \notin {"resolve", "read", "name"}) /\ Streams(rest)
    <3>1. kind = "file" /\ sv # {} => jobs[1] = <<"stream">>
      BY <1>4 DEF Reads, Streams, kind, jobs
    <3> QED
      BY <1>8, <3>1
  <2>8. kind \in NameKinds =>
          \/ Resolved(q, u.repo, sn, M, B, bd)
          \/ s[1] = "resolve"
          \/ ToCome(rest) /\ Len(s) = 1 /\ s[1] \in {"actor", "manage"}
    BY <2>6 DEF Reads, kind, jobs
  <2>9. kind = "file" => p.public = FALSE
    <3>1. kind = "file" /\ r.public # FALSE => Streams(jobs)
      BY DEF Reads, kind, jobs
    <3>2. kind = "file" /\ r.public # FALSE => jobs[1] = <<"stream">>
      BY <1>4, <3>1 DEF Streams
    <3> QED
      BY <1>8, <2>2, <3>2 DEF RequestRow
  <2>10. Reads(q, p, u, sv, lo, sn, M, B, bd)
    BY <1>2, <2>2, <2>7, <2>8, <2>9 DEF Reads, kind, s
  <2> QED
    BY <2>2, <2>4, <2>5, <2>10 DEF s, p
<1> QED
  BY <1>7, <1>8

\* A permit is given to a request that waits.
LEMMA AdmitHolds ==
  ASSUME NEW q, NEW r \in RequestRow, NEW t \in TaskRow, NEW sv, NEW lo, NEW c \in Nat, NEW O, NEW sn, NEW M, NEW B,
         NEW bd, Fit(q, r, t, sv, lo, c, O, sn, M, B, bd), r.phase = "waiting"
  PROVE  /\ AdmittedRow(r) \in RequestRow /\ AdmittedRow(r).name = r.name
         /\ t.operations = <<>>
         /\ Fit(q, AdmittedRow(r), t, sv, lo, c, O, sn, M, B, bd)
<1> USE DEF Fit
<1> DEFINE kind == r.handler.kind
           jobs == r.handler.jobs
           more == IF r.cookie THEN <<<<"actor">>>> \o jobs ELSE jobs
<1>1. /\ kind \in HandlerKinds
      /\ jobs \in Seq(Seq(Operations)) /\ jobs # <<>>
      /\ JobsGood(kind, jobs) /\ EarlyGood(kind, r.handler.early)
      /\ r.answer = "none"
      /\ c = 0 /\ q \notin O /\ t.operations = <<>> /\ sv = {} /\ r.public = FALSE
  BY DEF RequestRow, HandlerRow, Control, Told
<1>2. more \in Seq(Seq(Operations)) /\ more # <<>> /\ JobsGood(kind, more) /\ (ToCome(jobs) => ToCome(more))
  BY <1>1, ActorFirst
<1> DEFINE h == [r.handler EXCEPT !.jobs = more]
           p == AdmittedRow(r)
<1>3. p = [r EXCEPT !.phase = "queued", !.handler = h]
  BY DEF RequestRow, HandlerRow, AdmittedRow
<1>4. h \in HandlerRow /\ h.kind = kind /\ h.jobs = more /\ h.early = r.handler.early
  BY <1>2 DEF RequestRow, HandlerRow
<1> HIDE DEF more, h, p
<1>5. /\ p \in RequestRow /\ p.name = r.name /\ p.phase = "queued" /\ p.answer = r.answer
      /\ p.public = r.public
      /\ p.handler.kind = kind /\ p.handler.jobs = more /\ p.handler.early = r.handler.early
  BY <1>3, <1>4 DEF RequestRow, Phases
<1> HIDE DEF kind, jobs
<1>6. Control(p, t.operations, sv, c)
  BY <1>1, <1>2, <1>5 DEF Control
<1>7. Told(q, p, t.operations, c, O)
  BY <1>1, <1>5 DEF Told
<1>8. kind \in NameKinds => ToCome(more)
  BY <1>2 DEF Reads, kind, jobs
<1>9. Reads(q, p, t, sv, lo, sn, M, B, bd)
  BY <1>1, <1>5, <1>8 DEF Reads, kind
<1> QED
  BY <1>1, <1>5, <1>6, <1>7, <1>9 DEF p

\* What was readable stays so in the history, whatever the name leads to later.
LEMMA ReadsGrow ==
  ASSUME NEW q, NEW r, NEW t \in TaskRow, NEW sv, NEW lo, NEW sn, NEW M, NEW B, NEW bd,
         NEW sn2, NEW M2, NEW B2, NEW bd2,
         Reads(q, r, t, sv, lo, sn, M, B, bd),
         M \subseteq M2, B \subseteq B2,
         \A x \in Repos : /\ sn[x] = "public" => sn2[x] = "public"
                          /\ sn[x] \in Shown => sn2[x] \in Shown,
         r.phase \in {"queued", "running"} => bd2 = bd \/ q \in B2
  PROVE  Reads(q, r, t, sv, lo, sn2, M2, B2, bd2)
<1>1. ASSUME NEW x, Fine(q, x, r.public, lo, sn, B) PROVE Fine(q, x, r.public, lo, sn2, B2)
  BY <1>1 DEF Fine
<1>2. r.phase \in {"queued", "running"} /\ Resolved(q, t.repo, sn, M, B, bd) => Resolved(q, t.repo, sn2, M2, B2, bd2)
  BY DEF Resolved, TaskRow
<1>3. r.phase \in {"queued", "running"} \/ r.answer \in {"ok", "409"} => \A x \in sv : Fine(q, x, r.public, lo, sn2, B2)
  BY <1>1 DEF Reads
<1>4. r.phase \in {"queued", "running"} /\ r.handler.kind \in NameKinds =>
       \/ Resolved(q, t.repo, sn2, M2, B2, bd2)
       \/ r.phase = "running" /\ t.operations[1] = "resolve"
       \/ /\ ToCome(r.handler.jobs)
          /\ r.phase = "running" => Len(t.operations) = 1 /\ t.operations[1] \in {"actor", "manage"}
  BY <1>2 DEF Reads
<1>5. r.handler.kind = "file" /\ r.phase = "running" /\ t.operations[1] = "read" /\ r.public # FALSE =>
       sn2[t.repo] = "public"
  <2> SUFFICES ASSUME r.handler.kind = "file", r.phase = "running", t.operations[1] = "read", r.public # FALSE
               PROVE  sn2[t.repo] = "public"
    OBVIOUS
  <2>1. sn[t.repo] = "public"
    BY DEF Reads
  <2>2. Resolved(q, t.repo, sn, M, B, bd)
    BY DEF Reads, NameKinds
  <2>3. t.repo \in Repos
    BY <2>2 DEF Resolved, TaskRow
  <2> QED
    BY <2>1, <2>3
<1> QED
  BY <1>3, <1>4, <1>5 DEF Reads

-----------------------------------------------------------------------------
\* The invariant of the requests
Holds(q) ==
  Fit(q, req[q], task[q], served[q], loose[q], commits[q], open, seen[q], met, rebound, binding[req[q].name])

\* The history tells what could be read while a request lasts.
SeenTells(q) ==
  Lasts(q) =>
    /\ Usable(q) => q \in met
    /\ \A r \in Repos : /\ level[r] = "public" => seen[q][r] = "public"
                        /\ CanRead(r, Known(q)) => seen[q][r] \in Shown

WebTyped ==
  /\ binding \in [Names -> Repos \cup {NoRepo}]
  /\ level \in [Repos -> {"public", "private", "hidden"}]
  /\ session \in BOOLEAN
  /\ changes \in 0..MaxChanges
  /\ req \in [Requests -> RequestRow]
  /\ task \in [Requests -> TaskRow]
  /\ served \in [Requests -> SUBSET (Repos \cup {NoRepo})]
  /\ loose \in [Requests -> SUBSET (Repos \cup {NoRepo})]
  /\ commits \in [Requests -> Nat]
  /\ open \subseteq Requests
  /\ seen \in [Requests -> SeenRows]
  /\ \A q \in Requests : req[q].phase # "none" => req[q].name \in Names
  /\ \A q \in Requests : loose[q] \subseteq served[q]

\* Permits are not exceeded.
WebPermits ==
  /\ IsFiniteSet(Admitted) /\ Cardinality(Admitted) <= RequestLimit
  /\ IsFiniteSet({q \in Requests : Running(q)})
  /\ Cardinality({q \in Requests : Running(q)}) <= JobLimit

WebInv ==
  /\ WebTyped
  /\ WebPermits
  /\ \A q \in Requests : Holds(q) /\ SeenTells(q)


-----------------------------------------------------------------------------
\* A set of holders, limited by n, to which one is added only below the limit
LEMMA Permit ==
  ASSUME NEW S, NEW T, NEW x, NEW n \in Nat, IsFiniteSet(S), Cardinality(S) <= n,
         T \subseteq S \cup {x}, x \in T => x \in S \/ Cardinality(S) < n
  PROVE  IsFiniteSet(T) /\ Cardinality(T) <= n
<1>1. CASE T \subseteq S
  BY <1>1, FS_Subset, FS_CardinalityType
<1>2. CASE ~(T \subseteq S)
  <2>1. x \in T /\ x \notin S /\ Cardinality(S) < n
    BY <1>2
  <2>2. IsFiniteSet(S \cup {x}) /\ Cardinality(S \cup {x}) = Cardinality(S) + 1
    BY <2>1, FS_AddElement
  <2>3. IsFiniteSet(T) /\ Cardinality(T) <= Cardinality(S \cup {x}) /\ Cardinality(T) \in Nat
    BY <2>2, FS_Subset, FS_CardinalityType
  <2> QED
    BY <2>1, <2>2, <2>3, FS_CardinalityType
<1> QED
  BY <1>1, <1>2

\* The history after a step: it only grows, and tells of the new state.
LEMMA Observed ==
  ASSUME WebTyped, Observe, level' \in [Repos -> {"public", "private", "hidden"}], NEW q \in Requests
  PROVE  /\ seen' \in [Requests -> SeenRows]
         /\ \A x \in Repos : /\ seen[q][x] = "public" => seen'[q][x] = "public"
                             /\ seen[q][x] \in Shown => seen'[q][x] \in Shown
         /\ met \subseteq met' /\ rebound \subseteq rebound'
         /\ Lasts(q) => binding'[req[q].name] = binding[req[q].name] \/ q \in rebound'
         /\ SeenTells(q)'
<1>1. \A p \in Requests, x \in Repos : seen[p][x] \in {"never", "private", "public"}
  BY DEF WebTyped, SeenRows
<1>2. \A p \in Requests, x \in Repos : Level(p, x)' \in {"never", "private", "public"}
  BY DEF Level, CanRead
<1>3. \A a, b \in {"never", "private", "public"} :
        /\ Best(a, b) \in {"never", "private", "public"}
        /\ "public" \in {a, b} => Best(a, b) = "public"
        /\ a \in Shown \/ b \in Shown => Best(a, b) \in Shown
  BY DEF Best, Shown
<1>4. seen' = [p \in Requests |-> [x \in Repos |->
                 IF Lasts(p)' THEN Best(seen[p][x], Level(p, x)') ELSE seen[p][x]]]
  BY DEF Observe
<1>5. seen' \in [Requests -> SeenRows]
  BY <1>1, <1>2, <1>3, <1>4 DEF SeenRows
<1>6. \A x \in Repos : /\ seen[q][x] = "public" => seen'[q][x] = "public"
                       /\ seen[q][x] \in Shown => seen'[q][x] \in Shown
  BY <1>1, <1>2, <1>3, <1>4
<1>7. met \subseteq met' /\ rebound \subseteq rebound'
  BY DEF Observe
<1>8. Lasts(q) => binding'[req[q].name] = binding[req[q].name] \/ q \in rebound'
  BY DEF Observe
<1>9. SeenTells(q)'
  <2> SUFFICES ASSUME Lasts(q)'
               PROVE  /\ Usable(q)' => q \in met'
                      /\ \A x \in Repos : /\ level'[x] = "public" => seen'[q][x] = "public"
                                          /\ CanRead(x, Known(q))' => seen'[q][x] \in Shown
    BY DEF SeenTells
  <2>1. Usable(q)' => q \in met'
    BY DEF Observe
  <2>2. \A x \in Repos : seen'[q][x] = Best(seen[q][x], Level(q, x)')
    BY <1>4
  <2>3. \A x \in Repos : /\ level'[x] = "public" => Level(q, x)' = "public"
                         /\ CanRead(x, Known(q))' => Level(q, x)' \in Shown
    BY DEF Level, CanRead, Shown
  <2> QED
    BY <1>1, <1>2, <1>3, <2>1, <2>2, <2>3
<1> QED
  BY <1>5, <1>6, <1>7, <1>8, <1>9

\* A request on which a step does nothing
LEMMA Untouched ==
  ASSUME WebInv, Observe, level' \in [Repos -> {"public", "private", "hidden"}], NEW q \in Requests,
         req'[q] = req[q], task'[q] = task[q], served'[q] = served[q], loose'[q] = loose[q],
         commits'[q] = commits[q], q \in open' <=> q \in open
  PROVE  Holds(q)'
<1>1. /\ Control(req[q], task[q].operations, served[q], commits[q])
      /\ Told(q, req[q], task[q].operations, commits[q], open)
      /\ Reads(q, req[q], task[q], served[q], loose[q], seen[q], met, rebound, binding[req[q].name])
      /\ task[q] \in TaskRow
      /\ WebTyped
  BY DEF WebInv, Holds, Fit, WebTyped
<1>2. Told(q, req[q], task[q].operations, commits[q], open')
  BY <1>1 DEF Told
<1>3. Reads(q, req[q], task[q], served[q], loose[q], seen'[q], met', rebound', binding'[req[q].name])
  <2>1. req[q].phase \in {"queued", "running"} => Lasts(q)
    BY DEF Lasts
  <2>2. /\ met \subseteq met' /\ rebound \subseteq rebound'
        /\ \A x \in Repos : /\ seen[q][x] = "public" => seen'[q][x] = "public"
                            /\ seen[q][x] \in Shown => seen'[q][x] \in Shown
        /\ Lasts(q) => binding'[req[q].name] = binding[req[q].name] \/ q \in rebound'
    BY <1>1, Observed
  <2> QED
    BY <1>1, <2>1, <2>2, ReadsGrow
<1> QED
  BY <1>1, <1>2, <1>3 DEF Holds, Fit

\* A step of others, on names, repositories or the session
LEMMA OthersStep ==
  ASSUME WebInv, Observe,
         binding' \in [Names -> Repos \cup {NoRepo}], level' \in [Repos -> {"public", "private", "hidden"}],
         session' \in BOOLEAN, changes' \in 0..MaxChanges, UNCHANGED <<req, task, effects>>
  PROVE  WebInv'
<1>1. WebTyped /\ WebPermits
  BY DEF WebInv
<1>2. UNCHANGED <<req, task, served, loose, commits, open>>
  BY DEF effects
<1>3. \A q \in Requests : Holds(q)'
  BY <1>2, Untouched
<1>4. \A q \in Requests : SeenTells(q)'
  BY <1>1, Observed
<1>5. WebTyped'
  <2>1. seen' \in [Requests -> SeenRows]
    <3>1. CASE Requests = {}
      BY <3>1 DEF Observe
    <3>2. CASE Requests # {}
      BY <1>1, <3>2, Observed
    <3> QED
      BY <3>1, <3>2
  <2> QED
    BY <1>1, <1>2, <2>1 DEF WebTyped
<1>6. WebPermits'
  BY <1>1, <1>2 DEF WebPermits, Admitted, Running
<1> QED
  BY <1>3, <1>4, <1>5, <1>6 DEF WebInv

\* A step of one request: the row, the closure and the effects it leaves, and the permits it needs
Leaves(q, p, u, tv, mo, d) ==
  /\ req' = [req EXCEPT ![q] = p] /\ task' = [task EXCEPT ![q] = u]
  /\ served' = [served EXCEPT ![q] = tv] /\ loose' = [loose EXCEPT ![q] = mo]
  /\ commits' = [commits EXCEPT ![q] = d]
  /\ open' \subseteq Requests /\ \A x \in Requests : x # q => (x \in open' <=> x \in open)
  /\ UNCHANGED world
Room(q, p, u) ==
  /\ p.phase \in {"queued", "running"} => q \in Admitted \/ Cardinality(Admitted) < RequestLimit
  /\ u.operations # <<>> => Running(q) \/ Cardinality({x \in Requests : Running(x)}) < JobLimit

LEMMA RequestStep ==
  ASSUME WebInv, Observe, NEW q \in Requests,
         NEW p \in RequestRow, NEW u \in TaskRow, NEW tv \in SUBSET (Repos \cup {NoRepo}), NEW mo \in SUBSET tv,
         NEW d \in Nat,
         Leaves(q, p, u, tv, mo, d), Room(q, p, u), p.phase # "none" => p.name \in Names,
         Fit(q, p, u, tv, mo, d, open', seen[q], met, rebound, binding[p.name])
  PROVE  WebInv'
<1> USE DEF Leaves, Room
<1>1. WebTyped /\ WebPermits
  BY DEF WebInv
<1>2. UNCHANGED <<binding, level, session, changes>> /\ level' \in [Repos -> {"public", "private", "hidden"}]
  BY <1>1 DEF world, WebTyped
<1>3. /\ req'[q] = p /\ task'[q] = u /\ served'[q] = tv /\ loose'[q] = mo /\ commits'[q] = d
      /\ \A x \in Requests : x # q =>
           /\ req'[x] = req[x] /\ task'[x] = task[x] /\ served'[x] = served[x] /\ loose'[x] = loose[x]
           /\ commits'[x] = commits[x]
  BY <1>1 DEF WebTyped
<1>4. Holds(q)'
  <2>1. /\ met \subseteq met' /\ rebound \subseteq rebound'
        /\ \A x \in Repos : /\ seen[q][x] = "public" => seen'[q][x] = "public"
                            /\ seen[q][x] \in Shown => seen'[q][x] \in Shown
    BY <1>1, <1>2, Observed
  <2>2. Reads(q, p, u, tv, mo, seen'[q], met', rebound', binding'[p.name])
    <3>1. Reads(q, p, u, tv, mo, seen[q], met, rebound, binding[p.name])
      BY DEF Fit
    <3>2. binding'[p.name] = binding[p.name]
      BY <1>2
    <3> HIDE DEF Leaves, Room
    <3> QED
      BY <2>1, <3>1, <3>2, ReadsGrow
  <2> QED
    BY <1>3, <2>2 DEF Holds, Fit
<1>5. \A x \in Requests : x # q => Holds(x)'
  BY <1>2, <1>3, Untouched
<1>6. \A x \in Requests : SeenTells(x)'
  BY <1>1, <1>2, Observed
<1>7. WebTyped'
  <2>1. seen' \in [Requests -> SeenRows]
    BY <1>1, <1>2, Observed
  <2>2. \A x \in Requests : /\ req'[x].phase # "none" => req'[x].name \in Names
                            /\ loose'[x] \subseteq served'[x]
    BY <1>1, <1>3 DEF WebTyped
  <2> QED
    BY <1>1, <1>2, <2>1, <2>2 DEF WebTyped
<1>8. IsFiniteSet(Admitted') /\ Cardinality(Admitted') <= RequestLimit
  <2>1. Admitted' \subseteq Admitted \cup {q}
    BY <1>3 DEF Admitted
  <2>2. q \in Admitted' => q \in Admitted \/ Cardinality(Admitted) < RequestLimit
    BY <1>3 DEF Admitted
  <2>3. IsFiniteSet(Admitted) /\ Cardinality(Admitted) <= RequestLimit
    BY <1>1 DEF WebPermits
  <2> HIDE DEF Admitted
  <2> QED
    BY <2>1, <2>2, <2>3, Permit, LimitAssumption
<1>9. IsFiniteSet({x \in Requests : Running(x)'}) /\ Cardinality({x \in Requests : Running(x)'}) <= JobLimit
  <2> DEFINE S == {x \in Requests : Running(x)}
             T == {x \in Requests : Running(x)'}
  <2>1. T \subseteq S \cup {q}
    BY <1>3 DEF Running
  <2>2. q \in T => q \in S \/ Cardinality(S) < JobLimit
    BY <1>3 DEF Running
  <2>3. IsFiniteSet(S) /\ Cardinality(S) <= JobLimit
    BY <1>1 DEF WebPermits
  <2> HIDE DEF S, T
  <2>4. IsFiniteSet(T) /\ Cardinality(T) <= JobLimit
    BY <2>1, <2>2, <2>3, Permit, LimitAssumption
  <2> QED
    BY <2>4 DEF T
<1>10. WebPermits'
  BY <1>8, <1>9 DEF WebPermits
<1> QED
  BY <1>4, <1>5, <1>6, <1>7, <1>10 DEF WebInv
-----------------------------------------------------------------------------
\* What the invariant says of a request, and of one whose closure runs
RequestParts(q) ==
  /\ req[q] \in RequestRow /\ task[q] \in TaskRow /\ commits[q] \in Nat
  /\ served[q] \in SUBSET (Repos \cup {NoRepo}) /\ loose[q] \in SUBSET served[q]
  /\ req[q].phase # "none" => req[q].name \in Names
  /\ Fit(q, req[q], task[q], served[q], loose[q], commits[q], open, seen[q], met, rebound, binding[req[q].name])

LEMMA Parts ==
  ASSUME WebInv, NEW q \in Requests
  PROVE  WebTyped /\ RequestParts(q)
BY DEF WebInv, WebTyped, Holds, RequestParts

Works(q) ==
  /\ task[q].operations # <<>>
  /\ Head(task[q].operations) = task[q].operations[1]
  /\ req[q].phase \in {"running", "done"} /\ req[q].name \in Names
  /\ req[q].handler.kind \in HandlerKinds
  /\ task[q].operations[1] \in Allowed(req[q].handler.kind)
  /\ JobGood(req[q].handler.kind, task[q].operations, commits[q])
  /\ commits[q] \in {0, 1} /\ (commits[q] = 1 => task[q].operations[1] \in After)
  /\ task[q].operations[1] \in ChangeKinds \/ commits[q] = 1 => req[q].confirm = "yes"
  /\ q \notin open
  /\ Target(q) \in Repos \cup {NoRepo}
  /\ Usable(q) => q \in met
  /\ \A r \in Repos : /\ level[r] = "public" => seen[q][r] = "public"
                      /\ CanRead(r, Known(q)) => seen[q][r] \in Shown

LEMMA RunningFacts ==
  ASSUME WebInv, NEW q \in Requests, Running(q)
  PROVE  WebTyped /\ RequestParts(q) /\ Works(q)
<1>1. WebTyped /\ RequestParts(q)
  BY Parts
<1>2. /\ Control(req[q], task[q].operations, served[q], commits[q])
      /\ Told(q, req[q], task[q].operations, commits[q], open)
  BY <1>1 DEF RequestParts, Fit
<1>3. task[q].operations # <<>> /\ task[q].operations \in Seq(Operations)
  BY <1>1 DEF Running, TaskRow, RequestParts
<1>4. /\ Head(task[q].operations) = task[q].operations[1]
      /\ 1 \in 1..Len(task[q].operations)
  BY <1>3, HeadTail
<1>5. req[q].phase \in {"running", "done"} /\ req[q].handler.kind \in HandlerKinds
  BY <1>1, <1>2, <1>3 DEF Control, RequestRow, HandlerRow, Phases, RequestParts
<1>6. JobGood(req[q].handler.kind, task[q].operations, commits[q])
  BY <1>2, <1>3, <1>5 DEF Control
<1>7. task[q].operations[1] \in Allowed(req[q].handler.kind)
  BY <1>4, <1>6 DEF JobGood
<1>8. /\ commits[q] \in {0, 1} /\ (commits[q] = 1 => task[q].operations[1] \in After) /\ q \notin open
      /\ task[q].operations[1] \in ChangeKinds \/ commits[q] = 1 => req[q].confirm = "yes"
  BY <1>1, <1>2, <1>3 DEF Told, RequestParts, RequestRow
<1>9. req[q].name \in Names /\ Target(q) \in Repos \cup {NoRepo}
  BY <1>1, <1>5 DEF WebTyped, Target, RequestParts
<1>10. /\ Usable(q) => q \in met
       /\ \A r \in Repos : /\ level[r] = "public" => seen[q][r] = "public"
                           /\ CanRead(r, Known(q)) => seen[q][r] \in Shown
  <2>1. SeenTells(q)
    BY DEF WebInv
  <2> QED
    BY <2>1 DEF SeenTells, Lasts
<1> QED
  BY <1>1, <1>3, <1>4, <1>5, <1>6, <1>7, <1>8, <1>9, <1>10 DEF Works

\* The effects of a step that leaves the effects of other requests alone
Effects(q, tv, mo, d) ==
  /\ UNCHANGED world
  /\ served' = [served EXCEPT ![q] = tv] /\ loose' = [loose EXCEPT ![q] = mo]
  /\ commits' = [commits EXCEPT ![q] = d] /\ open' = open

LEMMA NoEffects ==
  ASSUME WebTyped, NEW q \in Requests, UNCHANGED <<world, effects>>
  PROVE  Effects(q, served[q], loose[q], commits[q])
BY DEF WebTyped, Effects, effects

\* A closure goes on, and the invariant holds.
LEMMA Proceeds ==
  ASSUME WebInv, Observe, NEW q \in Requests, Running(q),
         NEW repo \in Repos \cup {NoRepo}, NEW public \in BOOLEAN, Continue(q, repo, public),
         NEW tv \in SUBSET (Repos \cup {NoRepo}), NEW mo \in SUBSET tv, NEW d \in Nat, Effects(q, tv, mo, d),
         Goes(q, req[q], task[q], [operations |-> Tail(task[q].operations), repo |-> repo], served[q], tv, mo,
              commits[q], d, public, seen[q], met, rebound, binding[req[q].name])
  PROVE  WebInv'
<1>1. WebTyped /\ RequestParts(q) /\ Works(q)
  BY RunningFacts
<1> DEFINE u == [operations |-> Tail(task[q].operations), repo |-> repo]
           p == ContinuedRow(req[q], u.operations, public)
<1>2. u \in TaskRow
  <2>1. Tail(task[q].operations) \in Seq(Operations)
    BY <1>1, HeadTail DEF TaskRow, RequestParts, Works
  <2> QED
    BY <2>1 DEF TaskRow
<1>3. task' = [task EXCEPT ![q] = u]
  BY DEF Continue
<1>4. req' = [req EXCEPT ![q] = p]
  <2>1. req \in [Requests -> RequestRow]
    BY <1>1 DEF WebTyped
  <2>2. CASE req[q].phase # "running" /\ UNCHANGED req
    BY <2>1, <2>2 DEF ContinuedRow
  <2>3. CASE /\ req[q].phase = "running" /\ u.operations # <<>>
             /\ req' = [req EXCEPT ![q].public = public]
    BY <2>1, <2>3 DEF ContinuedRow
  <2>4. CASE /\ req[q].phase = "running" /\ u.operations = <<>> /\ req[q].handler.jobs # <<>>
             /\ req' = [req EXCEPT ![q].public = public, ![q].phase = "queued"]
    <3>1. p = [req[q] EXCEPT !.public = public, !.phase = "queued"]
      BY <2>4 DEF ContinuedRow
    <3> HIDE DEF p
    <3> QED
      BY <2>1, <2>4, <3>1
  <2>5. CASE /\ req[q].phase = "running" /\ u.operations = <<>> /\ req[q].handler.jobs = <<>>
             /\ req' = [req EXCEPT ![q] = [AnsweredRow(req[q], "ok") EXCEPT !.public = public]]
    BY <2>5 DEF ContinuedRow
  <2> QED
    BY <2>2, <2>3, <2>4, <2>5 DEF Continue, Answered, AnsweredRow
<1>5. Goes(q, req[q], task[q], u, served[q], tv, mo, commits[q], d, public, seen[q], met, rebound, binding[req[q].name])
  OBVIOUS
<1> HIDE DEF u
<1>6. /\ p \in RequestRow /\ p.name = req[q].name
      /\ p.phase \in {"queued", "running"} => req[q].phase = "running"
      /\ Fit(q, p, u, tv, mo, d, open, seen[q], met, rebound, binding[req[q].name])
  BY <1>1, <1>2, <1>5, ContinueHolds DEF RequestParts
<1> HIDE DEF p
<1>7. Leaves(q, p, u, tv, mo, d)
  BY <1>1, <1>3, <1>4 DEF Effects, Leaves, WebTyped
<1>8. Room(q, p, u)
  BY <1>6 DEF Room, Admitted
<1>9. open' = open /\ req[q].name \in Names
  BY <1>1 DEF Effects, Works
<1> QED
  BY <1>2, <1>6, <1>7, <1>8, <1>9, RequestStep

\* A closure ends with an error, and the invariant holds.
Refuses(q, a) ==
  /\ Stop(q, a)
  /\ UNCHANGED <<world, served, loose, commits>>
  /\ open' = open \/ open' = open \cup {q}
  /\ Stoppable(q, req[q], task[q], [task[q] EXCEPT !.operations = <<>>], commits[q], open, met, a, open')

LEMMA Stops ==
  ASSUME WebInv, Observe, NEW q \in Requests, Running(q), NEW a \in Answers, Refuses(q, a)
  PROVE  WebInv'
<1>1. WebTyped /\ RequestParts(q) /\ Works(q)
  BY RunningFacts
<1> DEFINE u == [task[q] EXCEPT !.operations = <<>>]
           p == StoppedRow(req[q], a)
<1>2. u \in TaskRow /\ u.operations = <<>>
  <2>1. <<>> \in Seq(Operations)
    OBVIOUS
  <2> QED
    BY <1>1, <2>1 DEF TaskRow, RequestParts
<1>3. task' = [task EXCEPT ![q] = u]
  BY DEF Refuses, Stop
<1>4. req' = [req EXCEPT ![q] = p]
  <2>1. req \in [Requests -> RequestRow]
    BY <1>1 DEF WebTyped
  <2>2. CASE req[q].phase = "running"
    BY <2>2 DEF StoppedRow, Refuses, Stop, Answer, Answered, AnsweredRow
  <2>3. CASE req[q].phase # "running"
    BY <2>1, <2>3 DEF StoppedRow, Refuses, Stop
  <2> QED
    BY <2>2, <2>3
<1>5. Stoppable(q, req[q], task[q], u, commits[q], open, met, a, open')
  BY DEF Refuses
<1> HIDE DEF u
<1>6. /\ p \in RequestRow /\ p.name = req[q].name /\ p.phase \notin {"queued", "running"}
      /\ Fit(q, p, u, served[q], loose[q], commits[q], open', seen[q], met, rebound, binding[req[q].name])
  <2>1. /\ req[q] \in RequestRow /\ task[q] \in TaskRow /\ commits[q] \in Nat
        /\ Fit(q, req[q], task[q], served[q], loose[q], commits[q], open, seen[q], met, rebound, binding[req[q].name])
    BY <1>1 DEF RequestParts
  <2>2. StopFit(q, req[q], task[q], u, served[q], loose[q], commits[q], open, seen[q], met, rebound,
                binding[req[q].name], a, open')
    BY <1>5, <2>1 DEF StopFit
  <2> QED
    BY <1>2, <2>1, <2>2, StopHolds
<1> HIDE DEF p
<1>7. Leaves(q, p, u, served[q], loose[q], commits[q])
  BY <1>1, <1>3, <1>4 DEF Leaves, Refuses, WebTyped
<1>8. Room(q, p, u)
  BY <1>2, <1>6 DEF Room
<1>9. req[q].name \in Names
  BY <1>1 DEF Works
<1> QED
  BY <1>1, <1>2, <1>6, <1>7, <1>8, <1>9, RequestStep DEF RequestParts

\* A request is answered while its closure, if there is one, runs on.
LEMMA AnswerStep ==
  ASSUME WebInv, Observe, NEW q \in Requests, NEW a \in Answers, Answer(q, a), UNCHANGED <<world, task, effects>>,
         req[q].phase # "none", Answerable(req[q], task[q], served[q], commits[q], a)
  PROVE  WebInv'
<1>1. WebTyped /\ RequestParts(q)
  BY Parts
<1> DEFINE p == AnsweredRow(req[q], a)
<1>2. req' = [req EXCEPT ![q] = p]
  BY DEF Answer, Answered, AnsweredRow
<1>3. /\ p \in RequestRow /\ p.name = req[q].name /\ p.phase = "done"
      /\ Fit(q, p, task[q], served[q], loose[q], commits[q], open, seen[q], met, rebound, binding[req[q].name])
  BY <1>1, AnswerHolds DEF RequestParts
<1> HIDE DEF p
<1>4. Leaves(q, p, task[q], served[q], loose[q], commits[q]) /\ open' = open
  BY <1>1, <1>2 DEF Leaves, WebTyped, effects
<1>5. Room(q, p, task[q])
  BY <1>3 DEF Room, Running
<1> QED
  BY <1>1, <1>3, <1>4, <1>5, RequestStep DEF RequestParts

-----------------------------------------------------------------------------
\* A closure that has committed nothing may end with any error but a conflict.
LEMMA Fails ==
  ASSUME WebInv, Observe, NEW q \in Requests, Running(q), NEW a \in Answers, Stop(q, a),
         UNCHANGED <<world, effects>>,
         a \notin {"none", "ok"},
         commits[q] = 1 => a \in Unsure(req[q].handler.kind),
         a = "409" => req[q].handler.kind \notin NameKinds /\ (req[q].handler.kind \in NamedChanges => q \in met)
  PROVE  WebInv'
<1>1. RequestParts(q) /\ Works(q)
  BY RunningFacts
<1>2. task[q] \in TaskRow
  BY <1>1 DEF RequestParts
<1>3. Stoppable(q, req[q], task[q], [task[q] EXCEPT !.operations = <<>>], commits[q], open, met, a, open')
  BY <1>1, <1>2 DEF Stoppable, Works, TaskRow, effects
<1>4. Refuses(q, a)
  BY <1>3 DEF Refuses, effects
<1> QED
  BY <1>4, Stops

\* request_actor, and authenticate_mutation of a session that is valid
LEMMA ActorEnds ==
  ASSUME WebInv, Observe, NEW q \in Requests, Running(q), task[q].operations[1] \in {"actor", "auth"},
         NEW actor \in BOOLEAN,
         task' = [task EXCEPT ![q].operations = <<>>],
         req' = [req EXCEPT ![q].actor = actor, ![q].phase = IF @ = "running" THEN "queued" ELSE @],
         UNCHANGED <<world, effects>>
  PROVE  WebInv'
<1>1. WebTyped /\ RequestParts(q) /\ Works(q)
  BY RunningFacts
<1> DEFINE u == [task[q] EXCEPT !.operations = <<>>]
           p == ActorRow(req[q], actor)
<1>2. u \in TaskRow /\ u.operations = <<>> /\ u.repo = task[q].repo
  <2>1. <<>> \in Seq(Operations)
    OBVIOUS
  <2> QED
    BY <1>1, <2>1 DEF TaskRow, RequestParts
<1>3. req' = [req EXCEPT ![q] = p] /\ task' = [task EXCEPT ![q] = u]
  BY <1>1 DEF ActorRow, WebTyped
<1> HIDE DEF u
<1>4. /\ p \in RequestRow /\ p.name = req[q].name
      /\ p.phase \in {"queued", "running"} => req[q].phase = "running"
      /\ Fit(q, p, u, served[q], loose[q], commits[q], open, seen[q], met, rebound, binding[req[q].name])
  <2>1. /\ Asks(task[q], u)
        /\ req[q] \in RequestRow /\ task[q] \in TaskRow /\ commits[q] \in Nat
        /\ Fit(q, req[q], task[q], served[q], loose[q], commits[q], open, seen[q], met, rebound, binding[req[q].name])
    BY <1>1, <1>2 DEF Works, RequestParts, Asks
  <2> QED
    BY <1>2, <2>1, ActorHolds
<1> HIDE DEF p
<1>5. Leaves(q, p, u, served[q], loose[q], commits[q]) /\ open' = open
  BY <1>1, <1>3 DEF Leaves, WebTyped, effects
<1>6. Room(q, p, u)
  BY <1>2, <1>4 DEF Room, Admitted
<1>7. req[q].name \in Names
  BY <1>1 DEF Works
<1> QED
  BY <1>1, <1>2, <1>4, <1>5, <1>6, <1>7, RequestStep DEF RequestParts

LEMMA ActorStep == ASSUME WebInv, Observe, NEW q \in Requests, ActorOperation(q) PROVE WebInv'
<1>1. Running(q) /\ WebTyped /\ Works(q)
  BY RunningFacts DEF ActorOperation, At
<1>2. task[q].operations[1] = "actor" /\ session \in BOOLEAN
  BY <1>1 DEF ActorOperation, At, Works, WebTyped
<1> QED
  BY <1>1, <1>2, ActorEnds DEF ActorOperation

LEMMA AuthStep == ASSUME WebInv, Observe, NEW q \in Requests, AuthOperation(q) PROVE WebInv'
<1>1. Running(q) /\ Works(q)
  BY RunningFacts DEF AuthOperation, At
<1>2. task[q].operations[1] = "auth"
  BY <1>1 DEF AuthOperation, At, Works
<1>3. CASE session /\ req[q].cookie
  BY <1>1, <1>2, <1>3, ActorEnds DEF AuthOperation
<1>4. CASE ~(session /\ req[q].cookie)
  <2>1. Stop(q, "login") /\ UNCHANGED <<world, effects>> /\ "login" \in Answers
    BY <1>4 DEF AuthOperation, Answers
  <2> QED
    BY <1>1, <1>2, <2>1, Fails DEF Works, After
<1> QED
  BY <1>3, <1>4

\* What a job has read so far, as long as the request waits for it
LEMMA ReadSoFar ==
  ASSUME WebInv, NEW q \in Requests, Running(q)
  PROVE  /\ req[q].public \in BOOLEAN /\ task[q].repo \in Repos \cup {NoRepo}
         /\ req[q].handler.kind # "file" => req[q].public = FALSE
         /\ req[q].phase = "running" => \A x \in served[q] : Fine(q, x, req[q].public, loose[q], seen[q], rebound)
         /\ req[q].phase = "running" /\ req[q].handler.kind = "file"
              /\ task[q].operations[1] \in {"resolve", "read", "name"} => served[q] = {}
         /\ req[q].phase = "running" /\ req[q].handler.kind \in NameKinds =>
              \/ Resolved(q, task[q].repo, seen[q], met, rebound, Target(q))
              \/ task[q].operations[1] = "resolve"
              \/ /\ ToCome(req[q].handler.jobs) /\ Len(task[q].operations) = 1
                 /\ task[q].operations[1] \in {"actor", "manage"}
<1>1. RequestParts(q) /\ Works(q)
  BY RunningFacts
<1>2. req[q].public \in BOOLEAN /\ task[q].repo \in Repos \cup {NoRepo}
  BY <1>1 DEF RequestParts, RequestRow, TaskRow
<1>3. Reads(q, req[q], task[q], served[q], loose[q], seen[q], met, rebound, binding[req[q].name])
  BY <1>1 DEF RequestParts, Fit
<1>4. 1 \in 1..Len(task[q].operations)
  BY <1>1, HeadTail DEF RequestParts, TaskRow, Works
<1>5. req[q].phase = "running" /\ req[q].handler.kind = "file" /\ served[q] # {} =>
        task[q].operations[1] \notin {"resolve", "read", "name"}
  BY <1>3, <1>4 DEF Reads
<1>6. req[q].phase = "running" /\ req[q].handler.kind \in NameKinds =>
        \/ Resolved(q, task[q].repo, seen[q], met, rebound, Target(q))
        \/ task[q].operations[1] = "resolve"
        \/ /\ ToCome(req[q].handler.jobs) /\ Len(task[q].operations) = 1
           /\ task[q].operations[1] \in {"actor", "manage"}
  BY <1>3 DEF Reads, Target
<1> QED
  BY <1>2, <1>3, <1>5, <1>6 DEF Reads

\* repository_can_manage, and an operation on no repository of a name
LEMMA ManageStep == ASSUME WebInv, Observe, NEW q \in Requests, ManageOperation(q) PROVE WebInv'
<1>1. Running(q) /\ WebTyped /\ RequestParts(q) /\ Works(q)
  BY RunningFacts DEF ManageOperation, At
<1>2. task[q].operations[1] = "manage" /\ req[q].handler.kind = "page"
  BY <1>1 DEF ManageOperation, At, Works, Allowed, HandlerKinds, ChangeKinds, NameKinds
<1> DEFINE u == [operations |-> Tail(task[q].operations), repo |-> task[q].repo]
<1>3. Goes(q, req[q], task[q], u, served[q], served[q], loose[q], commits[q], commits[q], req[q].public,
           seen[q], met, rebound, binding[req[q].name])
  <2>1. req[q].phase = "running" =>
          \/ Resolved(q, task[q].repo, seen[q], met, rebound, binding[req[q].name])
          \/ ToCome(req[q].handler.jobs) /\ Len(task[q].operations) = 1
    BY <1>1, <1>2, ReadSoFar DEF NameKinds, Target
  <2>2. /\ req[q].public = FALSE
        /\ req[q].phase = "running" => \A x \in served[q] : Fine(q, x, req[q].public, loose[q], seen[q], rebound)
    BY <1>1, <1>2, ReadSoFar
  <2> QED
    BY <1>1, <1>2, <2>1, <2>2 DEF Goes, Works, ChangeKinds, NamedChanges
<1>4. Effects(q, served[q], loose[q], commits[q])
  BY <1>1, NoEffects DEF ManageOperation
<1>5. req[q].public \in BOOLEAN /\ task[q].repo \in Repos \cup {NoRepo}
  BY <1>1, ReadSoFar
<1> QED
  BY <1>1, <1>3, <1>4, <1>5, Proceeds DEF ManageOperation, RequestParts

LEMMA ResolveStep == ASSUME WebInv, Observe, NEW q \in Requests, ResolveOperation(q) PROVE WebInv'
<1>1. Running(q) /\ WebTyped /\ RequestParts(q) /\ Works(q) /\ UNCHANGED <<world, effects>>
  BY RunningFacts DEF ResolveOperation, At
<1>2. task[q].operations[1] = "resolve" /\ req[q].handler.kind \in NameKinds
  BY <1>1 DEF ResolveOperation, At, Works, Allowed, HandlerKinds, ChangeKinds, NameKinds
<1>3. CASE Usable(q) /\ Continue(q, Target(q), Cacheable(q))
  <2> DEFINE u == [operations |-> Tail(task[q].operations), repo |-> Target(q)]
  <2>1. Target(q) \in Repos /\ Cacheable(q) \in BOOLEAN /\ q \in met /\ seen[q][Target(q)] \in Shown
    BY <1>1, <1>3 DEF Works, Usable, Cacheable
  <2>2. Cacheable(q) => req[q].handler.kind = "file" /\ seen[q][Target(q)] = "public"
    BY <1>1, <2>1 DEF Works, Cacheable
  <2>3. Resolved(q, Target(q), seen[q], met, rebound, binding[req[q].name])
    BY <1>3, <2>1 DEF Resolved, Usable, Target
  <2>4. req[q].phase = "running" => \A x \in served[q] : Fine(q, x, Cacheable(q), loose[q], seen[q], rebound)
    <3>1. CASE req[q].handler.kind = "file"
      BY <1>1, <1>2, <3>1, ReadSoFar
    <3>2. CASE req[q].handler.kind # "file"
      <4>1. Cacheable(q) = FALSE /\ req[q].public = FALSE
        BY <1>1, <3>2, ReadSoFar DEF Cacheable
      <4> QED
        BY <1>1, <4>1, ReadSoFar
    <3> QED
      BY <3>1, <3>2
  <2>5. Goes(q, req[q], task[q], u, served[q], served[q], loose[q], commits[q], commits[q], Cacheable(q),
             seen[q], met, rebound, binding[req[q].name])
    BY <1>1, <1>2, <2>1, <2>2, <2>3, <2>4 DEF Goes, Works, ChangeKinds, NameKinds, NamedChanges
  <2>6. Effects(q, served[q], loose[q], commits[q])
    BY <1>1, NoEffects
  <2> QED
    BY <1>1, <1>3, <2>1, <2>5, <2>6, Proceeds DEF RequestParts
<1>4. CASE Stop(q, "500") \/ Stop(q, req[q].handler.absent) \/ Stop(q, req[q].handler.hidden)
  <2>1. PICK a \in {"403", "404", "500"} : Stop(q, a)
    BY <1>1, <1>4 DEF RequestParts, RequestRow, HandlerRow
  <2>2. a \in Answers
    BY DEF Answers
  <2> QED
    BY <1>1, <1>2, <2>1, <2>2, Fails DEF Works, After
<1> QED
  BY <1>3, <1>4 DEF ResolveOperation

LEMMA ReadStep == ASSUME WebInv, Observe, NEW q \in Requests, ReadOperation(q) PROVE WebInv'
<1>1. Running(q) /\ WebTyped /\ RequestParts(q) /\ Works(q)
  BY RunningFacts DEF ReadOperation, At
<1>2. task[q].operations[1] = "read" /\ req[q].handler.kind \in NameKinds
  BY <1>1 DEF ReadOperation, At, Works, Allowed, HandlerKinds, ChangeKinds, NameKinds
<1> DEFINE repo == task[q].repo
           u == [operations |-> Tail(task[q].operations), repo |-> repo]
           tv == served[q] \cup {repo}
<1>3. req[q].public \in BOOLEAN /\ repo \in Repos \cup {NoRepo}
  BY <1>1, ReadSoFar
<1>4. req[q].phase = "running" => Resolved(q, repo, seen[q], met, rebound, binding[req[q].name])
  BY <1>1, <1>2, ReadSoFar DEF Target
<1>5. req[q].phase = "running" => \A x \in tv : Fine(q, x, req[q].public, loose[q], seen[q], rebound)
  <2> SUFFICES ASSUME req[q].phase = "running" PROVE Fine(q, repo, req[q].public, loose[q], seen[q], rebound)
    BY <1>1, ReadSoFar
  <2>1. repo \in Repos /\ seen[q][repo] \in Shown
    BY <1>3, <1>4 DEF Resolved
  <2>2. req[q].public # FALSE => seen[q][repo] = "public"
    <3>1. Reads(q, req[q], task[q], served[q], loose[q], seen[q], met, rebound, binding[req[q].name])
      BY <1>1 DEF RequestParts, Fit
    <3> QED
      BY <1>2, <3>1 DEF Reads
  <2> QED
    BY <2>1, <2>2 DEF Fine
<1>6. Goes(q, req[q], task[q], u, served[q], tv, loose[q], commits[q], commits[q], req[q].public,
           seen[q], met, rebound, binding[req[q].name])
  <2>1. req[q].handler.kind # "file" => req[q].public = FALSE
    BY <1>1, ReadSoFar
  <2> QED
    BY <1>1, <1>2, <1>4, <1>5, <2>1 DEF Goes, Works, ChangeKinds, NameKinds, NamedChanges
<1>7. Effects(q, tv, loose[q], commits[q])
  BY <1>1 DEF ReadOperation, Effects, WebTyped
<1>8. tv \in SUBSET (Repos \cup {NoRepo}) /\ loose[q] \in SUBSET tv /\ commits[q] \in Nat
  BY <1>1, <1>3 DEF RequestParts
<1>9. Continue(q, repo, req[q].public)
  BY DEF ReadOperation
<1> HIDE DEF tv, repo
<1> QED
  BY <1>1, <1>3, <1>6, <1>7, <1>8, <1>9, Proceeds

LEMMA NameStep == ASSUME WebInv, Observe, NEW q \in Requests, NameOperation(q) PROVE WebInv'
<1>1. Running(q) /\ WebTyped /\ RequestParts(q) /\ Works(q)
  BY RunningFacts DEF NameOperation, At
<1>2. task[q].operations[1] = "name" /\ req[q].handler.kind \in NameKinds
  BY <1>1 DEF NameOperation, At, Works, Allowed, HandlerKinds, ChangeKinds, NameKinds
<1>3. CASE Target(q) # NoRepo
  <2> DEFINE repo == task[q].repo
             u == [operations |-> Tail(task[q].operations), repo |-> repo]
             public == IF served[q] = {} THEN Cacheable(q) ELSE req[q].public
             tv == served[q] \cup {Target(q)}
             mo == loose[q] \cup {Target(q)}
  <2>1. /\ public \in BOOLEAN /\ repo \in Repos \cup {NoRepo}
        /\ req[q].handler.kind # "file" => public = FALSE /\ req[q].public = FALSE
        /\ Target(q) \in Repos
    <3>1. Cacheable(q) \in BOOLEAN /\ (Cacheable(q) => req[q].handler.kind = "file")
      BY DEF Cacheable
    <3>2. Target(q) \in Repos
      BY <1>1, <1>3 DEF Works
    <3> QED
      BY <1>1, <3>1, <3>2, ReadSoFar
  <2>2. req[q].phase = "running" => Resolved(q, repo, seen[q], met, rebound, binding[req[q].name])
    BY <1>1, <1>2, ReadSoFar DEF Target
  <2>3. req[q].phase = "running" => \A x \in tv : Fine(q, x, public, mo, seen[q], rebound)
    <3> SUFFICES ASSUME req[q].phase = "running", NEW x \in tv PROVE Fine(q, x, public, mo, seen[q], rebound)
      OBVIOUS
    <3>1. CASE x = Target(q)
      <4>1. x = repo \/ q \in rebound
        BY <2>2, <3>1 DEF Resolved, Target
      <4>2. x = repo => seen[q][x] \in Shown
        BY <2>2 DEF Resolved
      <4>3. public # FALSE /\ req[q].handler.kind = "file" => seen[q][x] = "public"
        <5>1. req[q].handler.kind = "file" => served[q] = {}
          BY <1>1, <1>2, ReadSoFar
        <5>2. Cacheable(q) => seen[q][x] = "public"
          BY <1>1, <2>1, <3>1 DEF Cacheable, Works
        <5> QED
          BY <5>1, <5>2 DEF Cacheable
      <4> QED
        BY <2>1, <3>1, <4>1, <4>2, <4>3 DEF Fine
    <3>2. CASE x \in served[q]
      <4>1. Fine(q, x, req[q].public, loose[q], seen[q], rebound) /\ req[q].handler.kind # "file"
        BY <1>1, <1>2, <3>2, ReadSoFar
      <4> QED
        BY <2>1, <4>1 DEF Fine
    <3> QED
      BY <3>1, <3>2
  <2>4. Continue(q, repo, public) /\ Effects(q, tv, mo, commits[q])
    BY <1>1, <1>3 DEF NameOperation, Effects, WebTyped, Stop
  <2>5. tv \in SUBSET (Repos \cup {NoRepo}) /\ mo \in SUBSET tv /\ commits[q] \in Nat
    BY <1>1, <2>1 DEF RequestParts
  <2> HIDE DEF public, tv, mo, repo
  <2>6. Goes(q, req[q], task[q], u, served[q], tv, mo, commits[q], commits[q], public,
             seen[q], met, rebound, binding[req[q].name])
    BY <1>1, <1>2, <2>1, <2>2, <2>3 DEF Goes, Works, ChangeKinds, NameKinds, NamedChanges
  <2> QED
    BY <1>1, <2>1, <2>4, <2>5, <2>6, Proceeds
<1>4. CASE Target(q) = NoRepo
  <2>1. PICK a \in {"404", "500"} : Stop(q, a)
    BY <1>4 DEF NameOperation
  <2>2. a \in Answers /\ UNCHANGED <<world, effects>>
    BY <1>4 DEF Answers, NameOperation, effects
  <2> QED
    BY <1>1, <1>2, <2>1, <2>2, Fails DEF Works, After
<1> QED
  BY <1>3, <1>4

LEMMA ListStep == ASSUME WebInv, Observe, NEW q \in Requests, ListOperation(q) PROVE WebInv'
<1>1. Running(q) /\ WebTyped /\ RequestParts(q) /\ Works(q)
  BY RunningFacts DEF ListOperation, At
<1>2. task[q].operations[1] = "list" /\ req[q].handler.kind \in {"list", "token"}
  BY <1>1 DEF ListOperation, At, Works, Allowed, HandlerKinds, ChangeKinds, NameKinds
<1> DEFINE u == [operations |-> Tail(task[q].operations), repo |-> NoRepo]
           tv == served[q] \cup {r \in Repos : CanRead(r, Known(q))}
<1>3. req[q].public = FALSE
  BY <1>1, <1>2, ReadSoFar
<1>4. req[q].phase = "running" => \A x \in tv : Fine(q, x, req[q].public, loose[q], seen[q], rebound)
  <2> SUFFICES ASSUME req[q].phase = "running", NEW x \in Repos, CanRead(x, Known(q))
               PROVE  Fine(q, x, req[q].public, loose[q], seen[q], rebound)
    BY <1>1, ReadSoFar
  <2>1. seen[q][x] \in Shown
    BY <1>1 DEF Works
  <2> QED
    BY <1>3, <2>1 DEF Fine
<1>5. Goes(q, req[q], task[q], u, served[q], tv, loose[q], commits[q], commits[q], req[q].public,
           seen[q], met, rebound, binding[req[q].name])
  BY <1>1, <1>2, <1>3, <1>4 DEF Goes, Works, ChangeKinds, NameKinds, NamedChanges
<1>6. Effects(q, tv, loose[q], commits[q])
  BY <1>1 DEF ListOperation, Effects, WebTyped
<1>7. tv \in SUBSET (Repos \cup {NoRepo}) /\ loose[q] \in SUBSET tv /\ commits[q] \in Nat
  BY <1>1 DEF RequestParts
<1>8. Continue(q, NoRepo, req[q].public)
  BY DEF ListOperation
<1> HIDE DEF tv
<1> QED
  BY <1>1, <1>3, <1>5, <1>6, <1>7, <1>8, Proceeds

\* A change is committed, once, and only the reload of an account is left to do.
LEMMA CommitHolds ==
  ASSUME WebInv, Observe, NEW q \in Requests, Running(q), task[q].operations[1] \in ChangeKinds,
         NEW repo \in Repos \cup {NoRepo}, Continue(q, repo, FALSE), UNCHANGED <<world, served, loose, open>>,
         commits' = [commits EXCEPT ![q] = @ + 1],
         req[q].handler.kind \in NamedChanges => q \in met
  PROVE  WebInv'
<1>1. WebTyped /\ RequestParts(q) /\ Works(q)
  BY RunningFacts
<1>2. req[q].handler.kind \in ChangeKinds /\ req[q].handler.kind \notin NameKinds
  BY <1>1 DEF Works, Allowed, HandlerKinds, ChangeKinds, NameKinds
<1>3. commits[q] = 0
  BY <1>1 DEF Works, ChangeKinds, After
<1> DEFINE u == [operations |-> Tail(task[q].operations), repo |-> repo]
<1>4. req[q].public = FALSE
  BY <1>1, <1>2, ReadSoFar DEF NameKinds
<1>5. Goes(q, req[q], task[q], u, served[q], served[q], loose[q], commits[q], 1, FALSE,
           seen[q], met, rebound, binding[req[q].name])
  <2>1. req[q].phase = "running" => \A x \in served[q] : Fine(q, x, FALSE, loose[q], seen[q], rebound)
    BY <1>4, ReadSoFar
  <2> QED
    BY <1>1, <1>2, <1>3, <2>1 DEF Goes, Works, ChangeKinds, NameKinds, NamedChanges
<1>6. Effects(q, served[q], loose[q], 1)
  BY <1>1, <1>3 DEF Effects, WebTyped
<1>7. FALSE \in BOOLEAN /\ 1 \in Nat
  OBVIOUS
<1> QED
  BY <1>1, <1>5, <1>6, <1>7, Proceeds DEF RequestParts

LEMMA MutateStep == ASSUME WebInv, Observe, NEW q \in Requests, MutateOperation(q) PROVE WebInv'
<1>1. Running(q) /\ WebTyped /\ RequestParts(q) /\ Works(q)
  BY RunningFacts DEF MutateOperation
<1>2. task[q].operations[1] \in {"mutate", "intent"} /\ req[q].handler.kind \in NamedChanges /\ commits[q] = 0
  BY <1>1 DEF MutateOperation, Works, Allowed, HandlerKinds, ChangeKinds, NameKinds, NamedChanges, After
<1>3. Usable(q) => q \in met /\ Target(q) \in Repos \cup {NoRepo}
  BY <1>1 DEF Works
<1>4. CASE /\ Usable(q)
           /\ Continue(q, Target(q), req[q].public)
           /\ commits' = [commits EXCEPT ![q] = @ + 1]
  <2>1. req[q].public = FALSE
    BY <1>1, <1>2, ReadSoFar DEF NamedChanges
  <2>2. Continue(q, Target(q), FALSE) /\ UNCHANGED <<world, served, loose, open>>
    BY <1>4, <2>1 DEF MutateOperation
  <2>3. task[q].operations[1] \in ChangeKinds
    BY <1>2 DEF ChangeKinds
  <2> QED
    BY <1>1, <1>3, <1>4, <2>2, <2>3, CommitHolds
<1>5. CASE /\ Usable(q)
           /\ \E answer \in {"400", "403", "409"} : Stop(q, answer)
           /\ UNCHANGED commits
  <2>1. PICK a \in {"400", "403", "409"} : Stop(q, a)
    BY <1>5
  <2>2. a \in Answers /\ UNCHANGED <<world, effects>>
    BY <1>5 DEF Answers, MutateOperation, effects
  <2>3. req[q].handler.kind \notin NameKinds
    BY <1>2 DEF NameKinds, NamedChanges
  <2> QED
    BY <1>1, <1>2, <1>3, <1>5, <2>1, <2>2, <2>3, Fails
<1>6. CASE /\ Stop(q, IF Target(q) = NoRepo THEN req[q].handler.absent ELSE req[q].handler.hidden)
           /\ UNCHANGED commits
  <2>1. PICK a \in {"403", "404", "500"} : Stop(q, a)
    BY <1>1, <1>6 DEF RequestParts, RequestRow, HandlerRow
  <2>2. a \in Answers /\ UNCHANGED <<world, effects>>
    BY <1>6 DEF Answers, MutateOperation, effects
  <2> QED
    BY <1>1, <1>2, <2>1, <2>2, Fails
<1> QED
  BY <1>4, <1>5, <1>6 DEF MutateOperation

LEMMA IntentStep == ASSUME WebInv, Observe, NEW q \in Requests, IntentOperation(q) PROVE WebInv'
<1>1. Running(q) /\ WebTyped /\ RequestParts(q) /\ Works(q)
  BY RunningFacts DEF IntentOperation, At
<1>2. task[q].operations[1] = "intent" /\ req[q].handler.kind \in {"intent", "pull", "merge"} /\ commits[q] = 0
  BY <1>1 DEF IntentOperation, At, Works, Allowed, HandlerKinds, ChangeKinds, NameKinds, After
<1>3. task[q] \in TaskRow /\ q \in met
  BY <1>1 DEF RequestParts, Works, IntentOperation
<1>4. PICK a \in Unsure(req[q].handler.kind) \cap {"409", "500"} : Stop(q, a)
  BY <1>2 DEF IntentOperation, Unsure
<1>5. Stoppable(q, req[q], task[q], [task[q] EXCEPT !.operations = <<>>], commits[q], open, met, a, open')
  BY <1>1, <1>2, <1>3, <1>4 DEF Stoppable, Works, TaskRow, IntentOperation, NameKinds
<1>6. Refuses(q, a) /\ a \in Answers
  BY <1>4, <1>5 DEF Refuses, IntentOperation, Answers
<1> QED
  BY <1>1, <1>6, Stops

\* The second look at a pull request finds it, or answers that there is none.
LEMMA RereadStep == ASSUME WebInv, Observe, NEW q \in Requests, RereadOperation(q) PROVE WebInv'
<1>1. Running(q) /\ WebTyped /\ RequestParts(q) /\ Works(q) /\ UNCHANGED <<world, effects>>
  BY RunningFacts DEF RereadOperation, At
<1>2. task[q].operations[1] = "reread" /\ req[q].handler.kind \in {"pull", "merge"}
  BY <1>1 DEF RereadOperation, At, Works, Allowed, HandlerKinds, ChangeKinds, NameKinds
<1>3. commits[q] = 1 /\ req[q].public = FALSE
  <2>1. 1 \in 1..Len(task[q].operations)
    BY <1>1, HeadTail DEF RequestParts, TaskRow, Works
  <2>2. req[q].public = FALSE
    BY <1>1, <1>2, ReadSoFar
  <2> QED
    BY <1>1, <1>2, <2>1, <2>2 DEF Works, JobGood, After, ChangeKinds
<1>4. CASE Usable(q) /\ Continue(q, task[q].repo, req[q].public)
  <2> DEFINE u == [operations |-> Tail(task[q].operations), repo |-> task[q].repo]
  <2>1. req[q].phase = "running" => \A x \in served[q] : Fine(q, x, FALSE, loose[q], seen[q], rebound)
    BY <1>1, <1>2, <1>3, ReadSoFar
  <2>2. Goes(q, req[q], task[q], u, served[q], served[q], loose[q], commits[q], commits[q], FALSE,
             seen[q], met, rebound, binding[req[q].name])
    BY <1>1, <1>2, <1>3, <1>4, <2>1 DEF Goes, Works, NameKinds, ChangeKinds
  <2>3. Effects(q, served[q], loose[q], commits[q])
    BY <1>1, NoEffects
  <2>4. FALSE \in BOOLEAN /\ task[q].repo \in Repos \cup {NoRepo} /\ Continue(q, task[q].repo, FALSE)
    BY <1>1, <1>3, <1>4 DEF RequestParts, TaskRow
  <2> QED
    BY <1>1, <2>2, <2>3, <2>4, Proceeds DEF RequestParts
<1>5. CASE Stop(q, "404")
  <2>1. "404" \in Answers /\ "404" \in Unsure(req[q].handler.kind)
    BY <1>2 DEF Answers, Unsure
  <2> QED
    BY <1>1, <1>5, <2>1, Fails
<1> QED
  BY <1>4, <1>5 DEF RereadOperation

LEMMA StoreStep == ASSUME WebInv, Observe, NEW q \in Requests, StoreOperation(q) PROVE WebInv'
<1>1. Running(q) /\ WebTyped /\ RequestParts(q) /\ Works(q)
  BY RunningFacts DEF StoreOperation
<1>2. /\ task[q].operations[1] \in {"store", "account"} /\ req[q].handler.kind \in {"store", "account"}
      /\ commits[q] = 0
  BY <1>1 DEF StoreOperation, Works, Allowed, HandlerKinds, ChangeKinds, NameKinds, After
<1>3. CASE Continue(q, NoRepo, FALSE) /\ commits' = [commits EXCEPT ![q] = @ + 1]
  <2>1. task[q].operations[1] \in ChangeKinds /\ UNCHANGED <<world, served, loose, open>>
    BY <1>2 DEF ChangeKinds, StoreOperation
  <2> QED
    BY <1>1, <1>2, <1>3, <2>1, CommitHolds DEF NamedChanges
<1>4. CASE /\ \E answer \in {"400", "403", "404", "409"} : Stop(q, answer)
           /\ UNCHANGED commits
  <2>1. PICK a \in {"400", "403", "404", "409"} : Stop(q, a)
    BY <1>4
  <2>2. a \in Answers /\ UNCHANGED <<world, effects>>
    BY <1>4 DEF Answers, StoreOperation, effects
  <2>3. req[q].handler.kind \notin NameKinds /\ req[q].handler.kind \notin NamedChanges
    BY <1>2 DEF NameKinds, NamedChanges
  <2> QED
    BY <1>1, <1>2, <2>1, <2>2, <2>3, Fails
<1> QED
  BY <1>3, <1>4 DEF StoreOperation

LEMMA ReloadStep == ASSUME WebInv, Observe, NEW q \in Requests, ReloadOperation(q) PROVE WebInv'
<1>1. Running(q) /\ WebTyped /\ RequestParts(q) /\ Works(q) /\ UNCHANGED <<world, effects>>
  BY RunningFacts DEF ReloadOperation, At
<1>2. task[q].operations[1] = "reload" /\ req[q].handler.kind \in {"account", "list", "token"} \cup ChangeKinds
  BY <1>1 DEF ReloadOperation, At, Works, Allowed, HandlerKinds, ChangeKinds, NameKinds
<1>3. req[q].handler.kind \in ChangeKinds => req[q].handler.kind = "account" /\ commits[q] = 1
  <2>1. 1 \in 1..Len(task[q].operations)
    BY <1>1, HeadTail DEF RequestParts, TaskRow, Works
  <2> QED
    BY <1>1, <1>2, <2>1 DEF Works, JobGood, After, Allowed, ChangeKinds
<1>4. CASE Continue(q, NoRepo, FALSE)
  <2> DEFINE u == [operations |-> Tail(task[q].operations), repo |-> NoRepo]
  <2>1. req[q].handler.kind \notin NameKinds \cup NamedChanges /\ req[q].public = FALSE
    <3>1. req[q].handler.kind \notin NameKinds \cup NamedChanges
      BY <1>2, <1>3 DEF NameKinds, ChangeKinds, NamedChanges
    <3> QED
      BY <1>1, <3>1, ReadSoFar DEF NameKinds
  <2>2. req[q].phase = "running" => \A x \in served[q] : Fine(q, x, FALSE, loose[q], seen[q], rebound)
    BY <1>1, <2>1, ReadSoFar
  <2>3. Goes(q, req[q], task[q], u, served[q], served[q], loose[q], commits[q], commits[q], FALSE,
             seen[q], met, rebound, binding[req[q].name])
    BY <1>1, <1>2, <1>3, <2>1, <2>2 DEF Goes, Works, NameKinds
  <2>4. Effects(q, served[q], loose[q], commits[q])
    BY <1>1, NoEffects
  <2>5. FALSE \in BOOLEAN /\ NoRepo \in Repos \cup {NoRepo}
    OBVIOUS
  <2> QED
    BY <1>1, <1>4, <2>3, <2>4, <2>5, Proceeds DEF RequestParts
<1>5. CASE \E answer \in {"400", "500"} : Stop(q, answer)
  <2>1. PICK a \in {"400", "500"} : Stop(q, a)
    BY <1>5
  <2>2. a \in Answers /\ (commits[q] = 1 => a \in Unsure(req[q].handler.kind))
    <3>1. commits[q] = 1 => req[q].handler.kind \in ChangeKinds
      BY <1>1 DEF RequestParts, Fit, Told
    <3> QED
      BY <1>3, <3>1 DEF Answers, Unsure
  <2> QED
    BY <1>1, <2>1, <2>2, Fails
<1> QED
  BY <1>4, <1>5 DEF ReloadOperation

LEMMA FailStep == ASSUME WebInv, Observe, NEW q \in Requests, JobFails(q) PROVE WebInv'
<1>1. Running(q) /\ Works(q)
  BY RunningFacts DEF JobFails
<1>2. task[q].operations[1] # "reload" /\ Stop(q, "500") /\ UNCHANGED <<world, effects>> /\ "500" \in Answers
  BY <1>1 DEF JobFails, Works, Answers
<1>3. commits[q] = 1 => req[q].handler.kind \in {"pull", "merge"}
  BY <1>1, <1>2 DEF Works, After, Allowed, HandlerKinds, ChangeKinds, NameKinds
<1> QED
  BY <1>1, <1>2, <1>3, Fails DEF Unsure

-----------------------------------------------------------------------------
\* A handler is chosen for a request that comes in.
LEMMA ArriveStep == ASSUME WebInv, Observe, NEW q \in Requests, Arrive(q) PROVE WebInv'
<1>1. WebTyped /\ RequestParts(q)
  BY Parts
<1> SUFFICES ASSUME NEW h \in Offered[q], NEW n \in Names, NEW cookie \in BOOLEAN, NEW confirm \in h.confirm,
                    req' = [req EXCEPT ![q] = [NoRequest EXCEPT !.phase = "waiting", !.handler = h, !.name = n,
                                                                !.cookie = cookie, !.confirm = confirm]]
             PROVE  WebInv'
  BY Zenon DEF Arrive
<1>2. /\ req[q].phase = "none" /\ task[q].operations = <<>> /\ served[q] = {} /\ commits[q] = 0 /\ q \notin open
  BY <1>1 DEF Arrive, RequestParts, Fit, Control, Told
<1>3. h \in Handlers /\ HandlerGood(h)
  BY OfferedAssumption, HandlersGood
<1> DEFINE p == [NoRequest EXCEPT !.phase = "waiting", !.handler = h, !.name = n,
                                  !.cookie = cookie, !.confirm = confirm]
<1>4. /\ p \in RequestRow /\ p.phase = "waiting" /\ p.handler = h /\ p.name = n
      /\ p.answer = "none" /\ p.public = FALSE
  BY <1>3 DEF NoRequest, RequestRow, Phases, Answers, HandlerGood, HandlerRow
<1> HIDE DEF p
<1>5. Fit(q, p, task[q], served[q], loose[q], commits[q], open, seen[q], met, rebound, binding[p.name])
  <2>1. Control(p, task[q].operations, served[q], commits[q])
    BY <1>2, <1>3, <1>4 DEF Control, HandlerGood
  <2>2. Told(q, p, task[q].operations, commits[q], open)
    BY <1>2, <1>4 DEF Told
  <2>3. Reads(q, p, task[q], served[q], loose[q], seen[q], met, rebound, binding[p.name])
    BY <1>2, <1>3, <1>4 DEF Reads, HandlerGood
  <2> QED
    BY <2>1, <2>2, <2>3 DEF Fit
<1>6. req' = [req EXCEPT ![q] = p]
  BY DEF p
<1>7. Leaves(q, p, task[q], served[q], loose[q], commits[q]) /\ open' = open
  BY <1>1, <1>6 DEF Arrive, Leaves, WebTyped, effects
<1>8. Room(q, p, task[q])
  BY <1>2, <1>4 DEF Room
<1> QED
  BY <1>1, <1>4, <1>5, <1>7, <1>8, RequestStep DEF RequestParts

LEMMA BusyStep == ASSUME WebInv, Observe, NEW q \in Requests, Busy(q) PROVE WebInv'
<1>1. RequestParts(q) /\ req[q].phase = "waiting"
  BY Parts DEF Busy
<1>2. "503" \in Answers /\ Answerable(req[q], task[q], served[q], commits[q], "503")
  BY <1>1 DEF RequestParts, Fit, Control, Told, Answerable, Answers
<1> QED
  BY <1>1, <1>2, AnswerStep DEF Busy

LEMMA EarlyStep == ASSUME WebInv, Observe, NEW q \in Requests, Early(q) PROVE WebInv'
<1>1. /\ RequestParts(q) /\ req[q].phase = "queued" /\ served[q] = {} /\ task[q].operations = <<>>
      /\ UNCHANGED <<world, task, effects>>
  BY Parts DEF Early, Running
<1>2. commits[q] = 0
  BY <1>1 DEF RequestParts, Fit, Told
<1>3. CASE \E a \in req[q].handler.early : Answer(q, a)
  <2>1. PICK a \in req[q].handler.early : Answer(q, a)
    BY <1>3
  <2>2. a \in Answers
    BY <1>1 DEF RequestParts, RequestRow, HandlerRow
  <2>3. Answerable(req[q], task[q], served[q], commits[q], a)
    BY <1>1, <1>2 DEF RequestParts, Fit, Control, Answerable, EarlyGood
  <2> QED
    BY <1>1, <2>1, <2>2, <2>3, AnswerStep
<1>4. CASE req[q].confirm = "no" /\ Answer(q, "ok")
  <2>1. "ok" \in Answers /\ Answerable(req[q], task[q], served[q], commits[q], "ok")
    BY <1>1, <1>2, <1>4 DEF Answerable, Answers
  <2> QED
    BY <1>1, <1>4, <2>1, AnswerStep
<1> QED
  BY <1>3, <1>4 DEF Early

LEMMA TimeoutStep == ASSUME WebInv, Observe, NEW q \in Requests, RequestTimeout(q) PROVE WebInv'
<1>1. RequestParts(q) /\ req[q].phase \in {"queued", "running"}
  BY Parts DEF RequestTimeout, Admitted
<1>2. "408" \in Answers /\ Answerable(req[q], task[q], served[q], commits[q], "408")
  BY <1>1 DEF Answerable, Answers
<1> QED
  BY <1>1, <1>2, AnswerStep DEF RequestTimeout

LEMMA AdmitStep == ASSUME WebInv, Observe, NEW q \in Requests, Admit(q) PROVE WebInv'
<1>1. WebTyped /\ RequestParts(q) /\ req[q].phase = "waiting"
  BY Parts DEF Admit
<1> DEFINE p == AdmittedRow(req[q])
<1>2. req' = [req EXCEPT ![q] = p]
  BY <1>1 DEF Admit, AdmittedRow, WebTyped
<1>3. /\ p \in RequestRow /\ p.name = req[q].name /\ task[q].operations = <<>>
      /\ Fit(q, p, task[q], served[q], loose[q], commits[q], open, seen[q], met, rebound, binding[req[q].name])
  <2>1. /\ req[q] \in RequestRow /\ task[q] \in TaskRow /\ commits[q] \in Nat
        /\ Fit(q, req[q], task[q], served[q], loose[q], commits[q], open, seen[q], met, rebound, binding[req[q].name])
        /\ req[q].phase = "waiting"
    BY <1>1 DEF RequestParts
  <2> QED
    BY SMTT(40), <2>1, AdmitHolds
<1> HIDE DEF p
<1>4. Leaves(q, p, task[q], served[q], loose[q], commits[q]) /\ open' = open
  BY <1>1, <1>2 DEF Admit, Leaves, WebTyped, effects
<1>5. Room(q, p, task[q])
  BY <1>3 DEF Room, Admit
<1> QED
  BY <1>1, <1>3, <1>4, <1>5, RequestStep DEF RequestParts

LEMMA StartStep == ASSUME WebInv, Observe, NEW q \in Requests, StartJob(q) PROVE WebInv'
<1>1. WebTyped /\ RequestParts(q) /\ req[q].phase = "queued"
  BY Parts DEF StartJob
<1> DEFINE u == [task[q] EXCEPT !.operations = Head(req[q].handler.jobs)]
           p == StartedRow(req[q])
<1>2. u \in TaskRow /\ u.operations = Head(req[q].handler.jobs) /\ u.repo = task[q].repo
  <2>1. req[q].handler.jobs \in Seq(Seq(Operations)) /\ req[q].handler.jobs # <<>>
    BY <1>1 DEF RequestParts, RequestRow, HandlerRow, Fit, Control
  <2>2. Head(req[q].handler.jobs) \in Seq(Operations)
    BY <2>1, HeadTail
  <2> QED
    BY <1>1, <2>2 DEF RequestParts, TaskRow
<1>3. task' = [task EXCEPT ![q] = u]
  BY <1>1 DEF StartJob, WebTyped
<1>4. req' = [req EXCEPT ![q] = p]
  <2>1. CASE Head(req[q].handler.jobs) = <<"stream">>
    BY <2>1 DEF StartJob, Answer, Answered, StartedRow, AnsweredRow
  <2>2. CASE Head(req[q].handler.jobs) # <<"stream">>
    <3>1. p = [req[q] EXCEPT !.phase = "running", !.handler.jobs = Tail(@)]
      BY <2>2 DEF StartedRow
    <3>2. req' = [req EXCEPT ![q].phase = "running", ![q].handler.jobs = Tail(@)]
      BY <2>2 DEF StartJob
    <3> HIDE DEF p
    <3> QED
      BY <1>1, <3>1, <3>2 DEF WebTyped
  <2> QED
    BY <2>1, <2>2
<1> HIDE DEF u
<1>5. /\ p \in RequestRow /\ p.name = req[q].name
      /\ Fit(q, p, u, served[q], loose[q], commits[q], open, seen[q], met, rebound, binding[req[q].name])
  <2>1. req[q].confirm = "yes" \/ u.operations \in {<<"actor">>, <<"auth">>}
    BY <1>2 DEF StartJob
  <2> QED
    BY <1>1, <1>2, <2>1, StartHolds DEF RequestParts
<1> HIDE DEF p
<1>6. Leaves(q, p, u, served[q], loose[q], commits[q]) /\ open' = open
  BY <1>1, <1>3, <1>4 DEF StartJob, Leaves, WebTyped, effects
<1>7. Room(q, p, u)
  BY <1>1 DEF Room, Admitted, StartJob
<1> QED
  BY <1>1, <1>2, <1>5, <1>6, <1>7, RequestStep DEF RequestParts

LEMMA StreamStep == ASSUME WebInv, Observe, NEW q \in Requests, StreamEnds(q) PROVE WebInv'
<1>1. Running(q) /\ WebTyped /\ RequestParts(q) /\ Works(q)
  BY RunningFacts DEF StreamEnds, At
<1>2. req[q].phase = "done"
  BY <1>1 DEF StreamEnds, At, Works, RequestParts, Fit, Control
<1> DEFINE u == [task[q] EXCEPT !.operations = <<>>]
<1>3. u \in TaskRow /\ u.operations = <<>>
  <2>1. <<>> \in Seq(Operations)
    OBVIOUS
  <2> QED
    BY <1>1, <2>1 DEF TaskRow, RequestParts
<1>4. task' = [task EXCEPT ![q] = u]
  BY <1>1 DEF StreamEnds, WebTyped
<1> HIDE DEF u
<1>5. Fit(q, req[q], u, served[q], loose[q], commits[q], open, seen[q], met, rebound, binding[req[q].name])
  <2>1. Control(req[q], u.operations, served[q], commits[q])
    BY <1>1, <1>2, <1>3 DEF RequestParts, Fit, Control
  <2>2. Told(q, req[q], u.operations, commits[q], open)
    BY <1>1, <1>2, <1>3 DEF RequestParts, Fit, Told
  <2>3. Reads(q, req[q], u, served[q], loose[q], seen[q], met, rebound, binding[req[q].name])
    BY <1>1, <1>2, <1>3 DEF RequestParts, Fit, Reads
  <2> QED
    BY <2>1, <2>2, <2>3 DEF Fit
<1>6. Leaves(q, req[q], u, served[q], loose[q], commits[q]) /\ open' = open
  BY <1>1, <1>4 DEF StreamEnds, Leaves, WebTyped, effects
<1>7. Room(q, req[q], u)
  BY <1>2, <1>3 DEF Room
<1> QED
  BY <1>1, <1>3, <1>5, <1>6, <1>7, RequestStep DEF RequestParts

\* The recovery finishes the change of an intent, or gives it up.
LEMMA RecoveryStep == ASSUME WebInv, Observe, NEW q \in Requests, Recovery(q) PROVE WebInv'
<1>1. WebTyped /\ RequestParts(q) /\ q \in open
  BY Parts DEF Recovery
<1>2. /\ commits[q] = 0 /\ req[q].phase = "done" /\ task[q].operations = <<>>
      /\ req[q].confirm = "yes" /\ req[q].answer \in {"408"} \cup Unsure(req[q].handler.kind)
      /\ req[q].answer # "ok" /\ req[q].handler.kind \in ChangeKinds
  BY <1>1 DEF RequestParts, RequestRow, Phases, Fit, Told, Unsure
<1>3. PICK d \in {0, 1} : commits' = [commits EXCEPT ![q] = d]
  <2>1. commits = [commits EXCEPT ![q] = 0]
    BY <1>1, <1>2 DEF WebTyped
  <2>2. [commits EXCEPT ![q] = @ + 1] = [commits EXCEPT ![q] = 1]
    BY <1>1, <1>2 DEF WebTyped
  <2> QED
    BY <2>1, <2>2 DEF Recovery
<1>4. Fit(q, req[q], task[q], served[q], loose[q], d, open', seen[q], met, rebound, binding[req[q].name])
  <2>1. Control(req[q], task[q].operations, served[q], d)
    BY <1>1, <1>2 DEF RequestParts, Fit, Control
  <2>2. Told(q, req[q], task[q].operations, d, open')
    BY <1>2 DEF Recovery, Told, AfterCommit, ChangeKinds
  <2> QED
    BY <1>1, <2>1, <2>2 DEF RequestParts, Fit
<1>5. Leaves(q, req[q], task[q], served[q], loose[q], d)
  BY <1>1, <1>3 DEF Recovery, Leaves, WebTyped, effects
<1>6. Room(q, req[q], task[q])
  BY <1>2 DEF Room
<1> QED
  BY <1>1, <1>4, <1>5, <1>6, RequestStep DEF RequestParts

-----------------------------------------------------------------------------
LEMMA WebInvInit == WebInit => WebInv
<1> SUFFICES ASSUME WebInit PROVE WebInv
  OBVIOUS
<1>1. /\ NoRequest \in RequestRow /\ NoRequest.phase = "none" /\ NoRequest.answer = "none" /\ NoRequest.public = FALSE
      /\ NoRequest.confirm = "yes"
  <2>1. NoHandler \in HandlerRow
    BY DEF NoHandler, Get, Form, HandlerRow, HandlerKinds, NameKinds
  <2>2. NoRequest.name \in Names \cup {NoRequest.name}
    OBVIOUS
  <2> QED
    BY <2>1 DEF NoRequest, RequestRow, Phases, Answers
<1>2. NoRequest.handler.kind = "page"
  BY DEF NoRequest, NoHandler, Get, Form
<1>3. NoTask \in TaskRow /\ NoTask.operations = <<>>
  BY DEF NoTask, TaskRow
<1>4. /\ req = [q \in Requests |-> NoRequest] /\ task = [q \in Requests |-> NoTask]
      /\ served = [q \in Requests |-> {}] /\ loose = [q \in Requests |-> {}]
      /\ commits = [q \in Requests |-> 0] /\ open = {}
  BY DEF WebInit
<1>5. WebTyped
  <2>1. seen \in [Requests -> SeenRows]
    BY DEF WebInit, SeenRows
  <2> QED
    BY <1>1, <1>3, <1>4, <2>1, LimitAssumption DEF WebTyped, WebInit
<1>6. WebPermits
  <2>1. Admitted = {} /\ {q \in Requests : Running(q)} = {}
    BY <1>1, <1>3, <1>4 DEF Admitted, Running
  <2>2. IsFiniteSet({}) /\ Cardinality({}) = 0
    BY FS_EmptySet
  <2>3. 0 <= RequestLimit /\ 0 <= JobLimit
    BY LimitAssumption
  <2> HIDE DEF Admitted
  <2> QED
    BY <2>1, <2>2, <2>3, Zenon DEF WebPermits
<1>7. ASSUME NEW q \in Requests PROVE Holds(q) /\ SeenTells(q)
  <2>1. /\ req[q] = NoRequest /\ task[q] = NoTask /\ served[q] = {} /\ loose[q] = {}
        /\ commits[q] = 0 /\ q \notin open
    BY <1>4
  <2>2. Control(NoRequest, <<>>, {}, 0)
    BY <1>1 DEF Control
  <2>3. Told(q, NoRequest, <<>>, 0, open)
    BY <1>1, <1>2, <2>1 DEF Told, ChangeKinds
  <2>4. Reads(q, NoRequest, NoTask, {}, {}, seen[q], met, rebound, binding[NoRequest.name])
    BY <1>1, <1>2 DEF Reads
  <2>5. ~Lasts(q)
    BY <1>1, <1>3, <2>1 DEF Lasts, Running
  <2> QED
    BY <1>3, <2>1, <2>2, <2>3, <2>4, <2>5 DEF Holds, Fit, SeenTells
<1> QED
  BY <1>5, <1>6, <1>7 DEF WebInv

LEMMA WebInvNext == WebInv /\ [WebNext]_webVars => WebInv'
<1> SUFFICES ASSUME WebInv, [WebNext]_webVars PROVE WebInv'
  OBVIOUS
<1>1. CASE UNCHANGED webVars
  <2>1. UNCHANGED <<binding, level, session, changes, req, task, served, loose, commits, open, seen, met, rebound>>
    BY <1>1 DEF webVars, world, effects, history
  <2>2. WebTyped' /\ WebPermits'
    BY <2>1 DEF WebInv, WebTyped, WebPermits, Admitted, Running
  <2>3. \A q \in Requests : Holds(q)'
    BY <2>1 DEF WebInv, Holds
  <2>4. \A q \in Requests : SeenTells(q)'
    BY <2>1 DEF WebInv, SeenTells, Lasts, Running, Usable, Target, CanRead, Known
  <2> QED
    BY <2>2, <2>3, <2>4 DEF WebInv
<1>2. CASE WebNext
  <2>1. Observe /\ WebTyped
    BY <1>2 DEF WebNext, WebInv
  <2>2. CASE Others
    <3>1. CASE \E n \in Names, r \in Repos \cup {NoRepo} : Rebind(n, r)
      BY <2>1, <3>1, OthersStep, LimitAssumption DEF Rebind, WebTyped
    <3>2. CASE \E r \in Repos, l \in {"public", "private", "hidden"} : SetLevel(r, l)
      BY <2>1, <3>2, OthersStep, LimitAssumption DEF SetLevel, WebTyped
    <3>3. CASE EndSession
      <4>1. /\ binding' \in [Names -> Repos \cup {NoRepo}] /\ level' \in [Repos -> {"public", "private", "hidden"}]
            /\ changes' \in 0..MaxChanges
            /\ UNCHANGED <<req, task, effects>>
        BY <2>1, <3>3, LimitAssumption DEF EndSession, WebTyped
      <4>2. session' \in BOOLEAN
        BY <3>3 DEF EndSession
      <4> QED
        BY <2>1, <4>1, <4>2, OthersStep
    <3> QED
      BY <2>2, <3>1, <3>2, <3>3 DEF Others
  <2>3. CASE \E q \in Requests : Guard(q)
    BY <2>1, <2>3, BusyStep, AdmitStep, EarlyStep, TimeoutStep DEF Guard
  <2>4. CASE \E q \in Requests : Operation(q)
    BY <2>1, <2>4, ActorStep, AuthStep, ManageStep, ResolveStep, ReadStep, NameStep, ListStep, MutateStep,
       IntentStep, RereadStep, StoreStep, ReloadStep, FailStep DEF Operation
  <2>5. CASE \E q \in Requests : Arrive(q) \/ StartJob(q) \/ StreamEnds(q) \/ Recovery(q)
    BY <2>1, <2>5, ArriveStep, StartStep, StreamStep, RecoveryStep
  <2> QED
    BY <1>2, <2>2, <2>3, <2>4, <2>5 DEF WebNext, Step
<1> QED
  BY <1>1, <1>2

\* The invariant holds in every state.
LEMMA WebInvariant == WebSpec => []WebInv
<1> QED
  BY WebInvInit, WebInvNext, PTL DEF WebSpec

\* Types, and the two limits: request_guard never has more requests admitted than it has
\* permits, and no more jobs run at a time than the pool has, whatever times out.
THEOREM WebTypesTheorem == WebSpec => []WebTypeOK
<1>1. WebInv => WebTypeOK
  <2> SUFFICES ASSUME WebInv PROVE WebTypeOK
    OBVIOUS
  <2>1. WebTyped /\ WebPermits
    BY DEF WebInv
  <2>2. ASSUME NEW q \in Requests
        PROVE  /\ req[q].phase \in {"none", "waiting", "queued", "running", "done"}
               /\ req[q].phase = "running" => Running(q)
               /\ task[q].repo \in Repos \cup {NoRepo}
               /\ loose[q] \subseteq served[q]
    <3>1. RequestParts(q)
      BY Parts
    <3> QED
      BY <3>1 DEF RequestParts, RequestRow, TaskRow, Phases, Fit, Told, Running
  <2> QED
    BY <2>1, <2>2 DEF WebTypeOK, WebTyped, WebPermits
<1> QED
  BY <1>1, WebInvariant, PTL

\* What an answer tells about the change that was asked for (request_guard, the error
\* mappings of the handlers, account_job, the intents of the pull requests and their second
\* look at what they changed): a success that was confirmed was committed, once; a form that
\* was not confirmed changes nothing; a refusal was not committed, and no worker is left that
\* still could, with the exceptions of Unsure.
THEOREM AnswerTheorem == WebSpec => []AnswerTells
<1>1. WebInv => AnswerTells
  <2> DEFINE sure(kind) == {"400", "403", "404", "409", "429", "500", "503", "login"} \ Unsure(kind)
  <2> SUFFICES ASSUME WebInv, NEW q \in Requests
               PROVE  /\ commits[q] <= 1
                      /\ req[q].confirm = "no" => commits[q] = 0 /\ q \notin open
                      /\ req[q].answer = "ok" /\ req[q].confirm = "yes" /\ req[q].handler.kind \in ChangeKinds =>
                           commits[q] = 1
                      /\ req[q].answer \in sure(req[q].handler.kind) =>
                           commits[q] = 0 /\ ~Running(q) /\ q \notin open
    BY DEF AnswerTells, ChangeKinds
  <2> DEFINE kind == req[q].handler.kind
             a == req[q].answer
  <2>1. /\ req[q].phase \in Phases
        /\ Control(req[q], task[q].operations, served[q], commits[q])
        /\ Told(q, req[q], task[q].operations, commits[q], open)
    BY Parts DEF RequestParts, Fit, RequestRow
  <2>2. /\ commits[q] \in {0, 1}
        /\ req[q].confirm = "no" => commits[q] = 0 /\ q \notin open
        /\ a = "ok" /\ req[q].confirm = "yes" /\ kind \in ChangeKinds => commits[q] = 1
    BY <2>1 DEF Told
  <2>3. a \notin {"none", "ok", "408"} => req[q].phase = "done" /\ ~Running(q)
    BY <2>1 DEF Control, Running, Phases
  <2>4. a \in sure(kind) => a \notin {"none", "ok", "408"} \cup Unsure(kind)
    OBVIOUS
  <2>5. a \in sure(kind) => commits[q] = 0 /\ q \notin open
    BY <2>1, <2>2, <2>3, <2>4 DEF Told, AfterCommit
  <2> QED
    BY <2>2, <2>3, <2>4, <2>5
<1> QED
  BY <1>1, WebInvariant, PTL

\* What an answer shows was readable while the request lasted, and an answer marked public
\* (and so cacheable) shows only what was public then; a page, a file or a change succeeds
\* only for a name that led to a readable repository (public.rs, PublicWeb::read and
\* event_page; issues.rs, pull_requests.rs and repository_settings.rs).
THEOREM ServedTheorem == WebSpec => []ServedWasReadable
<1>1. WebInv => ServedWasReadable
  <2> SUFFICES ASSUME WebInv, NEW q \in Requests, req[q].answer \in {"ok", "409"}
               PROVE  /\ \A r \in served[q] :
                           \/ seen[q][r] \in (IF req[q].public THEN {"public"} ELSE {"public", "private"})
                           \/ r \in loose[q] /\ q \in rebound
                      /\ req[q].confirm = "yes" /\ req[q].handler.kind \in NameKinds \cup NamedChanges => q \in met
    BY DEF ServedWasReadable, NameKinds, NamedChanges
  <2>1. /\ Reads(q, req[q], task[q], served[q], loose[q], seen[q], met, rebound, binding[req[q].name])
        /\ req[q].public \in BOOLEAN
    BY Parts DEF RequestParts, Fit, RequestRow
  <2>2. ASSUME NEW r \in served[q]
        PROVE  \/ seen[q][r] \in (IF req[q].public THEN {"public"} ELSE {"public", "private"})
               \/ r \in loose[q] /\ q \in rebound
    <3>1. Fine(q, r, req[q].public, loose[q], seen[q], rebound)
      BY <2>1 DEF Reads
    <3> QED
      BY <2>1, <3>1 DEF Fine, Shown
  <2>3. req[q].confirm = "yes" /\ req[q].handler.kind \in NameKinds \cup NamedChanges => q \in met
    BY <2>1 DEF Reads
  <2> QED
    BY <2>2, <2>3
<1> QED
  BY <1>1, WebInvariant, PTL
=============================================================================
