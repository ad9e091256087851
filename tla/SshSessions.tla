---------------------------- MODULE SshSessions ----------------------------
(***************************************************************************)
(* SSH connections: authentication and its limiter, the Git channels of a  *)
(* connection (fetch and push), commands that read input, the maintenance  *)
(* gate that a push holds from its opening to its end, and what changes    *)
(* under them: keys, roles, names of repositories and the time.            *)
(*                                                                         *)
(* Sources: src/ssh.rs, src/git/transport.rs, src/git/upload_pack.rs,      *)
(* src/git/repository.rs (write_pack), src/policy.rs.                      *)
(*                                                                         *)
(* The handlers of a connection take &mut self: one runs at a time, to its *)
(* end, and whatever it waits for keeps the connection from reading the    *)
(* next message (or the disconnection).  A step between two waits is one   *)
(* action.  A repository has one branch; its commits are 1, 2, ..., each   *)
(* the parent of the next.  How a push changes refs is in GitOperations,   *)
(* what text commands do in Collaboration.                                 *)
(***************************************************************************)
EXTENDS AttemptLimiter

CONSTANTS
  Conns,           \* connections
  Chans,           \* channels: pairs of a connection and a number
  ClientOf,        \* the address a connection comes from
  Keys, Users, Repos, Names,
  Nobody,          \* no key, user or repository
  StartIdentity,   \* the keys at startup
  StartNames,      \* the names of the repositories at startup
  StartRole,       \* the roles at startup
  StartStore,      \* what the clone at each client holds at first
  Asks,            \* what clients ask for: a channel, a kind of service and a name
  AskedProtocols,  \* the values of GIT_PROTOCOL that they send
  NewRoles,        \* the roles that are given
  Local,           \* commits that only clients have, each with 1 as parent
  MaxConnections, MaxPerConnection, MaxGlobal,
  MaxCommit,       \* bound on the commits of a repository
  MaxTime, MaxTries, MaxOpens, MaxChanges, MaxBackups

Roles == {"none", "reader", "writer"}

ASSUME SessionAssumption ==
  /\ Chans \subseteq Conns \X Nat
  /\ AskedProtocols \subseteq {"v0", "v2"} /\ NewRoles \subseteq Roles
  /\ ClientOf \in [Conns -> Clients]
  /\ {MaxConnections, MaxPerConnection, MaxGlobal,
      MaxTime, MaxTries, MaxOpens, MaxChanges, MaxBackups} \subseteq Nat
  /\ Nobody \notin Keys \cup Users \cup Repos \cup Names
  /\ StartIdentity \in [Keys -> Users \cup {Nobody}]
  /\ StartNames \in [Names -> Repos \cup {Nobody}]
  /\ StartRole \in [Repos -> [Users -> Roles]]

ASSUME CommitAssumption ==
  /\ MaxCommit \in Nat \ {0}
  /\ Local \subseteq Nat /\ Local \cap (1..MaxCommit) = {}

VARIABLES
  conn,      \* each connection: whether it is up, its permit, its key and user, its protocol
  chan,      \* exec_channels: the entry of each channel
  handler,   \* the handler that runs in each connection
  identity,  \* AuthorizedSshKeys: the user of each key
  repoAt,    \* the repository that has a name
  role,      \* the role of each user in each repository
  tip,       \* the branch of each repository
  store,     \* the commits in the clone at the client of each connection
  backup,    \* the online backup: "none", "queued" or "held"
  opens, changes, backups  \* counters for the bounds

world == <<identity, repoAt, role, changes>>
sshVars == <<conn, chan, handler, tip, store, opens>>
vars == <<limiterVars, sshVars, world, backup, backups>>

Protocols == {"v0", "v2"}
NoConn == [up |-> FALSE, permit |-> FALSE, key |-> Nobody, who |-> Nobody, protocol |-> "v0"]
Entry(kind, name, repo, key, who, protocol) ==
  [kind |-> kind, name |-> name, repo |-> repo, key |-> key, who |-> who, late |-> FALSE, seen |-> 0,
   protocol |-> protocol]
Closed == Entry("none", Nobody, Nobody, Nobody, Nobody, "v0")
Handling(stage, ch, row) == [stage |-> stage, chan |-> ch, row |-> row, granted |-> TRUE]
Idle == Handling("idle", Nobody, Closed)

ChansOf(c) == {ch \in Chans : ch[1] = c}
IsGit(ch) == chan[ch].kind \in {"upload", "receive"}
Free(c) == conn[c].up /\ handler[c].stage = "idle"
Opening(c) == handler[c].stage \in {"lease", "advertise"}

\* Whoever has a lease of the gate: the entry of a push, and a handler that opens one.
Leased(c) ==
  \/ \E ch \in ChansOf(c) : chan[ch].kind = "receive"
  \/ handler[c].stage = "advertise" /\ handler[c].row.kind = "receive"

\* The permits of git_channels that are taken
GlobalChannels ==
  Cardinality({ch \in Chans : IsGit(ch)}) + Cardinality({c \in Conns : Opening(c)})

ActiveIdentity(c) == conn[c].who # Nobody /\ identity[conn[c].key] = conn[c].who

\* RepositoryPolicy::authorize, by name
Authorize(who, name, roles) == repoAt[name] # Nobody /\ role[repoAt[name]][who] \in roles
CanRead(who, name) == Authorize(who, name, {"reader", "writer"})
CanWrite(who, name) == Authorize(who, name, {"writer"})

\* walk_reachable
Reach(n) == IF n \in Local THEN {1, n} ELSE 1..n
ReachAll(ns) == UNION {Reach(n) : n \in ns}

ASSUME CloneAssumption ==
  StartStore \in [Conns -> SUBSET Nat] /\ \A c \in Conns : ReachAll(StartStore[c]) \subseteq StartStore[c]

Init ==
  /\ LimiterInit
  /\ conn = [c \in Conns |-> NoConn]
  /\ chan = [ch \in Chans |-> Closed]
  /\ handler = [c \in Conns |-> Idle]
  /\ identity = StartIdentity
  /\ repoAt = StartNames
  /\ role = StartRole
  /\ tip = [r \in Repos |-> 1]
  /\ store = StartStore
  /\ backup = "none"
  /\ opens = 0 /\ changes = 0 /\ backups = 0

-----------------------------------------------------------------------------
(***************************************************************************)
(* Connections                                                             *)
(***************************************************************************)

\* new_client: a connection over the limit lives, without a permit.
NewClient(c) ==
  /\ ~conn[c].up
  /\ opens < MaxOpens
  /\ opens' = opens + 1
  /\ conn' = [conn EXCEPT ![c] = [NoConn EXCEPT !.up = TRUE,
       !.permit = Cardinality({d \in Conns : conn[d].permit}) < MaxConnections]]
  /\ UNCHANGED <<limiterVars, chan, handler, tip, store, world, backup, backups>>

\* auth_publickey: the limiter counts the attempt whether or not the key is known.
AuthPublicKey(c, k) ==
  /\ Free(c) /\ conn[c].who = Nobody
  /\ conn[c].permit
  /\ Len(when) < MaxTries
  /\ \/ /\ Allow(ClientOf[c])
        /\ conn' = IF identity[k] = Nobody THEN conn
                   ELSE [conn EXCEPT ![c].key = k, ![c].who = identity[k]]
     \/ Refuse(ClientOf[c]) /\ UNCHANGED conn
  /\ UNCHANGED <<chan, handler, tip, store, opens, world, backup, backups>>

DisconnectLeaks(c) ==
  /\ Free(c)
  /\ conn' = [conn EXCEPT ![c] = NoConn]
  /\ UNCHANGED <<limiterVars, chan, handler, tip, store, opens, world, backup, backups>>

\* The client goes, or the connection is idle too long: the session is dropped
\* with its channels, their permits and their leases.
Disconnect(c) ==
  /\ Free(c)
  /\ conn' = [conn EXCEPT ![c] = NoConn]
  /\ chan' = [ch \in Chans |-> IF ch[1] = c THEN Closed ELSE chan[ch]]
  /\ UNCHANGED <<limiterVars, handler, tip, store, opens, world, backup, backups>>

\* env_request: the protocol belongs to the connection, not to the channel.
EnvRequest(c, p) ==
  /\ Free(c) /\ conn[c].who # Nobody
  /\ conn' = [conn EXCEPT ![c].protocol = p]
  /\ UNCHANGED <<limiterVars, chan, handler, tip, store, opens, world, backup, backups>>

-----------------------------------------------------------------------------
(***************************************************************************)
(* Channels.  Every message takes the entry out of exec_channels and puts  *)
(* it back only to go on.                                                  *)
(***************************************************************************)
Keep == UNCHANGED <<limiterVars, conn, tip, store, opens, world, backup, backups>>

End(ch) == chan' = [chan EXCEPT ![ch] = Closed]
Start(c, h) == handler' = [handler EXCEPT ![c] = h]
Done(c) == handler' = [handler EXCEPT ![c] = Idle]

\* exec_request, open_git_service: permits, identity and policy, all at once; a
\* request that is refused changes nothing.
OpenGitService(ch, kind, name) ==
  LET c == ch[1] IN
  /\ Free(c)
  /\ Cardinality({d \in ChansOf(c) : IsGit(d)}) < MaxPerConnection
  /\ GlobalChannels < MaxGlobal
  /\ ActiveIdentity(c)
  /\ IF kind = "receive" THEN CanWrite(conn[c].who, name) ELSE CanRead(conn[c].who, name)
  /\ LET protocol == IF kind = "upload" THEN conn[c].protocol ELSE "v0" IN
     Start(c, Handling(IF kind = "receive" THEN "lease" ELSE "advertise", ch,
                       Entry(kind, name, repoAt[name], conn[c].key, conn[c].who, protocol)))
  /\ UNCHANGED chan /\ Keep

\* mutation_permit().await: the lock queues, a backup that waits comes first.
MutationPermit(c) ==
  /\ handler[c].stage = "lease"
  /\ backup = "none"
  /\ Start(c, [handler[c] EXCEPT !.stage = "advertise"])
  /\ UNCHANGED chan /\ Keep

\* The service is opened and advertised; in version 0 that lists the refs.  An
\* entry that the channel had is dropped.  An error leaves everything as it was.
Advertise(c) ==
  /\ handler[c].stage = "advertise"
  /\ LET row == handler[c].row
         seen == IF row.kind = "upload" /\ row.protocol = "v0" THEN tip[row.repo] ELSE 0 IN
     chan' \in {chan, [chan EXCEPT ![handler[c].chan] = [row EXCEPT !.seen = seen]]}
  /\ Done(c) /\ Keep

\* channel_close, a flush, a broken packet line, or any data that comes when the
\* channel is expired, or more than the limits allow: the entry is gone.
ChannelClose(ch) ==
  /\ Free(ch[1])
  /\ chan[ch].kind # "none"
  /\ End(ch)
  /\ UNCHANGED handler /\ Keep

\* Time passes.  A fetch is late past the limits of git_channel_expired, a push
\* already when less than 30 seconds remain; either is noticed at the next
\* message, not before.
Age(ch) ==
  /\ IsGit(ch) /\ ~chan[ch].late
  /\ chan' = [chan EXCEPT ![ch].late = TRUE]
  /\ UNCHANGED handler /\ Keep

-----------------------------------------------------------------------------
(***************************************************************************)
(* Fetch                                                                   *)
(***************************************************************************)

\* data on an upload channel: a request that is complete in the protocol of the
\* connection.  One in another protocol has no end that is recognised, and the
\* channel waits for more (a stuttering step).
UploadData(ch, request) ==
  LET c == ch[1] IN
  /\ Free(c)
  /\ chan[ch].kind = "upload" /\ ~chan[ch].late
  /\ chan[ch].protocol = conn[c].protocol
  /\ request = "ls-refs" => conn[c].protocol = "v2"
  /\ request = "fetch" => chan[ch].seen # 0
  /\ Start(c, Handling(request, ch, Closed))
  /\ UNCHANGED chan /\ Keep

\* respond_ls_refs, and a fetch without done, which is answered NAK.  An error, or
\* the end of the time that remained, ends the channel.
RespondListing(c) ==
  /\ handler[c].stage = "ls-refs"
  /\ LET ch == handler[c].chan IN
     \/ End(ch)
     \/ chan' = [chan EXCEPT ![ch].seen = tip[chan[ch].repo]]
  /\ Done(c) /\ Keep

ExcludedAncestors(haves, want) == IF haves = {} THEN {} ELSE Reach(want) \ {want}

\* write_pack: what the haves reach, of which the server may know nothing
Excluded(haves, want) == ReachAll(haves \ Local)

\* respond_v1, respond_fetch: a want must be the tip of a ref now; the pack is
\* what it reaches and the haves, which the client chose, do not.  The client gets
\* it whole or, after an error or too late, not at all.
RespondFetch(c) ==
  /\ handler[c].stage = "fetch"
  /\ LET ch == handler[c].chan
         want == chan[ch].seen IN
     /\ End(ch)
     /\ \/ /\ want = tip[chan[ch].repo]
           /\ \E haves \in SUBSET store[c] :
                store' = [store EXCEPT ![c] = @ \cup (Reach(want) \ Excluded(haves, want))]
        \/ UNCHANGED store
  /\ Done(c)
  /\ UNCHANGED <<limiterVars, conn, tip, opens, world, backup, backups>>

-----------------------------------------------------------------------------
(***************************************************************************)
(* Push, and commands with input                                           *)
(***************************************************************************)

\* channel_eof after complete commands, or data that completes commands without a
\* pack: finish_receive, which gives up when less than 30 seconds remain.  Data
\* before that only moves last_activity; an end before that is ChannelClose.
FinishReceive(ch) ==
  LET c == ch[1] IN
  /\ Free(c)
  /\ chan[ch].kind = "receive"
  /\ IF ~chan[ch].late
       THEN Start(c, Handling("push", ch, Closed)) /\ UNCHANGED chan
       ELSE End(ch) /\ UNCHANGED handler
  /\ Keep

PushCheckSession(c) ==
  /\ handler[c].stage = "push"
  /\ \A d \in Conns : handler[d].stage # "write"
  /\ LET ch == handler[c].chan
         row == chan[ch] IN
     IF conn[c].who = row.who /\ CanWrite(row.who, row.name)
       THEN /\ Start(c, [handler[c] EXCEPT !.stage = "write",
                  !.granted = /\ identity[row.key] = row.who
                              /\ role[row.repo][row.who] = "writer" \/ repoAt[row.name] # row.repo])
            /\ UNCHANGED chan
       ELSE End(ch) /\ Done(c)
  /\ Keep

\* push_permit, then the key and the policy once more, the policy by the name of
\* the repository while the service holds its directory.  `granted` remembers
\* whether the user could write to that very repository.
PushCheck(c) ==
  /\ handler[c].stage = "push"
  /\ \A d \in Conns : handler[d].stage # "write"
  /\ LET ch == handler[c].chan
         row == chan[ch] IN
     IF identity[row.key] = row.who /\ CanWrite(row.who, row.name)
       THEN /\ Start(c, [handler[c] EXCEPT !.stage = "write",
                  !.granted = /\ identity[row.key] = row.who
                              /\ role[row.repo][row.who] = "writer" \/ repoAt[row.name] # row.repo])
            /\ UNCHANGED chan
       ELSE End(ch) /\ Done(c)
  /\ Keep

\* ReceivePack::finish changes the ref or rejects.
PushWrite(c) ==
  /\ handler[c].stage = "write"
  /\ LET ch == handler[c].chan
         r == chan[ch].repo IN
     /\ End(ch)
     /\ \E n \in tip[r]..MaxCommit : tip' = [tip EXCEPT ![r] = n]
  /\ Done(c)
  /\ UNCHANGED <<limiterVars, conn, store, opens, world, backup, backups>>

\* issue create, issue comment and pr create wait for their input.
OpenInput(ch, name) ==
  LET c == ch[1] IN
  /\ Free(c)
  /\ ActiveIdentity(c)
  /\ chan' = [chan EXCEPT ![ch] = Entry("input", name, Nobody, Nobody, conn[c].who, "v0")]
  /\ UNCHANGED handler /\ Keep

\* A command without input is checked and run when it arrives.
RunCommand(c) ==
  /\ Free(c)
  /\ ActiveIdentity(c)
  /\ Start(c, Handling("run", Nobody, Closed))
  /\ UNCHANGED chan /\ Keep

\* channel_eof: the key must still be the one of the actor.
RunInput(ch) ==
  LET c == ch[1] IN
  /\ Free(c)
  /\ chan[ch].kind = "input"
  /\ End(ch)
  /\ IF ActiveIdentity(c) /\ conn[c].who = chan[ch].who
       THEN Start(c, [Handling("run", Nobody, Closed) EXCEPT !.granted = identity[conn[c].key] = chan[ch].who])
       ELSE UNCHANGED handler
  /\ Keep

RunEnds(c) ==
  /\ handler[c].stage = "run"
  /\ UNCHANGED chan /\ Done(c) /\ Keep

-----------------------------------------------------------------------------
(***************************************************************************)
(* The world around                                                        *)
(***************************************************************************)
Change == changes < MaxChanges /\ changes' = changes + 1
Elsewhere == UNCHANGED <<limiterVars, sshVars, backup, backups>>

\* The cache of keys is loaded again: a key is revoked or belongs to another user.
ReloadKeys(k, u) ==
  /\ Change
  /\ identity[k] # u
  /\ identity' = [identity EXCEPT ![k] = u]
  /\ UNCHANGED <<repoAt, role>> /\ Elsewhere

SetRole(r, u, new) ==
  /\ Change
  /\ role[r][u] # new
  /\ role' = [role EXCEPT ![r][u] = new]
  /\ UNCHANGED <<identity, repoAt>> /\ Elsewhere

RenameRepository(old, new) ==
  /\ Change
  /\ repoAt[old] # Nobody /\ repoAt[new] = Nobody
  /\ repoAt' = [repoAt EXCEPT ![new] = repoAt[old], ![old] = Nobody]
  /\ UNCHANGED <<identity, role>> /\ Elsewhere

BackupQueues ==
  /\ backup = "none" /\ backups < MaxBackups
  /\ backup' = "queued" /\ backups' = backups + 1
  /\ UNCHANGED <<limiterVars, sshVars, world>>

BackupHolds ==
  /\ backup = "queued"
  /\ \A c \in Conns : ~Leased(c)
  /\ backup' = "held"
  /\ UNCHANGED <<limiterVars, sshVars, world, backups>>

BackupReleases ==
  /\ backup = "held"
  /\ backup' = "none"
  /\ UNCHANGED <<limiterVars, sshVars, world, backups>>

Clock == now < MaxTime /\ Tick /\ UNCHANGED <<sshVars, world, backup, backups>>

-----------------------------------------------------------------------------
HandlerStep(c) ==
  \/ MutationPermit(c) \/ Advertise(c) \/ RespondListing(c) \/ RespondFetch(c)
  \/ PushCheck(c) \/ PushWrite(c) \/ RunEnds(c)
Message(ch) ==
  \/ \E name \in Names :
       \/ \E kind \in {"upload", "receive"} : <<ch, kind, name>> \in Asks /\ OpenGitService(ch, kind, name)
       \/ <<ch, "input", name>> \in Asks /\ (OpenInput(ch, name) \/ RunCommand(ch[1]))
  \/ UploadData(ch, "ls-refs") \/ UploadData(ch, "fetch")
  \/ FinishReceive(ch) \/ RunInput(ch) \/ ChannelClose(ch)
Session(c) ==
  \/ NewClient(c) \/ Disconnect(c)
  \/ \E k \in Keys : AuthPublicKey(c, k)
  \/ \E ask \in Asks, p \in AskedProtocols : ask[1][1] = c /\ ask[2] = "upload" /\ EnvRequest(c, p)
World ==
  \/ \E k \in Keys, u \in Users \cup {Nobody} : ReloadKeys(k, u)
  \/ \E r \in Repos, u \in Users, new \in NewRoles : SetRole(r, u, new)
  \/ \E old, new \in Names : RenameRepository(old, new)
  \/ BackupQueues \/ BackupHolds \/ BackupReleases \/ Clock

Next ==
  \/ \E c \in Conns : Session(c) \/ HandlerStep(c)
  \/ \E ch \in Chans : Message(ch) \/ Age(ch)
  \/ World

Spec == Init /\ [][Next]_vars

\* Handlers and backups go on when what they wait for is there; no client keeps
\* its connection for ever.
FairSpec ==
  /\ Spec
  /\ \A c \in Conns : WF_vars(HandlerStep(c)) /\ SF_vars(Disconnect(c))
  /\ WF_vars(BackupHolds) /\ WF_vars(BackupReleases)

-----------------------------------------------------------------------------
ConnRow == [up : BOOLEAN, permit : BOOLEAN, key : Keys \cup {Nobody}, who : Users \cup {Nobody},
            protocol : Protocols]
ChanRow == [kind : {"none", "upload", "receive", "input"}, name : Names \cup {Nobody},
            repo : Repos \cup {Nobody}, key : Keys \cup {Nobody}, who : Users \cup {Nobody},
            late : BOOLEAN, seen : 0..MaxCommit, protocol : Protocols]
Stages == {"idle", "lease", "advertise", "ls-refs", "fetch", "push", "write", "run"}
HandlerRow == [stage : Stages, chan : Chans \cup {Nobody}, row : ChanRow, granted : BOOLEAN]

TypeOK ==
  /\ conn \in [Conns -> ConnRow]
  /\ chan \in [Chans -> ChanRow]
  /\ handler \in [Conns -> HandlerRow]
  /\ identity \in [Keys -> Users \cup {Nobody}]
  /\ repoAt \in [Names -> Repos \cup {Nobody}]
  /\ role \in [Repos -> [Users -> Roles]]
  /\ tip \in [Repos -> 1..MaxCommit]
  /\ store \in [Conns -> SUBSET Nat]
  /\ backup \in {"none", "queued", "held"}
  /\ opens \in Nat /\ changes \in Nat /\ backups \in Nat

\* What is open as a Git service is a repository, asked for by a user with a key.
EntryTells(ch) ==
  /\ IsGit(ch) => chan[ch].repo \in Repos
  /\ chan[ch].kind = "receive" => chan[ch].key \in Keys /\ chan[ch].who \in Users /\ chan[ch].name \in Names

\* What a handler works on: the entry of a channel of its own connection, which
\* nobody else takes away, or one that it is about to make.
HandlerTells(c) ==
  /\ Opening(c) =>
       /\ handler[c].chan \in ChansOf(c)
       /\ handler[c].row.kind \in {"upload", "receive"} /\ handler[c].row.repo \in Repos
       /\ handler[c].row.key \in Keys /\ handler[c].row.who \in Users /\ handler[c].row.name \in Names
  /\ handler[c].stage \in {"ls-refs", "fetch"} =>
       handler[c].chan \in ChansOf(c) /\ chan[handler[c].chan].kind = "upload"
  /\ handler[c].stage \in {"push", "write"} =>
       handler[c].chan \in ChansOf(c) /\ chan[handler[c].chan].kind = "receive"

HandlersTell ==
  /\ \A c \in Conns : conn[c].who # Nobody => conn[c].key \in Keys
  /\ \A ch \in Chans : EntryTells(ch)
  /\ \A c \in Conns : HandlerTells(c)

(***************************************************************************)
(* Whatever was revoked, taken away or renamed since a channel opened, a   *)
(* push writes only to a repository that its user could write to when the  *)
(* check was made, with the key that was accepted, and a command runs only *)
(* for the user whose key it is.  The exception is a repository that lost  *)
(* its name to another one while the push was open: the check is by name.  *)
(***************************************************************************)
ChangesAreAuthorized ==
  \A c \in Conns : handler[c].stage \in {"write", "run"} => handler[c].granted

(***************************************************************************)
(* A fetch never breaks a clone: with every commit it holds its ancestors, *)
(* whatever subset of its commits the client named as haves, with commits  *)
(* the server has never seen, and whatever was pushed since the refs were  *)
(* listed.                                                                 *)
(***************************************************************************)
FetchIsClosed == \A c \in Conns : ReachAll(store[c]) \subseteq store[c]

\* The inductive invariant of the proofs
SessionsInv == TypeOK /\ HandlersTell /\ ChangesAreAuthorized /\ FetchIsClosed

\* The handler of a connection waits for the gate behind a backup that waits for
\* a push on the same connection, which no handler can end.
SelfBlocked(c) ==
  /\ handler[c].stage = "lease" /\ backup = "queued"
  /\ \E ch \in ChansOf(c) : chan[ch].kind = "receive"

(***************************************************************************)
(* A backup that waits gets the gate once the clients have gone, killed or *)
(* finished, unless one connection opens a push while another push is open *)
(* on it: the two then wait for each other for ever.                       *)
(***************************************************************************)
BackupStarts == backup = "queued" ~> (backup = "held" \/ \E c \in Conns : SelfBlocked(c))
=============================================================================
