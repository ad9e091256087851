------------------------------ MODULE Accounts ------------------------------
(***************************************************************************)
(* Accounts, SSH keys, Web sessions and feed tokens.                       *)
(*                                                                         *)
(* The rows are changed by SQLite transactions, so each of them is one     *)
(* step.  What is not atomic is around them: the SSH server keeps a cache  *)
(* of the active keys that every account job of the Web server reloads in  *)
(* two steps; a Web request is authenticated in one transaction and acts   *)
(* in another; an SSH `auth` command reads the cache and then the rows.    *)
(*                                                                         *)
(* Sources: src/store/mod.rs, src/account.rs, src/session.rs,              *)
(* src/feed_token.rs, src/http/mod.rs (account_job, authenticate_mutation),*)
(* src/serve.rs (reload_keys), src/ssh.rs (AuthorizedSshKeys).             *)
(*                                                                         *)
(* Every one-time secret is a ticket: an invitation, a login nonce, an SSH *)
(* login approval or an approval of a key change.  A session is named by   *)
(* the ticket that opened it.  Labels, profiles and audit events are left  *)
(* out; time is the nondeterministic expiry of tickets and sessions.       *)
(***************************************************************************)
EXTENDS Integers, FiniteSets

CONSTANTS
  Accounts,       \* user names
  First,          \* the initial administrator
  Keys,           \* SSH public keys
  FirstKeys,      \* the keys the administrator has so far
  FirstKey,       \* the one of them the administrator's session was opened with
  FirstLogin,     \* the ticket that opened it
  Tickets,        \* one-time secrets
  Jobs,           \* blocking workers that run account jobs
  Requests,       \* authenticated Web requests under way
  NoAccount, NoKey, NoTicket, \* SQL NULL
  PendingLimit,   \* rows allowed in login_nonce and in ssh_login_approval
  MaxRecoveries,  \* bound on the recoveries of each account
  MaxStops,       \* bound on stops of the server
  StoreMayFail    \* a reload may fail to open or read the store

ASSUME FirstAssumption ==
  /\ First \in Accounts
  /\ FirstKeys \subseteq Keys
  /\ FirstKey \in FirstKeys
  /\ FirstLogin \in Tickets
ASSUME NullAssumption == NoAccount \notin Accounts /\ NoKey \notin Keys /\ NoTicket \notin Tickets
ASSUME BoundAssumption ==
  /\ PendingLimit \in Nat
  /\ MaxRecoveries \in [Accounts -> Nat]
  /\ MaxStops \in Nat
  /\ StoreMayFail \in BOOLEAN
ASSUME KeysAssumption == IsFiniteSet(Keys)

VARIABLES
  phase,      \* the server: "up" or "down"
  account,    \* account.state, or "none"
  owner,      \* ssh_public_key.account_id
  live,       \* the keys with a row and no revoked_at
  recovered,  \* recoveries so far: the number of the valid credential
  ticket,     \* signup_invitation, login_nonce and ssh_login_approval rows
  session,    \* web_session rows
  token,      \* the active feed token of an account: the recovery it was issued in
  cache,      \* AuthorizedSshKeys
  job,        \* where each account job is
  snapshot,   \* the keys a reload has read
  request,    \* the session a Web request was authenticated with
  ssh,        \* the key whose `auth` command is under way
  stops,      \* stops of the server so far
  uses,       \* history: how often a ticket was accepted
  enabledIn,  \* history: the recovery a key was last enabled in
  disturbed   \* history: a reload failed, or a change was committed between its two steps

rows == <<account, owner, live, recovered, ticket, session, token, uses, enabledIn>>
procs == <<cache, job, snapshot, request, ssh, disturbed>>
vars == <<phase, rows, procs, stops>>

Kinds == {"invitation", "nonce", "login", "account-key"}
NoRow == [kind |-> "none", state |-> "free", account |-> NoAccount, key |-> NoKey, session |-> NoTicket]
Over == [NoRow EXCEPT !.state = "over"]
Closed == [state |-> "none", account |-> NoAccount, key |-> NoKey, stamp |-> 0]
NoToken == -1

KeysOf(a) == {k \in live : owner[k] = a}

\* active_ssh_identities
ActiveKeys == {k \in live : account[owner[k]] = "active"}

\* create_initial_administrator; the administrator has added keys and logged in,
\* and the server has just started.
Init ==
  /\ phase = "up"
  /\ account = [a \in Accounts |-> IF a = First THEN "active" ELSE "none"]
  /\ owner = [k \in Keys |-> IF k \in FirstKeys THEN First ELSE NoAccount]
  /\ live = FirstKeys
  /\ recovered = [a \in Accounts |-> 0]
  /\ ticket = [t \in Tickets |-> IF t = FirstLogin THEN Over ELSE NoRow]
  /\ session = [t \in Tickets |-> IF t = FirstLogin
                               THEN [state |-> "live", account |-> First, key |-> FirstKey, stamp |-> 0]
                               ELSE Closed]
  /\ token = [a \in Accounts |-> NoToken]
  /\ cache = FirstKeys
  /\ job = [j \in Jobs |-> "idle"]
  /\ snapshot = [j \in Jobs |-> {}]
  /\ request = [r \in Requests |-> NoTicket]
  /\ ssh = NoKey
  /\ stops = 0
  /\ uses = [t \in Tickets |-> IF t = FirstLogin THEN 1 ELSE 0]
  /\ enabledIn = [k \in Keys |-> 0]
  /\ disturbed = FALSE

-----------------------------------------------------------------------------
(***************************************************************************)
(* Tickets                                                                 *)
(***************************************************************************)

\* create_login_nonce and create_login_approval delete the rows that are used
\* up or expired before they count, so "over" stands for those and for no row.
Pending(kinds) == {t \in Tickets : ticket[t].kind \in kinds /\ ticket[t].state # "over"}
Issue(t, kind, a, s) ==
  /\ ticket[t] = NoRow
  /\ phase = "up"
  /\ ticket' = [ticket EXCEPT ![t] = [NoRow EXCEPT !.kind = kind, !.state = "issued",
                                                   !.account = a, !.session = s]]
  /\ UNCHANGED <<account, owner, live, recovered, session, token, uses, enabledIn>>

Approvals == {"login", "account-key"}

\* issue_invitation, over the control socket.
Invite(t) ==
  /\ Issue(t, "invitation", NoAccount, NoTicket)
  /\ UNCHANGED <<phase, procs, stops>>

\* WebLoginService::issue
Challenge(t, a) ==
  /\ account[a] = "active"
  /\ Issue(t, "nonce", a, NoTicket)
  /\ Cardinality(Pending({"nonce"})) < PendingLimit
  /\ UNCHANGED <<phase, procs, stops>>

\* WebLoginService::issue_approval
RequestLogin(t) ==
  /\ Issue(t, "login", NoAccount, NoTicket)
  /\ Cardinality(Pending(Approvals)) < PendingLimit
  /\ UNCHANGED <<phase, procs, stops>>

\* expires_at passes.
Expire(t) ==
  /\ ticket[t].state \in {"issued", "approved"}
  /\ ticket' = [ticket EXCEPT ![t] = Over]
  /\ UNCHANGED <<phase, account, owner, live, recovered, session, token, uses, enabledIn, procs, stops>>

\* Mutant: consumed_at is not set.
UseKeepsTicket(t) ==
  /\ uses' = [uses EXCEPT ![t] = @ + 1]
  /\ UNCHANGED ticket

\* UPDATE ... SET consumed_at
Use(t) ==
  /\ ticket' = [ticket EXCEPT ![t] = Over]
  /\ uses' = [uses EXCEPT ![t] = @ + 1]

-----------------------------------------------------------------------------
(***************************************************************************)
(* The SSH `auth` command and Web logins                                   *)
(***************************************************************************)

\* auth_publickey and active_identity: the cache decides.
SshAuth(k) ==
  /\ phase = "up"
  /\ ssh = NoKey
  /\ k \in cache
  /\ ssh' = k
  /\ UNCHANGED <<phase, rows, cache, job, snapshot, request, disturbed, stops>>

\* approve_login: the rows decide once more.
SshApprove(t) ==
  /\ ssh # NoKey
  /\ ssh \in ActiveKeys
  /\ ticket[t].kind \in Approvals
  /\ ticket[t].state = "issued"
  /\ ticket[t].account \in {NoAccount, owner[ssh]}
  /\ ticket' = [ticket EXCEPT ![t].state = "approved", ![t].account = owner[ssh], ![t].key = ssh]
  /\ ssh' = NoKey
  /\ UNCHANGED <<phase, account, owner, live, recovered, session, token, uses, enabledIn,
                 cache, job, snapshot, request, disturbed, stops>>

\* The command is refused or its channel closes.
SshEnds ==
  /\ ssh # NoKey
  /\ ssh' = NoKey
  /\ UNCHANGED <<phase, rows, cache, job, snapshot, request, disturbed, stops>>

OpenSession(t, a, k) ==
  /\ Use(t)
  /\ session' = [session EXCEPT ![t] = [state |-> "live", account |-> a, key |-> k, stamp |-> recovered[a]]]
  /\ UNCHANGED <<phase, account, owner, live, recovered, token, enabledIn, procs, stops>>

\* Mutant: a login whose account was suspended after the approval is completed.
CompleteLoginOfAnyAccount(t) ==
  /\ phase = "up"
  /\ ticket[t].kind = "login"
  /\ ticket[t].state = "approved"
  /\ ticket[t].key \in live
  /\ OpenSession(t, ticket[t].account, ticket[t].key)

\* consume_login_approval
CompleteLogin(t) ==
  /\ phase = "up"
  /\ ticket[t].kind = "login"
  /\ ticket[t].state = "approved"
  /\ ticket[t].key \in ActiveKeys
  /\ OpenSession(t, ticket[t].account, ticket[t].key)

\* verify_keyless_login_challenge accepts the signature of any key; the rows say
\* whose key it is (consume_login_nonce).
VerifyChallenge(t, k) ==
  /\ phase = "up"
  /\ ticket[t].kind = "nonce"
  /\ ticket[t].state = "issued"
  /\ k \in ActiveKeys
  /\ owner[k] = ticket[t].account
  /\ OpenSession(t, ticket[t].account, k)

\* An ended session can only tell whose it was.
EndedRow(s) == [Closed EXCEPT !.state = "ended", !.account = session[s].account]

\* end_sessions
Ended(a) == [s \in Tickets |-> IF session[s].account = a /\ session[s].state = "live"
                               THEN EndedRow(s)
                               ELSE session[s]]

SessionExpires(s) ==
  /\ session[s].state = "live"
  /\ session' = [session EXCEPT ![s] = EndedRow(s)]
  /\ UNCHANGED <<phase, account, owner, live, recovered, ticket, token, uses, enabledIn, procs, stops>>

-----------------------------------------------------------------------------
(***************************************************************************)
(* Web requests: authenticate_mutation, then a transaction of their own    *)
(***************************************************************************)

\* web_session
RequestAuthenticated(r, s) ==
  /\ phase = "up"
  /\ request[r] = NoTicket
  /\ session[s].state = "live"
  /\ account[session[s].account] = "active"
  /\ request' = [request EXCEPT ![r] = s]
  /\ UNCHANGED <<phase, rows, cache, job, snapshot, ssh, disturbed, stops>>

Actor(r) == session[request[r]].account
RequestDone(r) ==
  /\ request[r] # NoTicket
  /\ request' = [request EXCEPT ![r] = NoTicket]
  /\ UNCHANGED <<phase, cache, job, snapshot, ssh, disturbed, stops>>

RequestFails(r) ==
  /\ RequestDone(r)
  /\ UNCHANGED rows

\* begin_key_add and begin_key_revoke: issue_account_approval with the csrf
\* secret of the session.
BeginKeyChange(r, t) ==
  /\ RequestDone(r)
  /\ account[Actor(r)] = "active"
  /\ Issue(t, "account-key", Actor(r), request[r])
  /\ Cardinality(Pending(Approvals)) < PendingLimit

\* create_feed_token: MAX_ACTIVE_FEED_TOKENS is 1.
IssueToken(r) ==
  /\ RequestDone(r)
  /\ account[Actor(r)] = "active"
  /\ token[Actor(r)] = NoToken
  /\ token' = [token EXCEPT ![Actor(r)] = recovered[Actor(r)]]
  /\ UNCHANGED <<account, owner, live, recovered, ticket, session, uses, enabledIn>>

\* rotate_feed_token
RotateToken(r) ==
  /\ RequestDone(r)
  /\ account[Actor(r)] = "active"
  /\ token[Actor(r)] # NoToken
  /\ token' = [token EXCEPT ![Actor(r)] = recovered[Actor(r)]]
  /\ UNCHANGED <<account, owner, live, recovered, ticket, session, uses, enabledIn>>

\* revoke_feed_token
RevokeToken(r) ==
  /\ RequestDone(r)
  /\ account[Actor(r)] = "active"
  /\ token[Actor(r)] # NoToken
  /\ token' = [token EXCEPT ![Actor(r)] = NoToken]
  /\ UNCHANGED <<account, owner, live, recovered, ticket, session, uses, enabledIn>>

\* The logout handler: end_all.
Logout(r) ==
  /\ RequestDone(r)
  /\ session' = Ended(Actor(r))
  /\ UNCHANGED <<account, owner, live, recovered, ticket, token, uses, enabledIn>>

-----------------------------------------------------------------------------
(***************************************************************************)
(* Account jobs: a transaction, then a reload of the SSH keys              *)
(***************************************************************************)

\* A worker of the pool takes the job; it reloads when the transaction is done.
Commits(j) ==
  /\ phase = "up"
  /\ job[j] = "idle"
  /\ job' = [job EXCEPT ![j] = "committed"]
  /\ disturbed' = (disturbed \/ \E i \in Jobs : job[i] = "read")
  /\ UNCHANGED <<phase, cache, snapshot, request, ssh, stops>>

\* Pages that only read (account, user, profile update) run as account jobs and
\* reload the keys as well.
View(j) ==
  /\ phase = "up"
  /\ job[j] = "idle"
  /\ job' = [job EXCEPT ![j] = "committed"]
  /\ UNCHANGED <<phase, rows, cache, snapshot, request, ssh, disturbed, stops>>

\* create_account_with_invitation
Signup(j, t, a, k) ==
  /\ ticket[t].kind = "invitation"
  /\ ticket[t].state = "issued"
  /\ account[a] = "none"
  /\ owner[k] = NoAccount
  /\ Commits(j)
  /\ Use(t)
  /\ account' = [account EXCEPT ![a] = "active"]
  /\ owner' = [owner EXCEPT ![k] = a]
  /\ live' = live \cup {k}
  /\ enabledIn' = [enabledIn EXCEPT ![k] = 0]
  /\ UNCHANGED <<recovered, session, token>>

\* Mutant: recovery leaves the feed token.
RecoverKeepsToken(j, a, k) ==
  /\ account[a] = "active"
  /\ recovered[a] < MaxRecoveries[a]
  /\ owner[k] \in {NoAccount, a}
  /\ Commits(j)
  /\ owner' = [owner EXCEPT ![k] = a]
  /\ live' = (live \ KeysOf(a)) \cup {k}
  /\ recovered' = [recovered EXCEPT ![a] = @ + 1]
  /\ enabledIn' = [enabledIn EXCEPT ![k] = recovered[a] + 1]
  /\ session' = Ended(a)
  /\ UNCHANGED <<account, ticket, uses, token>>

\* recover_account: the credential of recovery number recovered[a] is replaced,
\* so a second request with it is refused.
Recover(j, a, k) ==
  /\ account[a] = "active"
  /\ recovered[a] < MaxRecoveries[a]
  /\ owner[k] \in {NoAccount, a}
  /\ Commits(j)
  /\ owner' = [owner EXCEPT ![k] = a]
  /\ live' = (live \ KeysOf(a)) \cup {k}
  /\ recovered' = [recovered EXCEPT ![a] = @ + 1]
  /\ enabledIn' = [enabledIn EXCEPT ![k] = recovered[a] + 1]
  /\ session' = Ended(a)
  /\ token' = [token EXCEPT ![a] = NoToken]
  /\ UNCHANGED <<account, ticket, uses>>

\* Mutant: the approving key may have been revoked since.
AuthorizedByAnyKey(t) ==
  /\ ticket[t].kind = "account-key"
  /\ ticket[t].state = "approved"
  /\ session[ticket[t].session].state = "live"
  /\ session[ticket[t].session].account = ticket[t].account
  /\ account[ticket[t].account] = "active"

\* consume_account_key_authorization: the session that asked is still open, and
\* the key that approved is still active.
Authorized(t) ==
  /\ ticket[t].kind = "account-key"
  /\ ticket[t].state = "approved"
  /\ session[ticket[t].session].state = "live"
  /\ session[ticket[t].session].account = ticket[t].account
  /\ account[ticket[t].account] = "active"
  /\ ticket[t].key \in live

\* complete_account_key_add
CompleteKeyAdd(j, t, k) ==
  /\ Authorized(t)
  /\ owner[k] = NoAccount
  /\ Commits(j)
  /\ Use(t)
  /\ owner' = [owner EXCEPT ![k] = ticket[t].account]
  /\ live' = live \cup {k}
  /\ enabledIn' = [enabledIn EXCEPT ![k] = recovered[ticket[t].account]]
  /\ UNCHANGED <<account, recovered, session, token>>

\* Mutant: the last key may go.
RemovableEvenLast(a, k) == k \in KeysOf(a)

\* LastKey and KeyNotFound
Removable(a, k) == k \in KeysOf(a) /\ Cardinality(KeysOf(a)) > 1

\* complete_account_key_revoke: the sessions end only when the key is the one
\* the session was opened with.
CompleteKeyRevoke(j, t, k) ==
  /\ Authorized(t)
  /\ Removable(ticket[t].account, k)
  /\ Commits(j)
  /\ Use(t)
  /\ live' = live \ {k}
  /\ session' = IF session[ticket[t].session].key = k THEN Ended(ticket[t].account) ELSE session
  /\ UNCHANGED <<account, owner, recovered, token, enabledIn>>

\* reload_keys opens the store and reads the active keys ...
ReloadRead(j) ==
  /\ job[j] = "committed"
  /\ snapshot' = [snapshot EXCEPT ![j] = ActiveKeys]
  /\ job' = [job EXCEPT ![j] = "read"]
  /\ UNCHANGED <<phase, rows, cache, request, ssh, disturbed, stops>>

\* Mutant: only keys that are new reach the cache.
ReloadMerges(j) ==
  /\ job[j] = "read"
  /\ cache' = cache \cup snapshot[j]
  /\ snapshot' = [snapshot EXCEPT ![j] = {}]
  /\ job' = [job EXCEPT ![j] = "idle"]
  /\ UNCHANGED <<phase, rows, request, ssh, disturbed, stops>>

\* ... and replace_accounts replaces the cache.
ReloadApply(j) ==
  /\ job[j] = "read"
  /\ cache' = snapshot[j]
  /\ snapshot' = [snapshot EXCEPT ![j] = {}]
  /\ job' = [job EXCEPT ![j] = "idle"]
  /\ UNCHANGED <<phase, rows, request, ssh, disturbed, stops>>

\* The store cannot be opened or read: the job ends with an error.
ReloadFails(j) ==
  /\ job[j] = "committed"
  /\ StoreMayFail
  /\ disturbed' = TRUE
  /\ job' = [job EXCEPT ![j] = "idle"]
  /\ UNCHANGED <<phase, rows, cache, snapshot, request, ssh, stops>>

-----------------------------------------------------------------------------
(***************************************************************************)
(* The administrator's commands need the instance lock, so no server runs. *)
(***************************************************************************)

\* add_account_key
AdminAddKey(a, k) ==
  /\ phase = "down"
  /\ account[a] = "active"
  /\ owner[k] = NoAccount
  /\ owner' = [owner EXCEPT ![k] = a]
  /\ live' = live \cup {k}
  /\ enabledIn' = [enabledIn EXCEPT ![k] = recovered[a]]
  /\ session' = Ended(a)
  /\ UNCHANGED <<phase, account, recovered, ticket, token, uses, procs, stops>>

\* revoke_account_key
AdminRevokeKey(a, k) ==
  /\ phase = "down"
  /\ account[a] = "active"
  /\ Removable(a, k)
  /\ live' = live \ {k}
  /\ session' = Ended(a)
  /\ UNCHANGED <<phase, account, owner, recovered, ticket, token, uses, enabledIn, procs, stops>>

\* suspend_account(true)
Suspend(a) ==
  /\ phase = "down"
  /\ account[a] # "none"
  /\ account' = [account EXCEPT ![a] = "suspended"]
  /\ session' = Ended(a)
  /\ token' = [token EXCEPT ![a] = NoToken]
  /\ UNCHANGED <<phase, owner, live, recovered, ticket, uses, enabledIn, procs, stops>>

\* suspend_account(false); it ends the sessions of an active account as well.
Resume(a) ==
  /\ phase = "down"
  /\ account[a] # "none"
  /\ account' = [account EXCEPT ![a] = "active"]
  /\ session' = Ended(a)
  /\ UNCHANGED <<phase, owner, live, recovered, ticket, token, uses, enabledIn, procs, stops>>

\* Startup reads the keys before the Web server starts.
Start ==
  /\ phase = "down"
  /\ phase' = "up"
  /\ cache' = ActiveKeys
  /\ disturbed' = FALSE
  /\ UNCHANGED <<rows, job, snapshot, request, ssh, stops>>

\* A shutdown or a kill: what is in memory is gone.
Stop ==
  /\ phase = "up"
  /\ stops < MaxStops
  /\ stops' = stops + 1
  /\ phase' = "down"
  /\ cache' = {}
  /\ job' = [j \in Jobs |-> "idle"]
  /\ snapshot' = [j \in Jobs |-> {}]
  /\ request' = [r \in Requests |-> NoTicket]
  /\ ssh' = NoKey
  /\ UNCHANGED <<rows, disturbed>>

TicketStep(t) ==
  \/ Invite(t)
  \/ \E a \in Accounts : Challenge(t, a)
  \/ RequestLogin(t)
  \/ Expire(t)
  \/ SshApprove(t)
  \/ CompleteLogin(t)
  \/ \E k \in Keys : VerifyChallenge(t, k)
  \/ SessionExpires(t)

RequestStep(r) ==
  \/ \E s \in Tickets : RequestAuthenticated(r, s)
  \/ RequestFails(r)
  \/ \E t \in Tickets : BeginKeyChange(r, t)
  \/ IssueToken(r)
  \/ RotateToken(r)
  \/ RevokeToken(r)
  \/ Logout(r)

JobStep(j) ==
  \/ View(j)
  \/ \E t \in Tickets, a \in Accounts, k \in Keys : Signup(j, t, a, k)
  \/ \E a \in Accounts, k \in Keys : Recover(j, a, k)
  \/ \E t \in Tickets, k \in Keys : CompleteKeyAdd(j, t, k)
  \/ \E t \in Tickets, k \in Keys : CompleteKeyRevoke(j, t, k)
  \/ ReloadRead(j)
  \/ ReloadApply(j)
  \/ ReloadFails(j)

AdminStep(a) ==
  \/ \E k \in Keys : AdminAddKey(a, k)
  \/ \E k \in Keys : AdminRevokeKey(a, k)
  \/ Suspend(a)
  \/ Resume(a)

Next ==
  \/ \E t \in Tickets : TicketStep(t)
  \/ \E r \in Requests : RequestStep(r)
  \/ \E j \in Jobs : JobStep(j)
  \/ \E a \in Accounts : AdminStep(a)
  \/ \E k \in Keys : SshAuth(k)
  \/ SshEnds
  \/ Start
  \/ Stop

Spec == Init /\ [][Next]_vars
-----------------------------------------------------------------------------
(***************************************************************************)
(* Properties                                                              *)
(***************************************************************************)

TicketRow == [kind : Kinds \cup {"none"}, state : {"free", "issued", "approved", "over"},
              account : Accounts \cup {NoAccount}, key : Keys \cup {NoKey},
              session : Tickets \cup {NoTicket}]
SessionRow == [state : {"none", "live", "ended"}, account : Accounts \cup {NoAccount},
               key : Keys \cup {NoKey}, stamp : Nat]

\* The type of the state.
TypeOK ==
  /\ phase \in {"up", "down"}
  /\ account \in [Accounts -> {"none", "active", "suspended"}]
  /\ owner \in [Keys -> Accounts \cup {NoAccount}]
  /\ live \subseteq Keys
  /\ recovered \in [Accounts -> Nat]
  /\ ticket \in [Tickets -> TicketRow]
  /\ session \in [Tickets -> SessionRow]
  /\ token \in [Accounts -> Nat \cup {NoToken}]
  /\ cache \subseteq Keys
  /\ job \in [Jobs -> {"idle", "committed", "read"}]
  /\ snapshot \in [Jobs -> SUBSET Keys]
  /\ request \in [Requests -> Tickets \cup {NoTicket}]
  /\ ssh \in Keys \cup {NoKey}
  /\ stops \in Nat
  /\ uses \in [Tickets -> Nat]
  /\ enabledIn \in [Keys -> Nat]
  /\ disturbed \in BOOLEAN

\* An invitation, a login challenge, a login approval and an approval of a key
\* change are each accepted at most once, whatever is retried or interleaved.
TicketsOnce == \A t \in Tickets : uses[t] <= 1

\* No account is ever left without an active key: neither removing keys, from
\* the Web or from the command line, nor recovery locks its owner out.
EveryAccountHasKey == \A a \in Accounts : account[a] # "none" => KeysOf(a) # {}

\* A suspended account has no open session and no feed token, and the running
\* SSH server accepts none of its keys; an approval from before the suspension
\* opens no session.
SuspendedIsLockedOut ==
  \A a \in Accounts : account[a] = "suspended" =>
    /\ \A s \in Tickets : session[s].account = a => session[s].state # "live"
    /\ token[a] = NoToken
    /\ \A k \in cache : owner[k] # a

\* Recovery replaces the keys and ends the sessions and the feed token: what is
\* active of an account was created, or enabled again, since its last recovery.
RecoveryReplacesAll ==
  \A a \in Accounts :
    /\ \A s \in Tickets : session[s].account = a /\ session[s].state = "live" => session[s].stamp = recovered[a]
    /\ token[a] \in {NoToken, recovered[a]}
    /\ \A k \in KeysOf(a) : enabledIn[k] = recovered[a]

Quiet == phase = "up" /\ \A j \in Jobs : job[j] = "idle"

\* Between account jobs the SSH server accepts exactly the active keys, unless a
\* reload failed or a key change fell between the two steps of another reload.
CacheFollowsStore == Quiet /\ ~disturbed => cache = ActiveKeys

\* What README.md says of recovery and revocation: once the job that replaced or
\* revoked a key has ended, the SSH server no longer accepts that key.  The code
\* does not promise it: a reload that read the keys before may be applied after.
RevokedKeyOut == Quiet => cache \subseteq live

ApprovedChange ==
  phase = "up" => \A k \in Keys : (k \in live) # (k \in live') =>
    \/ account[owner'[k]] = "none"
    \/ recovered'[owner'[k]] > recovered[owner'[k]]
    \/ \E t \in Tickets :
         /\ ticket[t].kind = "account-key"
         /\ ticket[t].account = owner'[k]
         /\ ticket[t].key \in ActiveKeys
         /\ uses'[t] > uses[t]

\* While the server runs, the active keys of an account change only by signing
\* up, by recovery, or by an approval that the same account's own active key gave
\* and that this change uses up.
KeysChangeByApproval == [][ApprovedChange]_vars

-----------------------------------------------------------------------------
(***************************************************************************)
(* The inductive invariant                                                 *)
(***************************************************************************)

\* A key row belongs to an account, and an account that does not exist yet has
\* never been recovered.
RowsTell ==
  /\ \A k \in live : owner[k] \in Accounts
  /\ \A k \in Keys : owner[k] # NoAccount => account[owner[k]] # "none"
  /\ \A a \in Accounts : account[a] = "none" => recovered[a] = 0

\* What may still be used has not been used; an approved ticket names a key and
\* its owner.
TicketsTell ==
  /\ \A t \in Tickets : ticket[t].state # "over" => uses[t] = 0
  /\ \A t \in Tickets : ticket[t].state = "approved" =>
       ticket[t].key \in Keys /\ ticket[t].account = owner[ticket[t].key] /\ ticket[t].account \in Accounts

\* Only active accounts have open sessions and tokens.
OpenIsActive ==
  /\ \A s \in Tickets : session[s].state = "live" =>
       session[s].account \in Accounts /\ account[session[s].account] = "active"
  /\ \A a \in Accounts : token[a] # NoToken => account[a] = "active"

\* Requests under way are requests of an existing account.
RequestsTell ==
  \A r \in Requests : request[r] # NoTicket => session[request[r]].account \in Accounts

\* Keys read for the cache are keys of active accounts, and nothing of the cache
\* outlives the server.
CacheTells ==
  /\ \A k \in cache : owner[k] \in Accounts /\ account[owner[k]] = "active"
  /\ \A j \in Jobs : \A k \in snapshot[j] : owner[k] \in Accounts /\ account[owner[k]] = "active"
  /\ phase = "down" => cache = {} /\ \A j \in Jobs : job[j] = "idle" /\ snapshot[j] = {}
  /\ ssh # NoKey => phase = "up"

\* Undisturbed, a reload under way has read the current keys, and a cache that
\* is behind has a job that will bring it up to date.
ReloadTells ==
  phase = "up" /\ ~disturbed =>
    /\ \A j \in Jobs : job[j] = "read" => snapshot[j] = ActiveKeys
    /\ cache = ActiveKeys \/ \E j \in Jobs : job[j] # "idle"

IndInv ==
  /\ TypeOK
  /\ RowsTell
  /\ TicketsTell
  /\ OpenIsActive
  /\ RequestsTell
  /\ CacheTells
  /\ ReloadTells
  /\ TicketsOnce
  /\ EveryAccountHasKey
  /\ RecoveryReplacesAll

=============================================================================
