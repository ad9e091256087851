# A TLA+ development of `tit`

`tit` is a self-hosted Git forge in one executable: Git over SSH and HTTP, web pages,
pull requests, issues, feeds, accounts and organizations, with one SQLite database and
one directory of bare repositories per instance. This directory holds TLA+ modules for
the parts of it whose correctness depends on the order of steps, TLC configurations that
check them on small instances, and proofs that TLAPS checks. Paths below are relative to
the repository; the code is under `src/`.

## 1. Inventory

| Component | State | Operations | Interacts with | What makes it correct |
|---|---|---|---|---|
| Push (`git/receive_pack.rs`, `ssh.rs`) | refs, packs, quarantine, `git_operation_intent` | parse, index and promote the pack, ref transaction, complete; on error: recover | intent journal, recovery, merge (same refs, other lock), backup (permit) | a branch is readable and only moves forward; the event journal tells exactly what happened to the refs |
| Intent journal and recovery (`store/mod.rs`, `receive_pack.rs`) | intent rows and their events | begin, mark promoted, complete, abandon; recover all incomplete rows | run by failing pushes and twice at startup, the second time while the web server serves | every intent is settled, in the way the refs call for |
| Merge (`pull_request.rs`) | the same journal, `pull_request_merge_intent` | plan, begin, write the merge commit, swap the base, complete | pushes, revisions, closing, recovery | merged means merged: the latest revision, and the base did move |
| Open and revise (`pull_request.rs`) | `refs/pull/N/head`, rows, numbered revisions, `pull_request_ref_intent` | recover first, begin, write the ref, complete | closing (no lock), merges, startup | ref, row and revisions agree; no pending intent blocks the instance |
| Default branch (`repository.rs`, `policy.rs`) | stored name, `HEAD`, an intent row, audit events | change, recover | pushes that delete or create branches | `HEAD` is the stored name; the default branch is not deleted |
| Server process (`serve.rs`, `instance.rs`, `control.rs`) | `tit.lock`, `control.sock`, tasks | start, listen, drain, return, exit, be killed | supervisor, the blocking closures of requests | one process per instance, reachable, and able to start again |
| Maintenance gate and online backup (`maintenance.rs`, `backup.rs`) | an asynchronous and a synchronous RwLock, the operation mutex | permits of pushes, guards of web operations, backup | SSH sessions, web operations, control requests | the copy is of a state between operations; nobody waits for ever |
| Login and sessions (`session.rs`, `auth.rs`) | nonces, SSH approvals, sessions | issue, approve, complete, verify, end | accounts, keys | each secret opens at most one session, in time, for an active account |
| Accounts, keys, invitations, recovery codes (`account.rs`, `admin.rs`, `bootstrap.rs`) | account and key rows, the key cache of the SSH server | create, add and revoke keys, suspend, recover, reload the cache | sessions, SSH | a revoked key or suspended account gets nowhere |
| Organizations (`organization.rs`) | members and roles | create, set, remove | accounts, policy | there is always an owner; nobody raises a role above the own one |
| Repositories and policy (`repository.rs`, `policy.rs`) | repository rows, directories, collaborators, archive flag | create, rename, archive, publish, set roles | all Git operations, every page | a row has its directory; all ways to decide who sees a repository agree |
| Issues, reviews, watches, feeds (`issue.rs`, `pull_request.rs`, `watch.rs`) | rows and events | create, edit, comment, review, close, reopen | events | the events replay to the rows |
| SSH sessions and fetch (`ssh.rs`, `git/transport.rs`, `git/upload_pack.rs`) | connections, channels and their permits, a lease per push | authenticate, open, answer, receive, run a command, close, time out | limiter, keys, roles, names, backup | only what is allowed at the moment of the check is written; a fetch leaves a complete clone; a backup gets its turn |
| Attempt limiter (`rate_limit.rs`) | attempts per client | allow | SSH, web | bounded table, bounded rate, places freed |
| Web server (`http/*.rs`) | admitted requests, the pool of blocking jobs | admit, answer, time out, run a job | every service; renames and revocations between two store accesses | the answer tells whether the change was made; only readable content is served |
| Backup archive and restore (`backup.rs`) | archive, target directory | copy, hash, append; verify, extract, validate, clean | gate, pushes, creations, the medium | the archive is one state; a killed restore does not look finished |
| Schema upgrades (`store/mod.rs`) | schema version, saved copies | save, migrate | start-up, kills | an interrupted upgrade keeps the old database |
| Reads, search, Markdown, CLI, configuration, diagnostics, telemetry | none of their own, or files read once | | | outputs are functions of inputs |

What is hard here is that one logical change lives in two stores (Git files and SQLite)
which no transaction spans; that pushes and web operations hold different locks; that
recovery runs not only at startup but inside failing requests; that closing a pull request
takes no lock at all; and that blocking closures outlive the tasks that started them.
`PROJECT.json` lists these hazards line by line.

## 2. Modules

| Module | Models | State | Actions |
|---|---|---|---|
| `GitOperations` | pushes, merges, the intent journal, recovery | refs, loose objects and packs, intent rows, events, pull-request rows, the recovery's list and verdict, the server phase; history `applied`, `seen`, `overtaken`, `lapsed` | one per SQLite transaction and per ref-file change: `PushCheck` .. `PushComplete`, `PushFail`, `MergePlan` .. `MergeComplete`, `RecoverList` .. `RecoverError`, `RecoverFails`, `OpenPr`, `RevisePr`, `SetPrState`, `Crash`, `Shutdown`, `Drained`, `Start` |
| `PullRequestRefs` | open, revise, and the recovery every pull-request operation runs | base and head branch, `refs/pull/N/head`, rows, revisions, intents | `Enter`, `Recover*`, `OpenRead`/`OpenBegin`, `ReviseRead`/`ReviseBegin`, `ApplyRef`, `Applied`, `Unapplied`, their failures, `Merge`, `SetState`, `MoveBranch`, `Stop`, `Start` |
| `DefaultBranch` | changing the default branch, its recovery, branch deletion | branches, `HEAD`, stored name, intent row, audit events | `ChangeRead` .. `ChangeComplete` and failures, `PushCreate`, `PushAuthorize`, `PushDelete`, `Stop`, `Start`, `Recover` |
| `ServerLifecycle` | processes of one instance, lock, control socket, maintenance gate, backups | stage of each process, lock holder, owner of the socket file, permits and closures | `Launch` .. `Exit`, `Kill`, `Push*`, `Op*`, `Backup*` |
| `Accounts` | accounts, keys, sessions, feed tokens, and the key cache of the SSH server | account, key, session and token rows, one-time secrets (`ticket`), the cache, the account jobs and requests under way | tickets: `Invite`, `Challenge`, `RequestLogin`, `Expire`; `SshAuth`, `SshApprove`, `SshEnds`; `CompleteLogin`, `VerifyChallenge`, `SessionExpires`; requests: `RequestAuthenticated`, then `BeginKeyChange`, `IssueToken`, `RotateToken`, `RevokeToken`, `Logout` or `RequestFails`; jobs: `View`, `Signup`, `Recover`, `CompleteKeyAdd`, `CompleteKeyRevoke`, then `ReloadRead`, `ReloadApply` or `ReloadFails`; offline: `AdminAddKey`, `AdminRevokeKey`, `Suspend`, `Resume`; `Start`, `Stop` |
| `Collaboration` | organizations, repositories, collaborators, policy, issues, reviews, watches | account, member, repository, collaborator, watch, issue and pull-request rows, intents begun, events, directories, creations under way | one per transaction (`SetOrganizationMember`, `RenameRepository`, `UpdateCollaborator`, `SetIssueState`, ...); an open is `OpenPullRequest` and `InsertPullRequest`, a merge `MergePullRequest` and `CompleteMerge`, either may end with `AbandonIntent`; a creation is `CreateBare`, `RenameDirectory`, `InsertRepository` or its failures, `Kill` |
| `WebRequests` | the request guard, the job pool, the store accesses of every handler | names and levels of repositories, requests, closures, what was served and committed | `Arrive`, `Busy`, `Admit`, `Early`, `RequestTimeout`, `StartJob`, one per kind of store access (`ResolveOperation`, `ReadOperation`, `NameOperation`, `MutateOperation`, ...), `JobFails`, `Recovery`; `Rebind`, `SetLevel`, `EndSession` by others |
| `BackupRestore` | backup, restore, upgrade of one instance | database, directories, configuration, archive, target | `Start`, `Migrate`, `Upgrade`, `Create*`, `Push*`, `Note`, `EditConfig`, `Backup*`, `Restore*`, `Damage`, `RemoveArchive`, kills |
| `AtomicCopy` | what backup and restore promise | a source, the copies taken, what is installed | `Change`, `Take`, `Install`, `Remove` |
| `AttemptLimiter` | `AttemptLimiter::allow` | attempts by client, time; history of what was allowed and refused | `Allow`, `Refuse`, `Tick` |
| `SshSessions` | SSH connections, Git channels, the lease of a push, input commands; extends `AttemptLimiter` | connections, channel entries, the handler that runs in each connection, keys, names, roles, branch tips, clones | `NewClient`, `AuthPublicKey`, `EnvRequest`, `OpenGitService`, `MutationPermit`, `Advertise`, `UploadData`, `RespondListing`, `RespondFetch`, `FinishReceive`, `PushCheck`, `PushWrite`, `OpenInput`, `RunInput`, `RunCommand`, `ChannelClose`, `Age`, `Disconnect`; `ReloadKeys`, `SetRole`, `RenameRepository`, `Backup*` by others |
| `GitOperationsProofs`, `PullRequestRefsProofs`, `DefaultBranchProofs`, `AccountsProofs`, `CollaborationProofs`, `BackupRestoreProofs`, `SshSessionsProofs` (with the limiter) | theorems about the module they are named after | | |
| `ServerProofs` | theorems about `ServerLifecycle` and `WebRequests` | | |
| `MC*` | constants for TLC | | |

How they fit together. `SshSessions` is the outside of a push (channel, lease, check),
`GitOperations` its inside (pack, refs, journal). `ServerLifecycle` says who holds the
maintenance gate, `SshSessions` adds what a connection does while it waits for it, and
`BackupRestore` what is copied under it. `WebRequests` is the outside of every page and
form; what their transactions do is in `Accounts`, `Collaboration`, `PullRequestRefs` and
`DefaultBranch`. Two refinements connect modules formally, and both are proved:
`BackupRestore` implements `AtomicCopy` (also checked by the run `backup`), and `SshSessions`
implements the specification of `AttemptLimiter`.

Common conventions. A SQLite transaction is one step (`TransactionBehavior::Immediate`
serialises them); each ref file renamed into place is one step; a crash may come between
any two. An error return of a whole handler is a step that leaves what had been written.
Commits are members of a set with an ancestry relation; a pack is the set of commits in
it, and is named by its contents as in the code. Names that end in a variant, marked
`Mutant:`, are plausible bugs: with the original definition replaced by one of them a
property of the run fails. They are no part of the specifications.

Abstractions. Parsing, object validation, trees and merge conflicts are constants
(`Packs`, `Ancestry`, `MergeCommits`). One repository is modelled; recovery over several is
the same loop with more rows. `GitOperations` keeps the default branch fixed, `DefaultBranch`
lets it change; `GitOperations` treats open and revise as one step each, `PullRequestRefs`
takes them apart and treats a merge as one. What russh and tokio do is external: the SSH
listener may or may not cancel its sessions when it ends, both `RwLock`s queue a waiting
writer before new readers, and dropping the runtime waits for blocking closures.

An error of `recover_incomplete_pushes` is a step of its own (`RecoverFails`, bounded by
`MaxStops`): at startup it ends the start or the server, but the recovery that a failed
push runs (`receive_pack.rs:206`) only returns it, and the rows it left stay as they are in
a server that goes on. The history variable `lapsed` says that this has happened. Another one,
`overtaken`, has the pushes one of whose refs a merge swapped while the push was not settled
(`Overtakes(m)`): nothing in the code orders the two, and what a recovery then finds is no
longer where the push had put it. No action reads either of them. `Crash` ends the blocking
closures together with the process; that they may outlive `run()` (`serve.rs:33`) is in
`ServerLifecycle`.

In `Accounts` the four kinds of one-time secret are one set of tickets, and a session bears
the name of the ticket that opened it. A ticket that was used, has expired or was deleted is
`over`: the code tells these apart only in its error messages. Time is the expiry of a
ticket or session at any moment. Recovery credentials are counted: `recovered[a]` is the
number of the one that is valid. `session.stamp`, `token` and `enabledIn` record the
recovery at the time of creation, which is what `RecoveryReplacesAll` speaks about.
`uses`, `enabledIn` and `disturbed` are history and guard nothing. Sessions without a key
(rows older than the column), labels, profiles, audit events and the deletion of old rows
are left out, and so are blocking account jobs that outlive a shutdown.

In `Collaboration` a name is resolved in the transaction that uses it, so an action takes the
repository; a refused request is no step. Opening and merging a pull request are two
transactions: the first checks the access and writes an intent (for an open it takes the next
number, which is lost when the intent is abandoned), the second completes the intent and
checks no access again, so it may come after a role was lost or the repository was archived.
The visibility rules of the SQL queries are operators of their own (`SearchShows`,
`FeedShows`, `HomeShows`, ...), translated one by one, because their agreement is a property.
`WebRequests` gives each handler as the sequence of jobs and store accesses it makes, with the
answers it can give before the first; `level` stands for what the policy would say. A form
that lacks `confirm=yes` is a request of its own (`confirm`): merging, archiving and
unarchiving answer it with the redirect of a success. A pull request that was opened, revised
or merged is read again by name after the commit (`pull_request.rs:136`, `:197`, `:607`), a
store access like any other, which may find the name gone. Ending all sessions of an account
without confirmation (`http/mod.rs:2267`) changes nothing and is not a handler of the model.
In `BackupRestore` a repository is two files, objects and refs, and a digest is the content it
is of. The copy saved before an upgrade is one step although `Store::backup` copies 128 pages
at a time: SQLite writes the destination in one transaction, which a kill rolls back. A
restore opens the archive twice, for the manifest and to verify it (`backup.rs:78-80`), which
is one step too: the model has nobody who replaces the file in between. In `SshSessions` a
repository has one branch whose commits are numbered, `Local` are commits only clients have,
and a handler runs to its end before its connection reads the next message, as russh's `&mut
self` handlers do.

## 3. Runs

Bounds are named constants (`MaxStops`, `MaxRevisions`, `MaxCommands`, `MaxMoves`,
`MaxStateChanges`, `MaxMergeErrors`, `MaxRecoveries`, `MaxChanges`, `MaxFaults`, `MaxOpens`,
`MaxTries`, `Budget`, ...). `CHECK_DEADLOCK FALSE` is given everywhere because
each request of a finite set is served once, after which nothing is left to do.

| Run | Instance | Shows |
|---|---|---|
| `git_push` | two pushes, two branches, three commits in a chain, up to two commands each, one stop; with fairness | `RefsHaveObjects`, `EventsAreReal`, `IntentsSettle` |
| `git_merge` | two merges and a push of up to two commands, one pull request over a fork with a clean merge commit, two revisions, one stop (1.1 million states up to the names of the merges) | `MergedIsReal`, `MergeRowsLive`, `KeptUnlessOvertaken`, `RefRulesKept` |
| `pull_refs` | three requests of any kind, two commits, one branch move, one close or reopen, one failed merge, one stop; with fairness | `HeadRefMatches`, `RevisionsTell`, `OnePending`, `MergedIsFinal`, `IntentsSettle` |
| `default_branch` | three branches, three changes, one deleting push, two stops; with fairness | `HeadIsExplained`, `AuditIsReal`, `RestartSettles` |
| `server` | two processes of which one may fail or be killed, two pushes, one web operation, two backups; with fairness of the server, its supervisor and its work, and none of an operator | `SocketIsServers`, `CopyExcludesWork`, `BackupEnds`, `ServesUnlessLeft` |
| `accounts` | two accounts of which one, the administrator, has two keys and a session, one more key, two unused tickets, two account jobs, one request, one recovery of the administrator, one stop; reloads may fail | `TicketsOnce`, `EveryAccountHasKey`, `SuspendedIsLockedOut`, `RecoveryReplacesAll`, `CacheFollowsStore`, `KeysChangeByApproval` |
| `collaboration` | two users, one organization, two repositories and names, five changes | `OrganizationHasOwner`, `RowsAreStored`, `ViewsAgree`, `HistoryReplays`, `NoEscalation` |
| `web` | a request of any of eleven handlers, which have every kind and operation between them, and one for a feed, one name, two repositories, one place in the guard and one job, one change by somebody else | `AnswerTells`, `ServedWasReadable` |
| `backup` | one repository, one push and one other change, one backup and one restore, an upgrade, two faults | `DatabaseIsLast`, `UpgradeKeepsOld`, `CopyIsAtomic`, `SuccessRestores` |
| `ssh` | two connections from two clients, of which one opens two channels (two pushes, or a push and a fetch or an input command) and the other only connects and authenticates, one key, one repository and a free name, one backup, one change by somebody else; with fairness | `ChangesAreAuthorized`, `FetchIsClosed`, `RefusedOnlyWhenFull`, `BackupStarts` |

Why these bounds are enough. The interesting cases need two operations that meet: a second
push that finds the pack, refs or row of a first one that failed; a merge that loses its
compare-and-swap to a push; a revision between the plan and the completion of a merge; a start
after a stop at any step. Two commits beyond the initial one let a branch move twice (so that
a ref is at neither the old nor the new value of an earlier operation); two commands make a
push that can be cut in two. More operations of the same kind only repeat these meetings,
because pushes are serialised by one permit and the others by one mutex. For accounts, two
jobs are what one reload needs to be overtaken by another; two tickets are a key change
together with an invitation or a login; the stop lets the administrator's commands, which need
the instance lock, fall between any two steps of the above. `PendingLimit` is the limit on
pending rows of the code made small; with two unused tickets it does not refuse anyone.

For `collaboration`, five changes are an organization, a second owner, a repository in it, a
role and its withdrawal, or an issue through open, close and reopen; a pull request takes a
repository, an opening in two steps, and then a review, a close, or a merge in two steps with
a close between them. For `web`, two requests with one job make one of them wait for the
permit that a timed-out one still holds; names, levels and sessions change in between. The
requests meet only there, and the handlers that are left out differ from one that is offered
in the answers they refuse with or in how many of the same jobs they make; with `AllOffered` in place of
`MCOffered` the configuration takes every handler beside a streamed archive (2.7 million states,
no error). For `backup`, two faults are a kill and a second one during what follows it, or an edit and a
damage. For `ssh`, two channels of one connection are a fetch beside a push and what
`SelfBlocked` needs, the other connection competes for the limiter and the connection permit,
and one change (a revoked key, a lost role, a rename) falls at any step. The exception of
`ChangesAreAuthorized`, a repository that lost its name to another one, takes a second
repository and three changes; the property with its exception was also checked on that
instance, without the liveness property, and dropping the exception gives a counterexample
there. The theorem covers every number.

Fairness. `WF` on the steps of an operation says that its thread is scheduled; on `Start`
that a supervisor restarts the server (`release/examples/tit.service`); on `Drained`,
`SshEnds`, `ControlEnds` that the drain limit works; on `PushEnd`, `OpEnd` and `BackupStep`
that a closure returns (on `PushEnd` also that no two pushes share a connection). In
`SshSessions`, `WF` on the steps of a handler says that it goes on once what it waits for is
there, and `SF` on `Disconnect` that no client stays for ever. The server ends a connection
whose client is silent (`inactivity_timeout`, `ssh.rs:331`); that a client which keeps
sending goes in the end is an assumption on the clients. Nothing is assumed of arrivals: no
request has to come, nobody has to close or kill anything, and nobody has to remove the
`control.sock` of a killed process. `GitOperations.Start` after a crash includes the removal of
`control.sock`, which the code leaves to an operator (`ServerLifecycle` has that step).

Runs with a counterexample, each against a statement of the repository (`findings` in
`PROJECT.json` quotes it):

| Run | Property | Behaviour |
|---|---|---|
| `git_merge_race` | `AppliedIsRecorded` | a failing push recovers the intent of a merge that is running and abandons it; the merge then moves the base and can never be recorded |
| `pull_refs_close` | `StartupNotRefused` | a pull request is closed between the ref write and the completion of a revision; neither requests nor a start can settle the intent (closing during the last step of a merge has the same effect through the other journal) |

Behaviours that the modules have and that are not runs of their own. Where
`StartupNotRefused`, `RefsReadable`, `DefaultBranchExists`, `RevokedKeyOut` or `SelfBlocked`
is named, it is a definition kept in its module for this purpose, which the configuration of
the run may name.

* `GitOperations`, `StartupNotRefused`: a kill between two ref writes of one push leaves
  refs that are neither initial nor proposed, and every start ends with `MixedRecovery`
  (`receive_pack.rs:618`).
* `GitOperations`, `KeptUnlessOvertaken` without its exception: an interrupted push has moved
  its ref, a merge moves the ref on; recovery abandons the push and removes its pack
  (`receive_pack.rs:614`). The push is `overtaken`, the one exception of the property.
* `GitOperations`, `RefsReadable`, with three pushes (of one command each): the recovery of
  a failed push fails too, so its intent stays promoted with its pack recorded; a second
  push sends the same pack, finds it there and moves a branch to it; the next recovery
  takes the first push for one that did nothing and removes the pack from under the branch
  (`receive_pack.rs:206`, `receive_pack.rs:610`). A push cut in two whose `MixedRecovery`
  stops every later recovery has the same effect. `RefsHaveObjects`, `KeptUnlessOvertaken`,
  `AppliedIsRecorded` and `IntentsSettle` therefore speak of behaviours without such a
  lapse; `RefsHaveObjects` also of those in which no push was overtaken, whose pack may be
  what a later merge rests on.
* `DefaultBranch`, `DefaultBranchExists`: the default branch changes between the
  authorization and the application of a deletion (`policy.rs:47`).
* `Accounts`, `RevokedKeyOut`: a page view reads the active keys, a recovery commits and
  reloads, and then the page view replaces the cache with the keys it had read
  (`serve.rs:76`).
* `ServerLifecycle`: a kill leaves `control.sock`, and every later start refuses it
  (`control.rs:262-267`), although `release/examples/tit.service` relies on
  `Restart=on-failure` to bring the server back. A supervisor alone does not get a server
  again after a kill. `ServesUnlessLeft` states this as its only exception, under
  the fairness of the server and its supervisor; `OperatorRemovesSocket` may happen, and a
  start after it succeeds, but no fairness says that it does.
  `Return` frees the instance lock while a closure of the process may still be running
  (`serve.rs:33`), so a second process can serve beside it.
* `SshSessions`: a connection that opens a second push while its first one is open and a
  backup is queued waits for the gate behind the backup, which waits for the first push; no
  message and no disconnection is read any more (`SelfBlocked`; `BACKUP_TIMEOUT` is on the
  side of the backup's client only). A push is checked by name and writes to the directory
  it opened (`ssh.rs:3024`). `GIT_PROTOCOL` belongs to the connection, so a request of
  another channel changes it (`ssh.rs:702`). A fetch is authorized when it opens and goes on
  after a revocation. A channel that has expired is noticed at its next message.
* `WebRequests`: a pull request that was opened, revised or merged is answered 404 when a
  rename or a lost role falls between the commit and the reading by name that follows it
  (`pull_request.rs:136`, `:197`, `:607`); a merge, archive or unarchive without `confirm=yes`
  is answered with the redirect of a success and changes nothing (`http/pull_requests.rs:415`,
  `http/repository_settings.rs:235`, `:273`). A request that is answered 408 may still commit;
  a reader who is slow keeps a job of the pool; parts of a page that are looked up by name
  again may be those of another repository after a rename (`public.rs:199`); an account change
  whose key reload fails is committed and answered with an error, so a new recovery code is
  not shown (`http/mod.rs:2510`).
* `BackupRestore`: an edit of `config.toml` between hash and copy gives an archive that was
  reported as good and cannot be restored; an interrupted restore leaves `config.toml`
  without a database, which `serve` would take for a new instance; a kill while a failed
  restore empties its target can leave a database alone; a restore takes only archives of
  its own schema version.
* `Collaboration`: a killed creation leaves a directory without a row, which nothing but
  `doctor` ever mentions.

The passing runs state their exceptions accordingly: `IntentsSettle` of `GitOperations`
excepts a push cut in two and a recovery that lapsed, `RefsHaveObjects` and
`KeptUnlessOvertaken` a recovery that lapsed and a push that was overtaken, `IntentsSettle` of
`PullRequestRefs` a pull request closed under a revision, `ServesUnlessLeft` the socket file
of a killed process, `CopyExcludesWork` a draining server, `CacheFollowsStore` a reload that
failed or that a change overtook, `ChangesAreAuthorized` a repository that lost its name to
another one, `BackupStarts` two pushes on one connection, `ServedWasReadable` what is looked
up by name again, `AnswerTells` a timeout and the answers that are `Unsure`: an error where an
intent or a failed reload is behind it, 404 of a pull request that is read again, the conflict
of a merge; `SuccessRestores` an edited configuration, `DatabaseIsLast` a medium that loses a
file and a kill during cleaning.

## 4. Proofs

`GitOperationsProofs` proves, for every set of pushes, merges, pull requests, branches and
commits, every ancestry that is a preorder and every bound:

* `TypeCorrect`, `EventsReal`, `MergedReal`, `MergeRowsAlive`: invariants `TypeOK`,
  `EventsAreReal`, `MergedIsReal`, `MergeRowsLive`;
* `ForwardOnly` and `DefaultKept`, together `RulesKept`: the action properties
  `NoForceUpdate` and `DefaultBranchKept`, together `RefRulesKept`.

None of these is inductive alone. `IndInv` adds: a planned merge and a validated push move
their refs forward (`PlansValid`, `PushesValid`), which carries the check of one step to
the write several steps later; an operation that has not begun has no rows (`FreshOps`,
`FreshMerges`); whatever is incomplete and in place has been observed (`SeenInv`,
`AppliedInv`); and a recovery's verdict is backed by an observation (`RecoveryInv`), which
is what keeps the event of a row true although the refs may move between reading and
completing. The action properties follow from `IndInv` and a lemma on which steps write
refs.

* `ObjectsTheorem` and `PushesKept`: the invariants `RefsHaveObjects` and
  `KeptUnlessOvertaken`, of every behaviour of `Spec`, whatever merges run beside the pushes.

No order of merges and pushes is assumed. What an interleaving can break is remembered by the
history variables, at the step that does it: a merge's swap of a ref of a push that is not
settled adds the push to `overtaken`, and only what is said of that push, and of
refs that may rest on its pack, is given up. `AppliedIsRecorded` is not proved and not
claimed: `git_merge_race` is its counterexample, since the recovery of a failed push may
abandon the intent of a merge that has yet to swap its ref.

`PermitInv` needs no condition: one push is in flight at most, none while the server is down or
starting, and a recovery runs at startup or inside the push that failed. `RepoInv` says that
`RepoState` holds while no recovery has lapsed; its parts are

* `PushState`: one push at most is incomplete, and in a serving server only the one in
  flight (`OpenInv`; this is where a lapse would break the argument); unless the push was
  overtaken nobody else moves its refs, so each is at its old or its new value
  (`BetweenInv`), and a push that has moved them all is promoted or completed
  (`RecordedInv`); what the old values reach is stored without the pack recorded for the
  push, because a pack that was there before is never recorded (`StoreInv`); and a recovery's
  list is complete and gives up only pushes that moved nothing or were overtaken
  (`JudgedInv`);
* `KeptInv`: what a push has put on its branches and was not overtaken is `Spared`, that is, in
  the store without any pack that may still be removed;
* `SafeState`: until a push is overtaken, every ref is `Safe`, and so is what the plan of a
  merge under way rests on (`MergeFacts`), which carries the reachability check of the plan
  to the swap; the merge commit is written before the swap. `NoMergePacks`: merges record no
  pack.

So when `remove_promoted_pack` runs, the refs are what they were before that pack came, or the
push was overtaken. The argument rests on two lemmas, `SparedStays` and `SafeStays`: no step
takes away commits that are spared, or safe. Each part was checked by TLC with pushes and merges
interleaved before it was proved.

The assumptions are the named ASSUMEs of `GitOperations`: disjoint operation names, a
reflexive and transitive ancestry over commits, merge commits that contain both sides,
a default branch among the branches. TLC evaluates them in every run.

`DefaultBranchProofs` proves `HeadAgrees` and `RowTellsHead` (together `HeadExplained`) and
`AuditTrue` for every set of
branches, changes and pushes. The invariants are inductive together with `OneChange` (the
operation mutex), `StagesTell` (what the stage of a change says about row and `HEAD`) and
`RowTells` (the same for a row left by a kill).

`AccountsProofs` proves `UsedOnce`, `KeyKept`, `LockedOut`, `RecoveryComplete`,
`CacheCurrent` and `ChangesApproved` (the properties of the run `accounts`, in its order)
for every set of accounts, secrets, jobs and requests and every finite set of keys. The
inductive invariant adds what makes the separate transactions fit together: keys belong to
existing accounts and an account that does not exist was never recovered (`RowsTell`);
a ticket that may still be used was not used, and an approved one names a key and the
owner of that key (`TicketsTell`), which makes the check at the time of use sufficient; only
active accounts have sessions and tokens (`OpenIsActive`); a request under way acts for
an existing account although its session may have ended (`RequestsTell`); cache and
snapshots hold keys of active accounts only, because accounts are suspended while no server
runs (`CacheTells`); and, undisturbed, a snapshot is current and a cache that is behind has
a job that will reload it (`ReloadTells`). Finiteness of the keys is needed where removing
a key that is not the last leaves one (`OtherKeyLeft`).

`PullRequestRefsProofs` proves `OnePendingTheorem`, `HeadRefTheorem`, `RevisionsTheorem` and
`MergedTheorem` (`OnePending`, `HeadRefMatches`, `RevisionsTell`, `MergedIsFinal`) for every
set of requests, pull requests and commits and every bound. `TypeInv` includes that
the latest revision is a largest one, since the model takes a maximum of a set that must be
shown to have one (`MaxExists`, by the least element of a set of numbers). `MutexInv` adds
that one request at most holds `git_operations`, that none is pending between the recovery
of a request and its own intent, and that a begun intent is pending. `HeadInv` says that while
an intent is pending its ref is at the old or the new head and the row still has the old one.
This is what a recovery after a stop finds, and why it may apply the intent without knowing
how far it had got.

`ServerProofs` proves `SocketTheorem` (`SocketIsServers`) and `CopyTheorem`
(`CopyExcludesWork`) for every number of processes, pushes, operations and backups.
`LifecycleInv`: the process past acquiring is the holder of the lock, and the socket file is
its own from bind to removal. `GateInv`: SSH sessions live in a process that serves or drains,
a push in it has its permit, and each half of the gate keeps a backup that holds it apart from
what it excludes. `WorkAssumption` says that pushes, operations and backups have different
names.

It also proves `AnswerTheorem` and `ServedTheorem` (`AnswerTells`, `ServedWasReadable`) for
every set of names, repositories and requests, every limit of the guard and of the job pool,
any number of changes by others, and any choice from the handlers the code has
(`OfferedAssumption`). Neither is inductive. `WebInv` adds, for each request (`Fit`):

* `Control`: which phase it is in and what is left of its closure, which is a tail of a
  job of its handler; a request that is done has a closure left only after 408, or while
  it streams an archive it has answered with;
* `Told`: at most one thing was committed, by the access that the closure has behind it; a
  closure that goes on has no intent open; and an answer after the commit is one that
  the kind of the handler allows (`AfterCommit`);
* `Reads`: a closure that reads by identifier has resolved the name to a repository that
  was shown to the reader while the request lasted (`Resolved`); what it served was
  readable meanwhile, or was looked up by a name that others have bound anew (`Fine`);
  a file is marked public only if the level read in the same transaction was public.

`WebPermits` (admitted requests and running closures within their limits) makes
`WebTypesTheorem`, with the types. `SeenTells` says that the history of a request includes what
is the case now. The handlers enter through `HandlersGood` alone: of each of the handlers of
the code it says in which order its jobs resolve, read and commit (`JobsGood`) and which answers
it gives early (`EarlyGood`). A step of one request is proved on its own row (`RequestStep`),
the other requests are untouched (`OthersStep`), and a step of somebody else only adds to what
was seen (`ReadsGrow`). TLC found each part of `WebInv` true in the run `web`
before it was proved.

`CollaborationProofs` proves the five properties of its run (`OwnerTheorem`, `RowsTheorem`,
`ViewsTheorem`, `HistoryTheorem`, `NoEscalationTheorem`) for every set of users, organizations,
repositories and names. `RowsInv` adds to `RowsAreStored` that a creation whose directory has
been renamed is ready for its row, and that names are unique. `ViewsAgree` follows from
the types alone: the queries are different formulas with the same value. That a completion
needs no access again disturbs none of the five. A number that an open has taken is in the
model a row without a state, which has no events yet (`PullReserved`). `HistoryReplays`
is stated without a fold over the history, by the last event that moves the
state (`StateAt`), so that one more event can be reasoned about without induction.

`BackupRestoreProofs` proves `UpgradeTheorem`, `CopyRefines`, `LastTheorem` and
`SuccessTheorem` (`UpgradeKeepsOld`, `CopyIsAtomic`, `DatabaseIsLast`, `SuccessRestores`) for
every set of repositories and every bound. `UpgradeInv`: what the start may do in each
version, and that a saved copy is made by a new binary only. `CopyInv`: a backup holds the
gate throughout, so what it has copied and hashed, and the manifest of an archive and of a
restore that reads it, is the instance at one moment; and what a restore has written is what
the manifest says. This gives the refinement of `AtomicCopy`, step by step. `LastInv` adds
that the entries of an archive are in the order of their paths and that a restore has written
exactly the entries before its position; the database comes last in that order, so a directory
that has one has everything. The order is given by ranks (`InOrder`, `Place`) because what a
recursive sort returns could not be proved. `NothingAssumption` says that the mark of a
missing file is no content.

`SshSessionsProofs` proves, for every set of clients, limit, window and table size, that
`LimiterSpec` implies `RateBound` (`RateBounded`) and `RefusedOnlyWhenFull`
(`RefusedWhenFull`). The inductive invariant `LimiterInv` says that the table is true: what
it still has of a client is what was allowed to the client, and an allowed attempt that is
missing has left the window. The step from one to the other is that what `retain` keeps is
exactly what was allowed in the window.

It also proves that `Spec` of the SSH server implements `LimiterSpec`
(`SessionsUseLimiter`), from which `ServerRefusesWhenFull` follows; and `WritesAuthorized`
and `ClonesClosed`, the invariants `ChangesAreAuthorized` and `FetchIsClosed`, for every set
of connections, channels, keys, users, repositories and names and every bound. `SessionsInv`
adds `HandlersTell`: the entry a handler works on is that of a channel of its own connection
and of the kind it expects, and stays until the handler ends, because a connection runs one
handler at a time. `ClonesClosed` rests on lemmas on `Reach`: what a pack leaves out is
closed under ancestors and held by the client, so what is added closes the rest.

Only model-checked: everything under fairness (`IntentsSettle`, `RestartSettles`,
`ServesUnlessLeft`, `BackupEnds`, `BackupStarts`), since liveness and ENABLED are beyond the
prover. Every other property of a passing run is stated by a theorem about the specification,
with no further condition.

## 5. Not modelled

What is rendered (pages, search results, patches, Markdown, feeds) and what is parsed
(packet lines, packs, forms, command lines, configuration): functions of immutable inputs
without an order of steps. The SQL of migrations, which an external library runs in a
transaction. Doctor and repair, which run alone under the instance lock, and telemetry.
Titles, bodies, labels, descriptions, profiles, page limits and account audit events. The
tar format and the path rules of archives. A pack is promoted in one step, although it is
two renames; quarantine directories and `.lock` files that a kill leaves are not tracked.
Recovery lists rows in any order where the code orders them by second and id. The limiter
of the Web server is the same code as that of SSH and is not composed with `WebRequests`,
where 429 is one of the early answers.

## 6. Plan

Done: the Git operations and their journal, pull-request refs, the default branch, the
server process, accounts, collaboration data, Web requests, backup and restore, SSH
sessions and the limiter. Left, in this order:

1. An abstract specification of a repository whose refs and event journal change together,
   and `GitOperations` shown to implement it for pushes.
2. The leftovers of kills (quarantines, half-promoted packs, lock files) with the doctor
   and repair that look for them.
