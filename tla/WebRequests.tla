---------------------------- MODULE WebRequests ----------------------------
(***************************************************************************)
(* Web requests: the guard that admits them and limits their time, the     *)
(* pool of blocking jobs, and what the handlers read and change while      *)
(* other people rename, hide and publish repositories.                     *)
(*                                                                         *)
(* A handler is a sequence of jobs.  A job takes a permit of the pool      *)
(* (WebState.jobs), runs in a blocking thread and returns the permit when  *)
(* the closure ends; a request whose time is over is answered, but its     *)
(* job runs on.  Inside a job every access of the store is a transaction   *)
(* or a query of its own, so a job is a sequence of operations:            *)
(*                                                                         *)
(*   "auth"     the session is authenticated                               *)
(*   "manage"   the page asks, by name, whether to show the settings link  *)
(*   "resolve"  the policy checks, by name, that the actor may read        *)
(*   "read"     content of the repository that was resolved, by identifier *)
(*   "name"     content that is looked up by name once more, unchecked     *)
(*   "list"     a query over every repository, with the rule in its SQL    *)
(*   "stream"   a body that is written while the client reads it           *)
(*   "mutate"   one transaction that checks the actor and changes rows     *)
(*   "intent"   a change that a recovery may still finish after an error   *)
(*   "reread"   the pull request is read once more, by name, afterwards    *)
(*   "store"    one transaction on anything else                           *)
(*   "account"  one on an account, followed by "reload", the key reload    *)
(*                                                                         *)
(* Sources: src/http/mod.rs, src/http/public.rs, src/http/issues.rs,       *)
(* src/http/pull_requests.rs, src/http/repository_settings.rs,             *)
(* src/http/watches.rs, src/http/feeds.rs, src/http/metadata_search.rs.    *)
(* Rendering, forms and page limits are left out; the changes of a login,  *)
(* of a key and of a token are here what the pool sees; Accounts and       *)
(* Collaboration have what their transactions do.                          *)
(***************************************************************************)
EXTENDS Integers, Sequences, FiniteSets

CONSTANTS
  Requests,      \* requests under way
  Names,         \* names owner/repository
  Repos,         \* repository identifiers
  NoRepo,        \* no repository
  RequestLimit,  \* WebState.requests
  JobLimit,      \* WebState.jobs, MAX_BLOCKING_WEB_JOBS
  MaxChanges,    \* bound on changes that others make
  Offered        \* the handlers a request may ask for

ASSUME LimitAssumption ==
  /\ RequestLimit \in Nat \ {0}
  /\ JobLimit \in Nat \ {0}
  /\ MaxChanges \in Nat
ASSUME RepoAssumption == NoRepo \notin Repos

VARIABLES
  binding,   \* the repository a name leads to
  level,     \* who reads a repository: "public", "private" (the actor), or "hidden"
  session,   \* the actor's session is valid
  changes,   \* changes that others made so far
  req,       \* the requests
  task,      \* the blocking closure of a request, which may outlive it
  served,    \* content that went into the answer
  loose,     \* the part of it that was looked up by name
  commits,   \* how often the change a request asks for was committed
  open,      \* an intent of the request waits for its recovery
  seen,      \* history: the most that was readable while the request lasted
  met,       \* history: its name led to a readable repository meanwhile
  rebound    \* history: its name led elsewhere meanwhile

world == <<binding, level, session, changes>>
effects == <<served, loose, commits, open>>
history == <<seen, met, rebound>>
webVars == <<world, req, task, effects, history>>

-----------------------------------------------------------------------------
(***************************************************************************)
(* Handlers.  `early` are the answers a handler gives before any job;      *)
(* `hidden` and `absent` answer a name that leads to a repository the      *)
(* actor may not use, and a name that leads nowhere; `confirm` is what a   *)
(* form may say that changes nothing unless confirm is "yes".              *)
(***************************************************************************)

Form(kind, jobs, early) ==
  [kind |-> kind, jobs |-> jobs, early |-> early, hidden |-> "404", absent |-> "404", confirm |-> {"yes"}]
Get(jobs, early) == Form("page", jobs, early)
Post(kind, change, hidden, absent) ==
  [Form(kind, <<<<"auth">>, change>>, {"400", "403", "login"}) EXCEPT !.hidden = hidden, !.absent = absent]
Mutate(hidden, absent) == Post("mutate", <<"mutate">>, hidden, absent)
Confirmed(handler) == [handler EXCEPT !.confirm = {"yes", "no"}]

\* public.rs
Read == <<"resolve", "read">>
ReadPage == <<"resolve", "manage", "read">>
EventPage == <<"resolve", "name">>
Summary == Get(<<ReadPage \o <<"name">>>>, {"308"})
Refs == Get(<<ReadPage>>, {})
Commits == Get(<<ReadPage \o <<"name">>>>, {"400"})
Search == Get(<<ReadPage \o <<"name">>>>, {"400"})
Commit == Get(<<ReadPage>>, {"404"})
CommitPatch == [Get(<<Read, <<"stream">>>>, {"404"}) EXCEPT !.kind = "file"]
Diff == Get(<<ReadPage>>, {"404"})
TreeResponse == Get(<<ReadPage>>, {"404"})
Blob == Get(<<ReadPage>>, {"404"})
Raw == [Get(<<Read>>, {"404"}) EXCEPT !.kind = "file"]
Blame == Get(<<ReadPage>>, {"404"})
Archive == [Get(<<Read, <<"stream">>>>, {"404"}) EXCEPT !.kind = "file"]
FeedResponse == [Get(<<EventPage>>, {"400"}) EXCEPT !.kind = "file"]
InfoRefs == Get(<<Read>>, {"400"})
GitUploadPack == Get(<<Read>>, {"400", "415"})

\* issues.rs and watches.rs: repository_can_manage is a job of its own.
IssueList == Get(<<<<"manage">>, Read>>, {"400"})
IssueDetail == Get(<<<<"manage">>, Read>>, {"400"})
WatchPage == Get(<<<<"manage">>, Read>>, {})
CreateIssue == Mutate("404", "404")
EditIssue == Mutate("404", "404")
CommentIssue == Mutate("404", "404")
ChangeState == Mutate("404", "404")
SetWatch == Mutate("404", "404")

\* pull_requests.rs: the list asks for the branches and then, by name and
\* unchecked, for the default branch.
DownloadRevisionPatch == [Get(<<Read, <<"stream">>>>, {"400"}) EXCEPT !.kind = "file"]
PullRequestList == Get(<<<<"manage">>, Read, Read, <<"name">>>>, {"400"})
PullRequestDetail == Get(<<<<"manage">>, Read>>, {"400"})
EditPullRequest == Mutate("403", "404")
ChangePullRequestState == Mutate("403", "404")
CreateReview == Mutate("404", "404")
MergePullRequest == Confirmed(Post("merge", <<"intent", "reread">>, "403", "404"))
OpenPullRequest == Post("pull", <<"intent", "reread">>, "404", "404")
RevisePullRequest == Post("pull", <<"intent", "reread">>, "404", "404")

\* repository_settings.rs: a maintainer's pages; a hidden name is denied.
Settings == [Get(<<Read \o <<"name">>>>, {"403"}) EXCEPT !.hidden = "403"]
Rename == Mutate("403", "404")
UpdateGeneral == Mutate("403", "500")
UpdateCollaborator == Mutate("403", "500")
UpdateDefaultBranch == Post("intent", <<"intent">>, "403", "500")
ArchiveRepository == Confirmed(Mutate("403", "500"))
Unarchive == Confirmed(Mutate("403", "404"))

\* Pages over many repositories: mod.rs, feeds.rs, metadata_search.rs.  The
\* token of a feed stands for its account.
Home == [Get(<<<<"list", "list">>>>, {}) EXCEPT !.kind = "list"]
PublicProfile == [Get(<<<<"list", "reload">>>>, {"404"}) EXCEPT !.kind = "list"]
Activity == [Get(<<<<"auth">>, <<"list">>>>, {"400", "login"}) EXCEPT !.kind = "list"]
TokenFeed == [Get(<<<<"list">>>>, {"404"}) EXCEPT !.kind = "token"]
MetadataSearch == [Get(<<<<"list">>>>, {"400", "ok"}) EXCEPT !.kind = "list"]

\* Forms that change something other than the repository of a name.
\* account_job reloads the keys of the SSH server once the change is committed.
Signed == <<<<"auth">>, <<"store">>>>
CreateRepository == Form("store", Signed, {"400", "403", "login"})
CreateOrganization == Form("store", Signed, {"400", "403", "login"})
UpdateOrganizationProfile == Form("store", Signed, {"400", "403", "login"})
SetOrganizationMember == Form("store", Signed, {"400", "403", "login"})
RemoveOrganizationMember == Form("store", Signed, {"400", "403", "login"})
BeginKeyAdd == Form("store", Signed, {"400", "403", "login"})
BeginKeyRevoke == Form("store", Signed, {"400", "403", "login"})
IssueToken == Form("store", Signed, {"400", "403", "login"})
RotateToken == Confirmed(Form("store", Signed, {"400", "403", "login"}))
RevokeToken == Confirmed(Form("store", Signed, {"400", "403", "login"}))
LoginChallenge == Form("store", <<<<"store">>>>, {"400", "429"})
LoginSsh == Form("store", <<<<"store">>>>, {"400", "429"})
LoginSshComplete == Form("store", <<<<"store">>>>, {"400", "429"})
LoginVerify == Form("store", <<<<"store">>>>, {"400", "429"})
Signup == Form("account", <<<<"account", "reload">>>>, {"400", "429"})
Recover == Form("account", <<<<"account", "reload">>>>, {"400", "429"})
CompleteKeyAdd == Form("account", <<<<"auth">>, <<"account", "reload">>>>, {"400", "403", "login"})
CompleteKeyRevoke == Form("account", <<<<"auth">>, <<"account", "reload">>>>, {"400", "403", "login"})
UpdateProfile == Form("account", <<<<"auth">>, <<"account", "reload">>>>, {"400", "403", "login"})

Handlers ==
  { Summary, Refs, Commits, Search, Commit, CommitPatch, Diff, TreeResponse, Blob, Raw, Blame, Archive,
    FeedResponse, InfoRefs, GitUploadPack, IssueList, IssueDetail, WatchPage, CreateIssue, EditIssue,
    CommentIssue, ChangeState, SetWatch, DownloadRevisionPatch, PullRequestList, PullRequestDetail,
    EditPullRequest, ChangePullRequestState, CreateReview, MergePullRequest, OpenPullRequest,
    RevisePullRequest, Settings, Rename, UpdateGeneral, UpdateCollaborator, UpdateDefaultBranch,
    ArchiveRepository, Unarchive, Home, PublicProfile, Activity, TokenFeed, MetadataSearch,
    CreateRepository, CreateOrganization, UpdateOrganizationProfile, SetOrganizationMember,
    RemoveOrganizationMember, BeginKeyAdd, BeginKeyRevoke, IssueToken, RotateToken, RevokeToken,
    LoginChallenge, LoginSsh, LoginSshComplete, LoginVerify, Signup, Recover, CompleteKeyAdd,
    CompleteKeyRevoke, UpdateProfile }

ASSUME OfferedAssumption == Offered \in [Requests -> SUBSET Handlers]

-----------------------------------------------------------------------------
NoHandler == Get(<<>>, {})
NoRequest == [phase |-> "none", handler |-> NoHandler, name |-> CHOOSE n \in Names : TRUE,
              confirm |-> "yes", cookie |-> FALSE, actor |-> FALSE, answer |-> "none", public |-> FALSE]
NoTask == [operations |-> <<>>, repo |-> NoRepo]

Known(q) == req[q].actor \/ req[q].handler.kind = "token"
CanRead(r, actor) == level[r] = "public" \/ (level[r] = "private" /\ actor)
Running(q) == task[q].operations # <<>>
Admitted == {q \in Requests : req[q].phase \in {"queued", "running"}}

WebInit ==
  /\ binding \in [Names -> Repos \cup {NoRepo}]
  /\ \A m, n \in Names : binding[m] = binding[n] /\ binding[m] # NoRepo => m = n
  /\ level \in [Repos -> {"public", "private", "hidden"}]
  /\ session = TRUE
  /\ changes = 0
  /\ req = [q \in Requests |-> NoRequest]
  /\ task = [q \in Requests |-> NoTask]
  /\ served = [q \in Requests |-> {}]
  /\ loose = [q \in Requests |-> {}]
  /\ commits = [q \in Requests |-> 0]
  /\ open = {}
  /\ seen = [q \in Requests |-> [r \in Repos |-> "never"]]
  /\ met = {}
  /\ rebound = {}

\* What others do meanwhile: rename, create, change visibility, roles and state
\* (Collaboration), and end the session.
Rebind(n, r) ==
  /\ changes < MaxChanges
  /\ r = NoRepo \/ \A m \in Names : binding[m] # r
  /\ binding[n] # r
  /\ binding' = [binding EXCEPT ![n] = r]
  /\ changes' = changes + 1
  /\ UNCHANGED <<level, session, req, task, effects>>

SetLevel(r, l) ==
  /\ changes < MaxChanges
  /\ level[r] # l
  /\ level' = [level EXCEPT ![r] = l]
  /\ changes' = changes + 1
  /\ UNCHANGED <<binding, session, req, task, effects>>

EndSession ==
  /\ session
  /\ changes < MaxChanges
  /\ session' = FALSE
  /\ changes' = changes + 1
  /\ UNCHANGED <<binding, level, req, task, effects>>

-----------------------------------------------------------------------------
(***************************************************************************)
(* request_guard and request_actor                                         *)
(***************************************************************************)

Arrive(q) ==
  /\ req[q].phase = "none"
  /\ \E h \in Offered[q], n \in Names, cookie \in BOOLEAN : \E confirm \in h.confirm :
       req' = [req EXCEPT ![q] = [NoRequest EXCEPT !.phase = "waiting", !.handler = h, !.name = n,
                                                   !.cookie = cookie, !.confirm = confirm]]
  /\ UNCHANGED <<world, task, effects>>

Answered(q, answer) ==
  [req[q] EXCEPT !.phase = "done", !.answer = answer,
                 !.handler = [NoHandler EXCEPT !.kind = req[q].handler.kind]]
Answer(q, answer) == req' = [req EXCEPT ![q] = Answered(q, answer)]

\* No permit of WebState.requests within CONCURRENCY_WAIT
Busy(q) ==
  /\ req[q].phase = "waiting"
  /\ Cardinality(Admitted) >= RequestLimit
  /\ Answer(q, "503")
  /\ UNCHANGED <<world, task, effects>>

\* The permit is taken; with a session cookie request_actor runs its job first.
Admit(q) ==
  /\ req[q].phase = "waiting"
  /\ Cardinality(Admitted) < RequestLimit
  /\ req' = [req EXCEPT ![q].phase = "queued",
                        ![q].handler.jobs = IF req[q].cookie THEN <<<<"actor">>>> \o @ ELSE @]
  /\ UNCHANGED <<world, task, effects>>

\* The handler returns before its first job: the name, the query or the form
\* is not valid, or there is no session.  A form that does not confirm its change
\* is redirected once the session is authenticated, as after the change.
Early(q) ==
  /\ req[q].phase = "queued"
  /\ ~Running(q)
  /\ Head(req[q].handler.jobs) # <<"actor">>
  /\ served[q] = {} /\ task[q] = NoTask
  /\ \/ \E answer \in req[q].handler.early : Answer(q, answer)
     \/ /\ req[q].confirm = "no" /\ Head(req[q].handler.jobs) # <<"auth">>
        /\ Answer(q, "ok")
  /\ UNCHANGED <<world, task, effects>>

RequestTimeoutAsBusy(q) ==
  /\ q \in Admitted
  /\ Answer(q, "503")
  /\ UNCHANGED <<world, task, effects>>

\* REQUEST_TIMEOUT: the handler is dropped, its blocking closure is not.
RequestTimeout(q) ==
  /\ q \in Admitted
  /\ Answer(q, "408")
  /\ UNCHANGED <<world, task, effects>>
-----------------------------------------------------------------------------
(***************************************************************************)
(* Jobs                                                                    *)
(***************************************************************************)

\* jobs.acquire_owned and spawn_blocking.  A stream is answered at once: its
\* closure writes into a channel that the body drains.
StartJob(q) ==
  /\ req[q].phase = "queued"
  /\ Cardinality({p \in Requests : Running(p)}) < JobLimit
  /\ req[q].confirm = "yes" \/ Head(req[q].handler.jobs) \in {<<"actor">>, <<"auth">>}
  /\ task' = [task EXCEPT ![q].operations = Head(req[q].handler.jobs)]
  /\ IF Head(req[q].handler.jobs) = <<"stream">>
     THEN Answer(q, "ok")
     ELSE req' = [req EXCEPT ![q].phase = "running", ![q].handler.jobs = Tail(@)]
  /\ UNCHANGED <<world, effects>>

\* One operation is done; after the last one the permit is returned and the
\* handler goes on, if the request still waits for it.
Continue(q, repo, public) ==
  LET rest == Tail(task[q].operations) IN
  /\ task' = [task EXCEPT ![q] = [operations |-> rest, repo |-> repo]]
  /\ \/ req[q].phase # "running" /\ UNCHANGED req
     \/ /\ req[q].phase = "running" /\ rest # <<>>
        /\ req' = [req EXCEPT ![q].public = public]
     \/ /\ req[q].phase = "running" /\ rest = <<>> /\ req[q].handler.jobs # <<>>
        /\ req' = [req EXCEPT ![q].public = public, ![q].phase = "queued"]
     \/ /\ req[q].phase = "running" /\ rest = <<>> /\ req[q].handler.jobs = <<>>
        /\ req' = [req EXCEPT ![q] = [Answered(q, "ok") EXCEPT !.public = public]]

\* The closure returns an error, or panics: the permit is returned as well.
Stop(q, answer) ==
  /\ task' = [task EXCEPT ![q].operations = <<>>]
  /\ IF req[q].phase = "running" THEN Answer(q, answer) ELSE UNCHANGED req

At(q, operation) == Running(q) /\ Head(task[q].operations) = operation
Target(q) == binding[req[q].name]
Cacheable(q) == req[q].handler.kind = "file" /\ level[Target(q)] = "public"
Usable(q) == Target(q) # NoRepo /\ CanRead(Target(q), Known(q))

\* request_actor: without a valid session the request goes on as nobody's.
ActorOperation(q) ==
  /\ At(q, "actor")
  /\ task' = [task EXCEPT ![q].operations = <<>>]
  /\ req' = [req EXCEPT ![q].actor = session,
                        ![q].phase = IF @ = "running" THEN "queued" ELSE @]
  /\ UNCHANGED <<world, effects>>

\* authenticate_mutation
AuthOperation(q) ==
  /\ At(q, "auth")
  /\ IF session /\ req[q].cookie
     THEN /\ task' = [task EXCEPT ![q].operations = <<>>]
          /\ req' = [req EXCEPT ![q].actor = TRUE, ![q].phase = IF @ = "running" THEN "queued" ELSE @]
     ELSE Stop(q, "login")
  /\ UNCHANGED <<world, effects>>

\* repository_can_manage and the second authorize of read_page: an error is "no".
ManageOperation(q) ==
  /\ At(q, "manage")
  /\ Continue(q, task[q].repo, req[q].public)
  /\ UNCHANGED <<world, effects>>

\* resolve_repository, or repository_issue_access in a service.  An error of a
\* later job of the list of pull requests is an internal one.
ResolveOperation(q) ==
  /\ At(q, "resolve")
  /\ \/ Usable(q) /\ Continue(q, Target(q), Cacheable(q))
     \/ ~Usable(q) /\ served[q] # {} /\ Stop(q, "500")
     \/ ~Usable(q) /\ served[q] = {} /\ Target(q) = NoRepo /\ Stop(q, req[q].handler.absent)
     \/ ~Usable(q) /\ served[q] = {} /\ Target(q) # NoRepo /\ Stop(q, req[q].handler.hidden)
  /\ UNCHANGED <<world, effects>>

ReadOperationByName(q) ==
  /\ At(q, "read")
  /\ Target(q) # NoRepo
  /\ Continue(q, task[q].repo, req[q].public)
  /\ served' = [served EXCEPT ![q] = @ \cup {Target(q)}]
  /\ UNCHANGED <<world, loose, commits, open>>

\* RepositoryReadService on the directory of the identifier, or rows by identifier
ReadOperation(q) ==
  /\ At(q, "read")
  /\ Continue(q, task[q].repo, req[q].public)
  /\ served' = [served EXCEPT ![q] = @ \cup {task[q].repo}]
  /\ UNCHANGED <<world, loose, commits, open>>

\* repository_events or repository_default_branch: by name, and no policy.  The
\* event page takes the record, and so the visibility, from this query.
NameOperation(q) ==
  /\ At(q, "name")
  /\ \/ /\ Target(q) # NoRepo
        /\ Continue(q, task[q].repo, IF served[q] = {} THEN Cacheable(q) ELSE req[q].public)
        /\ served' = [served EXCEPT ![q] = @ \cup {Target(q)}]
        /\ loose' = [loose EXCEPT ![q] = @ \cup {Target(q)}]
     \/ /\ Target(q) = NoRepo
        /\ Stop(q, IF served[q] = {} THEN "404" ELSE "500")
        /\ UNCHANGED <<served, loose>>
  /\ UNCHANGED <<world, commits, open>>

\* home_repositories, watched_activity_events, visit_metadata_search_candidates
ListOperation(q) ==
  /\ At(q, "list")
  /\ Continue(q, NoRepo, req[q].public)
  /\ served' = [served EXCEPT ![q] = @ \cup {r \in Repos : CanRead(r, Known(q))}]
  /\ UNCHANGED <<world, loose, commits, open>>

\* The client has read the body, or has gone: blocking_send fails then.
StreamEnds(q) ==
  /\ At(q, "stream")
  /\ task' = [task EXCEPT ![q].operations = <<>>]
  /\ UNCHANGED <<world, req, effects>>

\* One transaction: committed, or refused for the actor, the state or the form.
MutateOperation(q) ==
  /\ Running(q) /\ Head(task[q].operations) \in {"mutate", "intent"}
  /\ \/ /\ Usable(q)
        /\ Continue(q, Target(q), req[q].public)
        /\ commits' = [commits EXCEPT ![q] = @ + 1]
     \/ /\ Usable(q)
        /\ \E answer \in {"400", "403", "409"} : Stop(q, answer)
        /\ UNCHANGED commits
     \/ /\ ~Usable(q)
        /\ Stop(q, IF Target(q) = NoRepo THEN req[q].handler.absent ELSE req[q].handler.hidden)
        /\ UNCHANGED commits
  /\ UNCHANGED <<world, served, loose, open>>

\* The intent is recorded and its change fails half way: the recovery decides.  A
\* merge whose pull request was closed meanwhile fails as a conflict.
IntentOperation(q) ==
  /\ At(q, "intent")
  /\ Usable(q)
  /\ \/ Stop(q, "500")
     \/ req[q].handler.kind = "merge" /\ Stop(q, "409")
  /\ open' = open \cup {q}
  /\ UNCHANGED <<world, served, loose, commits>>

\* Store::pull_request after the change, by the name as it is by then
RereadOperation(q) ==
  /\ At(q, "reread")
  /\ \/ Usable(q) /\ Continue(q, task[q].repo, req[q].public)
     \/ (Target(q) # task[q].repo \/ ~Usable(q)) /\ Stop(q, "404")
  /\ UNCHANGED <<world, effects>>

\* A change that is not about the repository of the name, and the one of an account
StoreOperation(q) ==
  /\ Running(q) /\ Head(task[q].operations) \in {"store", "account"}
  /\ \/ /\ Continue(q, NoRepo, FALSE)
        /\ commits' = [commits EXCEPT ![q] = @ + 1]
     \/ /\ \E answer \in {"400", "403", "404", "409"} : Stop(q, answer)
        /\ UNCHANGED commits
  /\ UNCHANGED <<world, served, loose, open>>

\* key_reloader after the operation: its error replaces the result.
ReloadOperation(q) ==
  /\ At(q, "reload")
  /\ \/ Continue(q, NoRepo, FALSE)
     \/ \E answer \in {"400", "500"} : Stop(q, answer)
  /\ UNCHANGED <<world, effects>>

Recovery(q) ==
  /\ q \in open
  /\ open' = open \ {q}
  /\ commits' \in {commits, [commits EXCEPT ![q] = @ + 1]}
  /\ UNCHANGED <<world, req, task, served, loose>>

\* The store or the file system fails, or the closure panics (a JoinError, as when
\* an active repository is unarchived): before anything is committed, or when the
\* pull request is read once more.
JobFails(q) ==
  /\ Running(q)
  /\ Head(task[q].operations) \notin {"actor", "auth", "manage", "stream", "reload"}
  /\ Stop(q, "500")
  /\ UNCHANGED <<world, effects>>

-----------------------------------------------------------------------------
Lasts(q) == req[q].phase \in {"queued", "running"} \/ Running(q)
Level(q, r) == IF CanRead(r, Known(q)) THEN level[r] ELSE "never"
Best(a, b) == IF "public" \in {a, b} THEN "public" ELSE IF "private" \in {a, b} THEN "private" ELSE "never"

\* History: what the actor could have read in each state while a request lasted.
Observe ==
  /\ seen' = [q \in Requests |-> [r \in Repos |->
                 IF Lasts(q)' THEN Best(seen[q][r], Level(q, r)') ELSE seen[q][r]]]
  /\ met' = met \cup {q \in Requests : Lasts(q)' /\ Usable(q)'}
  /\ rebound' = rebound \cup {q \in Requests : binding'[req[q].name] # binding[req[q].name] /\ Lasts(q)}

Others ==
  \/ \E n \in Names, r \in Repos \cup {NoRepo} : Rebind(n, r)
  \/ \E r \in Repos, l \in {"public", "private", "hidden"} : SetLevel(r, l)
  \/ EndSession
Guard(q) == Busy(q) \/ Admit(q) \/ Early(q) \/ RequestTimeout(q)
Operation(q) ==
  \/ ActorOperation(q)
  \/ AuthOperation(q)
  \/ ManageOperation(q)
  \/ ResolveOperation(q)
  \/ ReadOperation(q)
  \/ NameOperation(q)
  \/ ListOperation(q)
  \/ MutateOperation(q)
  \/ IntentOperation(q)
  \/ RereadOperation(q)
  \/ StoreOperation(q)
  \/ ReloadOperation(q)
  \/ JobFails(q)

Step ==
  \/ Others
  \/ \E q \in Requests : Arrive(q)
  \/ \E q \in Requests : Guard(q)
  \/ \E q \in Requests : StartJob(q)
  \/ \E q \in Requests : Operation(q)
  \/ \E q \in Requests : StreamEnds(q)
  \/ \E q \in Requests : Recovery(q)

WebNext == Step /\ Observe

WebSpec == WebInit /\ [][WebNext]_webVars
-----------------------------------------------------------------------------
WebTypeOK ==
  /\ binding \in [Names -> Repos \cup {NoRepo}]
  /\ level \in [Repos -> {"public", "private", "hidden"}]
  /\ session \in BOOLEAN
  /\ changes \in 0..MaxChanges
  /\ \A q \in Requests : /\ req[q].phase \in {"none", "waiting", "queued", "running", "done"}
                         /\ req[q].phase = "running" => Running(q)
                         /\ task[q].repo \in Repos \cup {NoRepo}
                         /\ loose[q] \subseteq served[q]
  /\ Cardinality(Admitted) <= RequestLimit
  /\ Cardinality({q \in Requests : Running(q)}) <= JobLimit

(***************************************************************************)
(* What an answer tells about the change that was asked for.  A success    *)
(* means that it was committed, once, and a form without confirm=yes never *)
(* changes anything, although its redirect looks like a success.  A        *)
(* refusal, a login redirect or a busy server means that nothing was       *)
(* committed and that no worker is left that could still do it.  An        *)
(* internal error means the same, except where an intent is left to the    *)
(* recovery and for accounts, whose change is committed before the keys    *)
(* are reloaded.  After a pull request was opened, revised or merged it is *)
(* read once more by name, so that 404 tells nothing of these changes; the *)
(* conflict of a merge may leave the base moved and its intent behind.  A  *)
(* timeout tells nothing: the worker goes on.                              *)
(***************************************************************************)
Unsure(kind) ==
  CASE kind = "account" -> {"400", "500"}
    [] kind = "intent"  -> {"500"}
    [] kind = "pull"    -> {"404", "500"}
    [] kind = "merge"   -> {"404", "409", "500"}
    [] OTHER            -> {}

AnswerTells ==
  \A q \in Requests :
    LET kind == req[q].handler.kind
        sure == {"400", "403", "404", "409", "429", "500", "503", "login"} \ Unsure(kind)
    IN /\ commits[q] <= 1
       /\ req[q].confirm = "no" => commits[q] = 0 /\ q \notin open
       /\ /\ req[q].answer = "ok" /\ req[q].confirm = "yes"
          /\ kind \in {"mutate", "intent", "pull", "merge", "store", "account"}
          => commits[q] = 1
       /\ req[q].answer \in sure => commits[q] = 0 /\ ~Running(q) /\ q \notin open

(***************************************************************************)
(* An answer shows only repositories that the actor could read while the   *)
(* request lasted, and is marked public (and so cacheable) only when they  *)
(* were public then; a page or a confirmed change succeeds, and a conflict *)
(* is told, only for a name that led to a readable repository.  What a     *)
(* page looks up once more by name is the repository the name leads to by  *)
(* then, so it can be another one after a rename (public.rs, event_page).  *)
(***************************************************************************)
ServedWasReadable ==
  \A q \in Requests :
    req[q].answer \in {"ok", "409"} =>
      /\ \A r \in served[q] :
           \/ seen[q][r] \in (IF req[q].public THEN {"public"} ELSE {"public", "private"})
           \/ r \in loose[q] /\ q \in rebound
      /\ /\ req[q].handler.kind \in {"page", "file", "mutate", "intent", "pull", "merge"}
         /\ req[q].confirm = "yes"
         => q \in met
=============================================================================
