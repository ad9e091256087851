--------------------------- MODULE Collaboration ---------------------------
(***************************************************************************)
(* Organizations, repositories, their collaborators and their issues: who  *)
(* may do what, and who sees what.                                         *)
(*                                                                         *)
(* Every change of rows is one SQLite transaction, so it is one step; a    *)
(* name that a request gives is resolved in the transaction that uses it,  *)
(* so an action takes the repository itself.  A refused request changes    *)
(* nothing and is no step.  What is not atomic is the creation of a        *)
(* repository (its directory is made and renamed before its row is         *)
(* inserted, and the process may be killed in between) and the opening and *)
(* merging of a pull request: an intent is recorded, and after the refs    *)
(* have changed it is completed or abandoned, perhaps by a recovery.       *)
(*                                                                         *)
(* Sources: src/store/mod.rs, src/repository.rs, src/organization.rs,      *)
(* src/issue.rs, src/watch.rs, src/policy.rs.                              *)
(*                                                                         *)
(* Titles, bodies, descriptions, timestamps and page limits are left out.  *)
(***************************************************************************)
EXTENDS Integers, Sequences, FiniteSetsExt

CONSTANTS
  Users,      \* accounts; an account's namespace has its name
  Orgs,       \* names that organizations may take
  Repos,      \* repository identifiers
  Slugs,      \* repository names
  Admin,      \* "admin-cli"
  Nobody,     \* a request without a session
  NoName,     \* SQL NULL
  Budget      \* bound on the number of changes

ASSUME NamesAssumption ==
  /\ Users \cap Orgs = {}
  /\ {Admin, Nobody, NoName} \cap (Users \cup Orgs) = {}
  /\ Admin # Nobody
ASSUME BudgetAssumption == Budget \in Nat

VARIABLES
  active,        \* accounts whose state is 'active'
  orgs,          \* organization rows
  member,        \* organization_member.role
  repo,          \* repository rows
  collaborator,  \* repository_collaborator.role
  watch,         \* watch rows
  issues,        \* issue rows of a repository; the index is the number
  pulls,         \* pull_request rows of a repository; the index is the number, and
                 \* the state is "none" for a number that is only reserved
  intents,       \* pending intents to open or merge a pull request
  events,        \* repository_event rows; the index is the sequence
  disk,          \* the directory of a repository identifier
  creation,      \* a creation under way
  by,            \* history: who made the last change
  spent          \* changes so far

access == <<active, orgs, member, collaborator>>
content == <<watch, issues, pulls, intents, events>>
files == <<disk, creation>>
vars == <<access, repo, content, files, by, spent>>

Namespaces == Users \cup Orgs
Actors == Users \cup {Admin}
Viewers == Users \cup {Nobody}
Roles == {"owner", "maintainer", "writer", "reader"}
Grants == {"maintainer", "writer", "reader"}
NoRepo == [owner |-> NoName, slug |-> NoName, visibility |-> "public", state |-> "none"]
NoCreation == [phase |-> "none", actor |-> NoName, owner |-> NoName, slug |-> NoName]

Rows == {r \in Repos : repo[r].state # "none"}

\* Migrations leave empty tables; the accounts have signed up.
Init ==
  /\ active = Users
  /\ orgs = {}
  /\ member = [o \in Orgs |-> [u \in Users |-> "none"]]
  /\ repo = [r \in Repos |-> NoRepo]
  /\ collaborator = [r \in Repos |-> [u \in Users |-> "none"]]
  /\ watch = {}
  /\ issues = [r \in Repos |-> <<>>]
  /\ pulls = [r \in Repos |-> <<>>]
  /\ intents = {}
  /\ events = [r \in Repos |-> <<>>]
  /\ disk = [r \in Repos |-> "none"]
  /\ creation = [r \in Repos |-> NoCreation]
  /\ by = Admin
  /\ spent = 0

\* One committed transaction of actor a.
Commit(a) ==
  /\ spent < Budget
  /\ spent' = spent + 1
  /\ by' = a

-----------------------------------------------------------------------------
(***************************************************************************)
(* Roles                                                                   *)
(***************************************************************************)

OrgRole(u, ns) == IF ns \in Orgs THEN member[ns][u] ELSE "none"

\* The CASE of repository_issue_access: the first role of the list that either
\* row gives.  LEFT JOINs give no role to a request without a session.
RoleOf(u, r) ==
  IF u \notin active THEN "none"
  ELSE LET held == {OrgRole(u, repo[r].owner), collaborator[r][u]} IN
       IF repo[r].owner = u \/ OrgRole(u, repo[r].owner) = "owner" THEN "owner"
       ELSE IF "maintainer" \in held THEN "maintainer"
       ELSE IF "writer" \in held THEN "writer"
       ELSE IF "reader" \in held THEN "reader"
       ELSE "none"

\* RepositoryIssueAccess
CanRead(u, r) ==
  /\ repo[r].state = "active"
  /\ repo[r].visibility = "public" \/ RoleOf(u, r) # "none"
CanWriteIssue(u, r, author) ==
  /\ CanRead(u, r)
  /\ (u \in active /\ u = author) \/ RoleOf(u, r) \in {"owner", "maintainer", "writer"}
CanMaintain(u, r) == CanRead(u, r) /\ RoleOf(u, r) \in {"owner", "maintainer"}

\* The CASE of repository_authorization, which policy.rs uses: a query of its own.
PolicyRole(u, r) ==
  LET holds(role) == OrgRole(u, repo[r].owner) = role \/ collaborator[r][u] = role IN
  IF u \notin active THEN "none"
  ELSE IF repo[r].owner = u \/ holds("owner") THEN "owner"
  ELSE IF holds("maintainer") THEN "maintainer"
  ELSE IF holds("writer") THEN "writer"
  ELSE IF holds("reader") THEN "reader"
  ELSE "none"

\* policy.rs: allows
Allows(u, r, operation) ==
  LET role == PolicyRole(u, r) IN
  /\ repo[r].state = "active"
  /\ CASE operation = "read" -> repo[r].visibility = "public" \/ role # "none"
       [] operation = "write" -> role \in {"owner", "maintainer", "writer"}
       [] operation = "maintain" -> role \in {"owner", "maintainer"}

\* active_namespace_id
ActiveNamespace(ns) == ns \in active \/ ns \in orgs

\* authorize_namespace_maintainer
NamespaceMaintainer(a, ns) ==
  a = Admin \/ (a \in active /\ (a = ns \/ OrgRole(a, ns) \in {"owner", "maintainer"}))

\* Mutant: maintainers count as owners.
OrganizationManager(a, o) == a = Admin \/ (a \in active /\ member[o][a] \in {"owner", "maintainer"})
\* authorize_organization_owner
OrganizationOwner(a, o) == a = Admin \/ (a \in active /\ member[o][a] = "owner")

\* Mutant: any other member is enough.
OtherMember(o, u) == member[o][u] = "owner" => \E v \in Users \ {u} : member[o][v] # "none"
\* require_other_organization_owner: a suspended owner counts.
OtherOwner(o, u) == member[o][u] = "owner" => \E v \in Users \ {u} : member[o][v] = "owner"

-----------------------------------------------------------------------------
(***************************************************************************)
(* Accounts and organizations                                              *)
(***************************************************************************)

\* suspend_account and resume_account of Accounts, as far as rows here depend on them.
SetAccountState(u) ==
  /\ Commit(Admin)
  /\ active' = IF u \in active THEN active \ {u} ELSE active \cup {u}
  /\ UNCHANGED <<orgs, member, collaborator, repo, content, files>>

CreateOrganization(u, o) ==
  /\ Commit(u)
  /\ u \in active
  /\ o \notin orgs
  /\ orgs' = orgs \cup {o}
  /\ member' = [member EXCEPT ![o][u] = "owner"]
  /\ UNCHANGED <<active, collaborator, repo, content, files>>

SetOrganizationMember(a, o, u, role) ==
  /\ Commit(a)
  /\ o \in orgs
  /\ OrganizationOwner(a, o)
  /\ u \in active
  /\ role # "owner" => OtherOwner(o, u)
  /\ member' = [member EXCEPT ![o][u] = role]
  /\ UNCHANGED <<active, orgs, collaborator, repo, content, files>>

RemoveOrganizationMember(a, o, u) ==
  /\ Commit(a)
  /\ o \in orgs
  /\ OrganizationOwner(a, o)
  /\ OtherOwner(o, u)
  /\ member[o][u] # "none"
  /\ member' = [member EXCEPT ![o][u] = "none"]
  /\ UNCHANGED <<active, orgs, collaborator, repo, content, files>>

-----------------------------------------------------------------------------
(***************************************************************************)
(* Creation of a repository                                                *)
(***************************************************************************)

\* A web request, an SSH command or the administrator asks for owner/slug; the
\* identifier is random.  create_bare makes `.pending-ID.git`.
CreateBare(a, r, ns, slug) ==
  /\ spent < Budget
  /\ creation[r] = NoCreation /\ disk[r] = "none" /\ repo[r] = NoRepo
  /\ creation' = [creation EXCEPT ![r] = [phase |-> "bare", actor |-> a, owner |-> ns, slug |-> slug]]
  /\ disk' = [disk EXCEPT ![r] = "pending"]
  /\ spent' = spent + 1
  /\ UNCHANGED <<access, repo, content, by>>

RenameDirectory(r) ==
  /\ creation[r].phase = "bare"
  /\ creation' = [creation EXCEPT ![r].phase = "renamed"]
  /\ disk' = [disk EXCEPT ![r] = "ready"]
  /\ UNCHANGED <<access, repo, content, by, spent>>

\* create_bare, rename, canonicalize or the check of the parent directory fails.
CreationFails(r) ==
  /\ creation[r].phase \in {"bare", "renamed"}
  /\ creation' = [creation EXCEPT ![r] = NoCreation]
  /\ disk' = [disk EXCEPT ![r] = "none"]
  /\ UNCHANGED <<access, repo, content, by, spent>>

NameTaken(ns, slug) == \E r \in Rows : repo[r].owner = ns /\ repo[r].slug = slug
MayInsert(r) ==
  LET c == creation[r] IN
  /\ ActiveNamespace(c.owner)
  /\ NamespaceMaintainer(c.actor, c.owner)
  /\ ~NameTaken(c.owner, c.slug)

\* Mutant: the row is inserted before the directory has its name.
InsertBeforeRename(r) ==
  LET c == creation[r] IN
  /\ creation[r].phase = "bare"
  /\ MayInsert(r)
  /\ repo' = [repo EXCEPT ![r] = [owner |-> c.owner, slug |-> c.slug, visibility |-> "public", state |-> "active"]]
  /\ events' = [events EXCEPT ![r] = <<[item |-> "repository", kind |-> "created", number |-> 0]>>]
  /\ by' = c.actor
  /\ UNCHANGED <<access, watch, issues, pulls, intents, files, spent>>
\* Store::create_repository
InsertRepository(r) ==
  LET c == creation[r] IN
  /\ creation[r].phase = "renamed"
  /\ MayInsert(r)
  /\ repo' = [repo EXCEPT ![r] = [owner |-> c.owner, slug |-> c.slug, visibility |-> "public", state |-> "active"]]
  /\ events' = [events EXCEPT ![r] = <<[item |-> "repository", kind |-> "created", number |-> 0]>>]
  /\ creation' = [creation EXCEPT ![r] = NoCreation]
  /\ by' = c.actor
  /\ UNCHANGED <<access, watch, issues, pulls, intents, disk, spent>>

\* The transaction is refused: the directory is removed.
InsertRefused(r) ==
  /\ creation[r].phase = "renamed"
  /\ ~MayInsert(r)
  /\ creation' = [creation EXCEPT ![r] = NoCreation]
  /\ disk' = [disk EXCEPT ![r] = "none"]
  /\ UNCHANGED <<access, repo, content, by, spent>>

\* The process is killed: creations end where they are.  The identifier of
\* a directory that stays is never drawn again.
Kill ==
  /\ \E r \in Repos : creation[r] # NoCreation
  /\ creation' = [r \in Repos |-> NoCreation]
  /\ UNCHANGED <<access, repo, content, disk, by, spent>>

-----------------------------------------------------------------------------
(***************************************************************************)
(* Repositories and collaborators                                          *)
(***************************************************************************)

\* rename_repository, on the command line
AdminRename(r, slug) ==
  /\ Commit(Admin)
  /\ repo[r].state = "active"
  /\ ActiveNamespace(repo[r].owner)
  /\ repo[r].slug = slug \/ ~NameTaken(repo[r].owner, slug)
  /\ repo' = [repo EXCEPT ![r].slug = slug]
  /\ UNCHANGED <<access, content, files>>

\* rename_repository_for_owner: only a maintainer of the namespace
RenameRepository(u, r, slug) ==
  /\ Commit(u)
  /\ repo[r].state = "active"
  /\ ActiveNamespace(repo[r].owner)
  /\ NamespaceMaintainer(u, repo[r].owner)
  /\ repo[r].slug = slug \/ ~NameTaken(repo[r].owner, slug)
  /\ repo' = [repo EXCEPT ![r].slug = slug]
  /\ UNCHANGED <<access, content, files>>

\* archive_repository and set_repository_visibility, on the command line
AdminArchive(r) ==
  /\ Commit(Admin)
  /\ repo[r].state = "active" /\ ActiveNamespace(repo[r].owner)
  /\ repo' = [repo EXCEPT ![r].state = "archived"]
  /\ UNCHANGED <<access, content, files>>

AdminVisibility(r, visibility) ==
  /\ Commit(Admin)
  /\ repo[r].state = "active" /\ ActiveNamespace(repo[r].owner)
  /\ repo' = [repo EXCEPT ![r].visibility = visibility]
  /\ UNCHANGED <<access, content, files>>

\* archive_repository_for_actor
Archive(u, r) ==
  /\ Commit(u)
  /\ CanMaintain(u, r)
  /\ repo' = [repo EXCEPT ![r].state = "archived"]
  /\ UNCHANGED <<access, content, files>>

\* unarchive_repository_for_owner: a collaborator that maintains the repository is
\* no maintainer of its namespace.
Unarchive(u, r) ==
  /\ Commit(u)
  /\ repo[r].state = "archived"
  /\ ActiveNamespace(repo[r].owner)
  /\ NamespaceMaintainer(u, repo[r].owner)
  /\ repo' = [repo EXCEPT ![r].state = "active"]
  /\ UNCHANGED <<access, content, files>>

\* update_repository_settings
UpdateSettings(u, r, visibility) ==
  /\ Commit(u)
  /\ CanMaintain(u, r)
  /\ repo' = [repo EXCEPT ![r].visibility = visibility]
  /\ UNCHANGED <<access, content, files>>

\* set_repository_collaborator, on the command line
AdminSetCollaborator(r, u, role) ==
  /\ Commit(Admin)
  /\ repo[r].state = "active" /\ ActiveNamespace(repo[r].owner)
  /\ u \in active
  /\ u # repo[r].owner
  /\ collaborator' = [collaborator EXCEPT ![r][u] = role]
  /\ UNCHANGED <<active, orgs, member, repo, content, files>>

\* remove_repository_collaborator: the account may be suspended.
AdminRemoveCollaborator(r, u) ==
  /\ Commit(Admin)
  /\ repo[r].state = "active" /\ ActiveNamespace(repo[r].owner)
  /\ u # repo[r].owner
  /\ collaborator[r][u] # "none"
  /\ collaborator' = [collaborator EXCEPT ![r][u] = "none"]
  /\ UNCHANGED <<active, orgs, member, repo, content, files>>

\* update_repository_collaborator; "none" removes the row, for an active account only.
UpdateCollaborator(a, r, u, role) ==
  /\ Commit(a)
  /\ CanMaintain(a, r)
  /\ u \in active
  /\ u # repo[r].owner
  /\ role = "none" => collaborator[r][u] # "none"
  /\ collaborator' = [collaborator EXCEPT ![r][u] = role]
  /\ UNCHANGED <<active, orgs, member, repo, content, files>>

-----------------------------------------------------------------------------
(***************************************************************************)
(* Issues and watches                                                      *)
(***************************************************************************)

\* insert_domain_event: the sequence is one more than the last of the repository.
Record(r, item, kind, number) ==
  events' = [events EXCEPT ![r] = Append(@, [item |-> item, kind |-> kind, number |-> number])]

CreateIssue(u, r) ==
  /\ Commit(u)
  /\ CanRead(u, r)
  /\ u \in active
  /\ issues' = [issues EXCEPT ![r] = Append(@, [author |-> u, state |-> "open"])]
  /\ Record(r, "issue", "created", Len(issues[r]) + 1)
  /\ UNCHANGED <<access, repo, watch, pulls, intents, files>>

\* issue_mutation_context
Mutable(u, r, n) == CanRead(u, r) /\ u \in active /\ n \in DOMAIN issues[r]

EditIssue(u, r, n) ==
  /\ Commit(u)
  /\ Mutable(u, r, n)
  /\ CanWriteIssue(u, r, issues[r][n].author)
  /\ Record(r, "issue", "edited", n)
  /\ UNCHANGED <<access, repo, watch, issues, pulls, intents, files>>

CommentIssue(u, r, n) ==
  /\ Commit(u)
  /\ Mutable(u, r, n)
  /\ Record(r, "issue", "commented", n)
  /\ UNCHANGED <<access, repo, watch, issues, pulls, intents, files>>

SetIssueState(u, r, n, state) ==
  /\ Commit(u)
  /\ Mutable(u, r, n)
  /\ CanWriteIssue(u, r, issues[r][n].author)
  /\ issues[r][n].state # state
  /\ issues' = [issues EXCEPT ![r][n].state = state]
  /\ Record(r, "issue", IF state = "closed" THEN "closed" ELSE "reopened", n)
  /\ UNCHANGED <<access, repo, watch, pulls, intents, files>>

\* Opening and merging a pull request change refs between two transactions
\* (PullRequestRefs and GitOperations have these steps).  The first one checks the
\* access and records an intent; the second one, of the same request or of a
\* recovery, checks no access again.  Between them roles may change and the
\* repository may be archived.
IntentKinds == {"open", "merge"}
Intent(kind, u, r, n) == [kind |-> kind, actor |-> u, repo |-> r, number |-> n]

\* begin_pull_request_open: the number is taken here, and is lost if the intent is abandoned.
OpenPullRequest(u, r) ==
  /\ Commit(u)
  /\ CanRead(u, r)
  /\ RoleOf(u, r) \in {"owner", "maintainer", "writer"}
  /\ pulls' = [pulls EXCEPT ![r] = Append(@, [author |-> u, state |-> "none"])]
  /\ intents' = intents \cup {Intent("open", u, r, Len(pulls[r]) + 1)}
  /\ UNCHANGED <<access, repo, watch, issues, events, files>>

\* complete_pull_request_ref_intent
InsertPullRequest(u, r, n) ==
  /\ Intent("open", u, r, n) \in intents
  /\ n \in DOMAIN pulls[r] /\ pulls[r][n].state = "none"
  /\ intents' = intents \ {Intent("open", u, r, n)}
  /\ pulls' = [pulls EXCEPT ![r][n].state = "open"]
  /\ Record(r, "pull", "created", n)
  /\ by' = u
  /\ UNCHANGED <<access, repo, watch, issues, files, spent>>

\* begin_pull_request_merge: a pull request has one merge intent (UNIQUE).
MergePullRequest(u, r, n) ==
  /\ Commit(u)
  /\ CanMaintain(u, r)
  /\ n \in DOMAIN pulls[r] /\ pulls[r][n].state = "open"
  /\ \A v \in Users : Intent("merge", v, r, n) \notin intents
  /\ intents' = intents \cup {Intent("merge", u, r, n)}
  /\ UNCHANGED <<access, repo, watch, issues, pulls, events, files>>

\* Mutant: a pull request that was closed meanwhile is merged.
CompleteMergeOfAny(u, r, n) ==
  /\ Intent("merge", u, r, n) \in intents
  /\ n \in DOMAIN pulls[r]
  /\ intents' = intents \ {Intent("merge", u, r, n)}
  /\ pulls' = [pulls EXCEPT ![r][n].state = "merged"]
  /\ Record(r, "pull", "merged", n)
  /\ by' = u
  /\ UNCHANGED <<access, repo, watch, issues, files, spent>>
\* complete_pull_request_merge: it fails, and the intent stays, when the pull request
\* is no longer open.
CompleteMerge(u, r, n) ==
  /\ Intent("merge", u, r, n) \in intents
  /\ n \in DOMAIN pulls[r] /\ pulls[r][n].state = "open"
  /\ intents' = intents \ {Intent("merge", u, r, n)}
  /\ pulls' = [pulls EXCEPT ![r][n].state = "merged"]
  /\ Record(r, "pull", "merged", n)
  /\ by' = u
  /\ UNCHANGED <<access, repo, watch, issues, files, spent>>

\* abandon_git_intent and abandon_pull_request_ref_intent: the ref was not changed.
AbandonIntent(kind, u, r, n) ==
  /\ Intent(kind, u, r, n) \in intents
  /\ intents' = intents \ {Intent(kind, u, r, n)}
  /\ UNCHANGED <<access, repo, watch, issues, pulls, events, files, by, spent>>

\* The row is looked up before the access is checked; either refusal changes nothing.
EditPullRequest(u, r, n) ==
  /\ Commit(u)
  /\ n \in DOMAIN pulls[r]
  /\ CanWriteIssue(u, r, pulls[r][n].author)
  /\ pulls[r][n].state \notin {"none", "merged"}
  /\ Record(r, "pull", "edited", n)
  /\ UNCHANGED <<access, repo, watch, issues, pulls, intents, files>>

SetPullRequestState(u, r, n, state) ==
  /\ Commit(u)
  /\ n \in DOMAIN pulls[r]
  /\ CanWriteIssue(u, r, pulls[r][n].author)
  /\ pulls[r][n].state \notin {"none", "merged", state}
  /\ pulls' = [pulls EXCEPT ![r][n].state = state]
  /\ Record(r, "pull", IF state = "closed" THEN "closed" ELSE "reopened", n)
  /\ UNCHANGED <<access, repo, watch, issues, intents, files>>

\* create_pull_request_review: a comment, a line comment, an approval or a request
\* for changes, by anyone who can read, while the pull request is open.
ReviewPullRequest(u, r, n) ==
  /\ Commit(u)
  /\ CanRead(u, r) /\ u \in active
  /\ n \in DOMAIN pulls[r] /\ pulls[r][n].state = "open"
  /\ Record(r, "pull", "reviewed", n)
  /\ UNCHANGED <<access, repo, watch, issues, pulls, intents, files>>

\* set_watch: only who can read may watch, or stop watching.
SetWatch(u, r, watching) ==
  /\ Commit(u)
  /\ u \in active /\ CanRead(u, r)
  /\ watch' = IF watching THEN watch \cup {<<u, r>>} ELSE watch \ {<<u, r>>}
  /\ UNCHANGED <<access, repo, issues, pulls, intents, events, files>>

-----------------------------------------------------------------------------
AdminNext ==
  \/ \E u \in Users : SetAccountState(u)
  \/ \E r \in Repos, s \in Slugs : AdminRename(r, s)
  \/ \E r \in Repos : AdminArchive(r)
  \/ \E r \in Repos, v \in {"public", "private"} : AdminVisibility(r, v)
  \/ \E r \in Repos, u \in Users, role \in Grants : AdminSetCollaborator(r, u, role)
  \/ \E r \in Repos, u \in Users : AdminRemoveCollaborator(r, u)

OrganizationNext ==
  \/ \E u \in Users, o \in Orgs : CreateOrganization(u, o)
  \/ \E a \in Actors, o \in Orgs, u \in Users, role \in Roles : SetOrganizationMember(a, o, u, role)
  \/ \E a \in Actors, o \in Orgs, u \in Users : RemoveOrganizationMember(a, o, u)

CreationNext ==
  \/ \E a \in Actors, r \in Repos, ns \in Namespaces, s \in Slugs : CreateBare(a, r, ns, s)
  \/ \E r \in Repos : RenameDirectory(r)
  \/ \E r \in Repos : CreationFails(r)
  \/ \E r \in Repos : InsertRepository(r)
  \/ \E r \in Repos : InsertRefused(r)
  \/ Kill

RepositoryNext ==
  \/ \E u \in Users, r \in Repos, s \in Slugs : RenameRepository(u, r, s)
  \/ \E u \in Users, r \in Repos : Archive(u, r)
  \/ \E u \in Users, r \in Repos : Unarchive(u, r)
  \/ \E u \in Users, r \in Repos, v \in {"public", "private"} : UpdateSettings(u, r, v)
  \/ \E a, u \in Users, r \in Repos, role \in Grants \cup {"none"} : UpdateCollaborator(a, r, u, role)

ContentNext ==
  \/ \E u \in Users, r \in Repos : CreateIssue(u, r)
  \/ \E u \in Users, r \in Repos, n \in 1..Budget : EditIssue(u, r, n)
  \/ \E u \in Users, r \in Repos, n \in 1..Budget : CommentIssue(u, r, n)
  \/ \E u \in Users, r \in Repos, n \in 1..Budget, s \in {"open", "closed"} : SetIssueState(u, r, n, s)
  \/ \E u \in Users, r \in Repos, w \in BOOLEAN : SetWatch(u, r, w)

PullRequestNext ==
  \/ \E u \in Users, r \in Repos : OpenPullRequest(u, r)
  \/ \E u \in Users, r \in Repos, n \in 1..Budget : InsertPullRequest(u, r, n)
  \/ \E u \in Users, r \in Repos, n \in 1..Budget : MergePullRequest(u, r, n)
  \/ \E u \in Users, r \in Repos, n \in 1..Budget : CompleteMerge(u, r, n)
  \/ \E k \in IntentKinds, u \in Users, r \in Repos, n \in 1..Budget : AbandonIntent(k, u, r, n)
  \/ \E u \in Users, r \in Repos, n \in 1..Budget : EditPullRequest(u, r, n)
  \/ \E u \in Users, r \in Repos, n \in 1..Budget, s \in {"open", "closed"} : SetPullRequestState(u, r, n, s)
  \/ \E u \in Users, r \in Repos, n \in 1..Budget : ReviewPullRequest(u, r, n)

Next ==
  \/ AdminNext
  \/ OrganizationNext
  \/ CreationNext
  \/ RepositoryNext
  \/ ContentNext
  \/ PullRequestNext

Spec == Init /\ [][Next]_vars

-----------------------------------------------------------------------------
(***************************************************************************)
(* Views: each is a query of its own, not a call of CanRead                *)
(***************************************************************************)

\* visit_metadata_search_candidates
SearchShows(v) == {r \in Rows :
  /\ repo[r].state = "active"
  /\ \/ repo[r].visibility = "public"
     \/ /\ v \in active
        /\ repo[r].owner = v \/ OrgRole(v, repo[r].owner) # "none" \/ collaborator[r][v] # "none"}

\* Mutant: a watch outlives the role.
FeedShowsWatched(u) == {r \in Rows :
  /\ u \in active
  /\ <<u, r>> \in watch
  /\ repo[r].state = "active"}

\* watched_activity_events, of token_feed_events and watched_activity_page: the
\* account was found to be active before.
FeedShows(u) == {r \in Rows :
  /\ u \in active
  /\ <<u, r>> \in watch
  /\ repo[r].state = "active"
  /\ \/ repo[r].visibility = "public"
     \/ repo[r].owner = u
     \/ OrgRole(u, repo[r].owner) # "none"
     \/ collaborator[r][u] # "none"}

\* home_repositories
HomeShows(v) == {r \in Rows :
  IF v = Nobody THEN repo[r].visibility = "public" /\ repo[r].state = "active"
  ELSE v \in active /\ (repo[r].owner = v \/ OrgRole(v, repo[r].owner) # "none")}

\* public_profile_page
AccountProfile(u) == {r \in Rows :
  /\ u \in active
  /\ repo[r].owner = u
  /\ repo[r].state = "active" /\ repo[r].visibility = "public"}

\* organization_profile
OrganizationProfile(o) == {r \in Rows :
  /\ o \in orgs
  /\ repo[r].owner = o
  /\ repo[r].state = "active" /\ repo[r].visibility = "public"}

\* maintained_namespaces: what the form for a new repository offers
MaintainedNamespaces(u) == {u} \cup {o \in orgs : member[o][u] \in {"owner", "maintainer"}}

\* public_activity_days
ActivityCounts == {r \in Rows : repo[r].visibility = "public" /\ repo[r].state = "active"}

-----------------------------------------------------------------------------
(***************************************************************************)
(* Properties                                                              *)
(***************************************************************************)

RepoRow == [owner: Namespaces \cup {NoName}, slug: Slugs \cup {NoName},
            visibility: {"public", "private"}, state: {"none", "active", "archived"}]
IssueRow == [author: Users, state: {"open", "closed"}]
PullRow == [author: Users, state: {"none", "open", "closed", "merged"}]
IntentRow == [kind: IntentKinds, actor: Users, repo: Repos, number: Nat]
Kinds == {"created", "edited", "commented", "reviewed", "closed", "reopened", "merged"}
EventRow == [item: {"repository", "issue", "pull"}, kind: Kinds, number: Nat]
Creation == [phase: {"none", "bare", "renamed"}, actor: Actors \cup {NoName},
             owner: Namespaces \cup {NoName}, slug: Slugs \cup {NoName}]

\* The type of the state.
TypeOK ==
  /\ active \subseteq Users
  /\ orgs \subseteq Orgs
  /\ member \in [Orgs -> [Users -> Roles \cup {"none"}]]
  /\ repo \in [Repos -> RepoRow]
  /\ collaborator \in [Repos -> [Users -> Grants \cup {"none"}]]
  /\ watch \subseteq Users \X Repos
  /\ issues \in [Repos -> Seq(IssueRow)]
  /\ pulls \in [Repos -> Seq(PullRow)]
  /\ intents \subseteq IntentRow
  /\ events \in [Repos -> Seq(EventRow)]
  /\ disk \in [Repos -> {"none", "pending", "ready"}]
  /\ creation \in [Repos -> Creation]
  /\ by \in Actors
  /\ spent \in 0..Budget

\* Through every order of role changes, removals and suspensions an organization
\* keeps a member whose role is owner: the last one can be neither removed nor
\* given another role (require_other_organization_owner).
OrganizationHasOwner == \A o \in orgs : \E u \in Users : member[o][u] = "owner"

\* A repository row always has its directory under its final name, and no two rows
\* have the same name, wherever a creation fails or the process is killed: the
\* directory is renamed before the row is inserted and removed only when no row
\* was (create_inner, remove_created_repository).
RowsAreStored ==
  /\ \A r \in Rows : disk[r] = "ready"
  /\ \A r, q \in Rows : repo[r].owner = repo[q].owner /\ repo[r].slug = repo[q].slug => r = q

\* The three ways the code decides who may see a repository agree: the policy of
\* Git requests, the access of issues and pull requests, and the queries of search,
\* feeds, profiles and the home page, which repeat the rule in SQL of their own.
\* Only the home page also lists archived repositories, to members of the namespace.
ViewsAgree ==
  /\ \A v \in Viewers : SearchShows(v) = {r \in Repos : CanRead(v, r)}
  /\ \A u \in Users : FeedShows(u) = {r \in Repos : <<u, r>> \in watch /\ u \in active /\ CanRead(u, r)}
  /\ \A v \in Viewers : \A r \in HomeShows(v) : repo[r].state = "active" => CanRead(v, r)
  /\ \A u \in active : /\ AccountProfile(u) = {r \in HomeShows(Nobody) : repo[r].owner = u}
                       /\ MaintainedNamespaces(u) = {ns \in Namespaces :
                                                     ActiveNamespace(ns) /\ NamespaceMaintainer(u, ns)}
  /\ \A o \in orgs : OrganizationProfile(o) = {r \in HomeShows(Nobody) : repo[r].owner = o}
  /\ ActivityCounts = HomeShows(Nobody)
  /\ \A v \in Viewers, r \in Repos :
       /\ Allows(v, r, "read") <=> CanRead(v, r)
       /\ Allows(v, r, "maintain") <=> CanMaintain(v, r)
       /\ Allows(v, r, "maintain") => Allows(v, r, "write")
       /\ Allows(v, r, "write") => Allows(v, r, "read")

Rank(u, r) ==
  CASE RoleOf(u, r) = "owner" -> 4
    [] RoleOf(u, r) = "maintainer" -> 3
    [] RoleOf(u, r) = "writer" -> 2
    [] RoleOf(u, r) = "reader" -> 1
    [] OTHER -> 0

\* Nobody raises a role above the own one: when a step gives an account a stronger
\* role on an existing repository, the step was made by the administrator, or by an
\* account that before it maintained the repository and had at least that role.
NoEscalation ==
  [][\A u \in Users, r \in Rows :
       Rank(u, r)' > Rank(u, r) =>
         \/ by' = Admin
         \/ by' \in Users /\ Rank(by', r) >= 3 /\ Rank(by', r) >= Rank(u, r)']_vars

\* The state an event leaves its issue or pull request in; the other kinds keep it.
StateAfter == [created |-> "open", closed |-> "closed", reopened |-> "open", merged |-> "merged"]

\* The states in which an event may happen.
MayFollow(kind, state) ==
  CASE kind = "created" -> state = "none"
    [] kind \in {"closed", "merged", "reviewed"} -> state = "open"
    [] kind = "reopened" -> state = "closed"
    [] OTHER -> state \in {"open", "closed"}

\* What a reader of the first k events makes of item number n.
IsOf(event, item, n) == event.item = item /\ event.number = n
Moves(log, item, n, k) == {i \in 1..k : IsOf(log[i], item, n) /\ log[i].kind \in DOMAIN StateAfter}
StateAt(log, item, n, k) ==
  LET moves == Moves(log, item, n, k) IN
  IF moves = {} THEN "none" ELSE StateAfter[log[Max(moves)].kind]

\* The state of the row.
RowState(r, item, n) ==
  LET rows == IF item = "issue" THEN issues[r] ELSE pulls[r] IN
  IF n \in DOMAIN rows THEN rows[n].state ELSE "none"

\* The events of a repository replay to its rows, whoever closes, reopens, reviews
\* or merges in which order: no event follows that the life of an issue or a pull
\* request excludes, and all of them together leave the state of the row.
HistoryReplays ==
  \A r \in Repos, item \in {"issue", "pull"}, n \in 1..Budget :
    /\ \A k \in DOMAIN events[r] :
         IsOf(events[r][k], item, n) => MayFollow(events[r][k].kind, StateAt(events[r], item, n, k - 1))
    /\ StateAt(events[r], item, n, Len(events[r])) = RowState(r, item, n)
=============================================================================
