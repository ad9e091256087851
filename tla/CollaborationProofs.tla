------------------------ MODULE CollaborationProofs ------------------------
(***************************************************************************)
(* Organizations, repositories, issues and pull requests for any accounts, *)
(* names and identifiers: owners stay, rows are stored, every query gives  *)
(* the same view, nobody raises a role above the own one, and the events   *)
(* tell the life of every issue and pull request.                          *)
(***************************************************************************)
EXTENDS Collaboration, WellFoundedInduction, TLAPS

-----------------------------------------------------------------------------
(***************************************************************************)
(* Types                                                                   *)
(***************************************************************************)

\* An update of a role in a table of roles.
LEMMA RoleUpdate ==
  ASSUME NEW A, NEW R, NEW f \in [A -> [Users -> R]], NEW a \in A, NEW u \in Users, NEW role \in R
  PROVE  /\ [f EXCEPT ![a][u] = role] \in [A -> [Users -> R]]
         /\ \A b \in A, v \in Users :
              [f EXCEPT ![a][u] = role][b][v] = IF b = a /\ v = u THEN role ELSE f[b][v]
  OBVIOUS

\* An update of one column of a repository row.
LEMMA RepoUpdate ==
  ASSUME repo \in [Repos -> RepoRow], NEW r \in Repos
  PROVE  /\ \A s \in Slugs :
              LET q == [repo EXCEPT ![r].slug = s] IN
              /\ q \in [Repos -> RepoRow]
              /\ \A p \in Repos \ {r} : q[p] = repo[p]
              /\ q[r].owner = repo[r].owner /\ q[r].state = repo[r].state
              /\ q[r].visibility = repo[r].visibility /\ q[r].slug = s
         /\ \A v \in {"public", "private"} :
              LET q == [repo EXCEPT ![r].visibility = v] IN
              /\ q \in [Repos -> RepoRow]
              /\ \A p \in Repos \ {r} : q[p] = repo[p]
              /\ q[r].owner = repo[r].owner /\ q[r].state = repo[r].state /\ q[r].slug = repo[r].slug
         /\ \A t \in {"active", "archived"} :
              LET q == [repo EXCEPT ![r].state = t] IN
              /\ q \in [Repos -> RepoRow]
              /\ \A p \in Repos \ {r} : q[p] = repo[p]
              /\ q[r].owner = repo[r].owner /\ q[r].slug = repo[r].slug /\ q[r].state = t
<1> DEFINE row == repo[r]
<1>1. row \in RepoRow
  OBVIOUS
<1>2. \A s \in Slugs :
        LET q == [row EXCEPT !.slug = s] IN
        q \in RepoRow /\ q.owner = row.owner /\ q.state = row.state /\ q.visibility = row.visibility /\ q.slug = s
  BY <1>1 DEF RepoRow
<1>3. \A v \in {"public", "private"} :
        LET q == [row EXCEPT !.visibility = v] IN
        q \in RepoRow /\ q.owner = row.owner /\ q.state = row.state /\ q.slug = row.slug
  BY <1>1 DEF RepoRow
<1>4. \A t \in {"active", "archived"} :
        LET q == [row EXCEPT !.state = t] IN
        q \in RepoRow /\ q.owner = row.owner /\ q.slug = row.slug /\ q.state = t
  BY <1>1 DEF RepoRow
<1> QED
  BY <1>2, <1>3, <1>4

\* An update of the state of an issue or of a pull request.
LEMMA IssueUpdate ==
  ASSUME issues \in [Repos -> Seq(IssueRow)], NEW r \in Repos, NEW n \in DOMAIN issues[r],
         NEW s \in {"open", "closed"}
  PROVE  [issues EXCEPT ![r][n].state = s] \in [Repos -> Seq(IssueRow)]
<1> DEFINE row == issues[r][n]
<1>1. row \in IssueRow
  OBVIOUS
<1>2. [row EXCEPT !.state = s] \in IssueRow
  BY <1>1 DEF IssueRow
<1> HIDE DEF row
<1>3. [issues[r] EXCEPT ![n] = [row EXCEPT !.state = s]] \in Seq(IssueRow)
  BY <1>2
<1> QED
  BY <1>3 DEF row

LEMMA PullUpdate ==
  ASSUME pulls \in [Repos -> Seq(PullRow)], NEW r \in Repos, NEW n \in DOMAIN pulls[r],
         NEW s \in {"open", "closed", "merged"}
  PROVE  [pulls EXCEPT ![r][n].state = s] \in [Repos -> Seq(PullRow)]
<1> DEFINE row == pulls[r][n]
<1>1. row \in PullRow
  OBVIOUS
<1>2. [row EXCEPT !.state = s] \in PullRow
  BY <1>1 DEF PullRow
<1> HIDE DEF row
<1>3. [pulls[r] EXCEPT ![n] = [row EXCEPT !.state = s]] \in Seq(PullRow)
  BY <1>2
<1> QED
  BY <1>3 DEF row

\* A transaction counts.
LEMMA CommitTypes ==
  ASSUME spent \in 0..Budget, NEW a \in Actors, Commit(a)
  PROVE  spent' \in 0..Budget /\ by' \in Actors
  BY BudgetAssumption DEF Commit

\* insert_domain_event appends one row to the events of the repository.
LEMMA RecordTypes ==
  ASSUME events \in [Repos -> Seq(EventRow)], NEW r \in Repos,
         NEW item \in {"repository", "issue", "pull"}, NEW number \in Nat,
         NEW kind \in Kinds,
         Record(r, item, kind, number)
  PROVE  events' \in [Repos -> Seq(EventRow)]
<1>1. [item |-> item, kind |-> kind, number |-> number] \in EventRow
  BY DEF EventRow
<1> QED
  BY <1>1 DEF Record

\* The command line: every operation keeps the types.
LEMMA AdminTypes == TypeOK /\ AdminNext => TypeOK'
<1> SUFFICES ASSUME TypeOK, AdminNext PROVE TypeOK'
  OBVIOUS
<1> USE DEF TypeOK, access, content, files, Actors
<1>1. ASSUME NEW u \in Users, SetAccountState(u) PROVE TypeOK'
  BY <1>1, CommitTypes DEF SetAccountState
<1>2. ASSUME NEW r \in Repos, NEW s \in Slugs, AdminRename(r, s) PROVE TypeOK'
  BY <1>2, CommitTypes, RepoUpdate DEF AdminRename
<1>3. ASSUME NEW r \in Repos, AdminArchive(r) PROVE TypeOK'
  BY <1>3, CommitTypes, RepoUpdate DEF AdminArchive
<1>4. ASSUME NEW r \in Repos, NEW v \in {"public", "private"}, AdminVisibility(r, v) PROVE TypeOK'
  BY <1>4, CommitTypes, RepoUpdate DEF AdminVisibility
<1>5. ASSUME NEW r \in Repos, NEW u \in Users, NEW role \in Grants, AdminSetCollaborator(r, u, role) PROVE TypeOK'
  BY <1>5, CommitTypes DEF AdminSetCollaborator
<1>6. ASSUME NEW r \in Repos, NEW u \in Users, AdminRemoveCollaborator(r, u) PROVE TypeOK'
  BY <1>6, CommitTypes DEF AdminRemoveCollaborator
<1> HIDE DEF TypeOK
<1> QED
  BY <1>1, <1>2, <1>3, <1>4, <1>5, <1>6 DEF AdminNext

\* Organizations.
LEMMA OrganizationTypes == TypeOK /\ OrganizationNext => TypeOK'
<1> SUFFICES ASSUME TypeOK, OrganizationNext PROVE TypeOK'
  OBVIOUS
<1> USE DEF TypeOK, content, files, Actors
<1>1. ASSUME NEW u \in Users, NEW o \in Orgs, CreateOrganization(u, o) PROVE TypeOK'
  BY <1>1, CommitTypes DEF CreateOrganization, Roles
<1>2. ASSUME NEW a \in Actors, NEW o \in Orgs, NEW u \in Users, NEW role \in Roles,
             SetOrganizationMember(a, o, u, role)
      PROVE  TypeOK'
  BY <1>2, CommitTypes DEF SetOrganizationMember
<1>3. ASSUME NEW a \in Actors, NEW o \in Orgs, NEW u \in Users, RemoveOrganizationMember(a, o, u) PROVE TypeOK'
  BY <1>3, CommitTypes DEF RemoveOrganizationMember
<1> HIDE DEF TypeOK
<1> QED
  BY <1>1, <1>2, <1>3 DEF OrganizationNext

\* Creations, with their failures and the kill.
LEMMA CreationTypes == TypeOK /\ CreationNext => TypeOK'
<1> SUFFICES ASSUME TypeOK, CreationNext PROVE TypeOK'
  OBVIOUS
<1> USE BudgetAssumption DEF TypeOK, access, content
<1>0. NoCreation \in Creation
  BY DEF NoCreation, Creation
<1>1. ASSUME NEW a \in Actors, NEW r \in Repos, NEW ns \in Namespaces, NEW s \in Slugs, CreateBare(a, r, ns, s)
      PROVE  TypeOK'
  <2>1. [phase |-> "bare", actor |-> a, owner |-> ns, slug |-> s] \in Creation
    BY DEF Creation
  <2> QED
    BY <1>1, <2>1 DEF CreateBare
<1>2. ASSUME NEW r \in Repos, RenameDirectory(r) PROVE TypeOK'
  BY ZenonT(40), <1>2 DEF RenameDirectory, Creation
<1>3. ASSUME NEW r \in Repos, CreationFails(r) PROVE TypeOK'
  BY <1>0, <1>3 DEF CreationFails
<1>4. ASSUME NEW r \in Repos, InsertRepository(r) PROVE TypeOK'
  <2>1. creation[r] \in Creation
    OBVIOUS
  <2>2. creation[r].actor \in Actors
    BY <1>4, NamesAssumption DEF InsertRepository, MayInsert, NamespaceMaintainer, Actors
  <2>3. [owner |-> creation[r].owner, slug |-> creation[r].slug, visibility |-> "public", state |-> "active"]
          \in RepoRow
    BY <2>1 DEF RepoRow, Creation
  <2>4. <<[item |-> "repository", kind |-> "created", number |-> 0]>> \in Seq(EventRow)
    BY DEF EventRow, Kinds
  <2> QED
    BY <1>0, <1>4, <2>2, <2>3, <2>4 DEF InsertRepository
<1>5. ASSUME NEW r \in Repos, InsertRefused(r) PROVE TypeOK'
  BY <1>0, <1>5 DEF InsertRefused
<1>6. ASSUME Kill PROVE TypeOK'
  BY <1>0, <1>6 DEF Kill
<1> QED
  BY <1>1, <1>2, <1>3, <1>4, <1>5, <1>6 DEF CreationNext

\* Repositories and their collaborators.
LEMMA RepositoryTypes == TypeOK /\ RepositoryNext => TypeOK'
<1> SUFFICES ASSUME TypeOK, RepositoryNext PROVE TypeOK'
  OBVIOUS
<1> USE DEF TypeOK, access, content, files, Actors
<1>1. ASSUME NEW u \in Users, NEW r \in Repos, NEW s \in Slugs, RenameRepository(u, r, s) PROVE TypeOK'
  BY <1>1, CommitTypes, RepoUpdate DEF RenameRepository
<1>2. ASSUME NEW u \in Users, NEW r \in Repos, Archive(u, r) PROVE TypeOK'
  BY <1>2, CommitTypes, RepoUpdate DEF Archive
<1>3. ASSUME NEW u \in Users, NEW r \in Repos, Unarchive(u, r) PROVE TypeOK'
  BY <1>3, CommitTypes, RepoUpdate DEF Unarchive
<1>4. ASSUME NEW u \in Users, NEW r \in Repos, NEW v \in {"public", "private"}, UpdateSettings(u, r, v) PROVE TypeOK'
  BY <1>4, CommitTypes, RepoUpdate DEF UpdateSettings
<1>5. ASSUME NEW a \in Users, NEW u \in Users, NEW r \in Repos, NEW role \in Grants \cup {"none"},
             UpdateCollaborator(a, r, u, role)
      PROVE  TypeOK'
  BY <1>5, CommitTypes DEF UpdateCollaborator
<1> HIDE DEF TypeOK
<1> QED
  BY <1>1, <1>2, <1>3, <1>4, <1>5 DEF RepositoryNext

\* Issues and watches.
LEMMA ContentTypes == TypeOK /\ ContentNext => TypeOK'
<1> SUFFICES ASSUME TypeOK, ContentNext PROVE TypeOK'
  OBVIOUS
<1> USE DEF TypeOK, access, files, Actors, Kinds
<1>1. ASSUME NEW u \in Users, NEW r \in Repos, CreateIssue(u, r) PROVE TypeOK'
  <2>1. [author |-> u, state |-> "open"] \in IssueRow
    BY DEF IssueRow
  <2>2. Len(issues[r]) + 1 \in Nat
    OBVIOUS
  <2> QED
    BY <1>1, <2>1, <2>2, CommitTypes, RecordTypes DEF CreateIssue
<1>2. ASSUME NEW u \in Users, NEW r \in Repos, NEW n \in 1..Budget, EditIssue(u, r, n) PROVE TypeOK'
  BY <1>2, CommitTypes, RecordTypes DEF EditIssue
<1>3. ASSUME NEW u \in Users, NEW r \in Repos, NEW n \in 1..Budget, CommentIssue(u, r, n) PROVE TypeOK'
  BY <1>3, CommitTypes, RecordTypes DEF CommentIssue
<1>4. ASSUME NEW u \in Users, NEW r \in Repos, NEW n \in 1..Budget, NEW s \in {"open", "closed"},
             SetIssueState(u, r, n, s)
      PROVE  TypeOK'
  <2>1. issues' \in [Repos -> Seq(IssueRow)]
    BY <1>4, IssueUpdate DEF SetIssueState, Mutable
  <2>2. events' \in [Repos -> Seq(EventRow)]
    BY <1>4, RecordTypes DEF SetIssueState
  <2>3. spent' \in 0..Budget /\ by' \in Actors
    BY <1>4, CommitTypes DEF SetIssueState
  <2> QED
    BY <1>4, <2>1, <2>2, <2>3 DEF SetIssueState
<1>5. ASSUME NEW u \in Users, NEW r \in Repos, NEW w \in BOOLEAN, SetWatch(u, r, w) PROVE TypeOK'
  BY <1>5, CommitTypes, RecordTypes DEF SetWatch
<1> HIDE DEF TypeOK
<1> QED
  BY <1>1, <1>2, <1>3, <1>4, <1>5 DEF ContentNext

\* Pull requests.
LEMMA PullRequestTypes == TypeOK /\ PullRequestNext => TypeOK'
<1> SUFFICES ASSUME TypeOK, PullRequestNext PROVE TypeOK'
  OBVIOUS
<1> USE DEF TypeOK, access, files, Actors, Kinds
<1>0. ASSUME NEW k \in IntentKinds, NEW u \in Users, NEW r \in Repos, NEW n \in Nat PROVE Intent(k, u, r, n) \in IntentRow
  BY DEF Intent, IntentRow
<1>1. ASSUME NEW u \in Users, NEW r \in Repos, OpenPullRequest(u, r) PROVE TypeOK'
  <2>1. [author |-> u, state |-> "none"] \in PullRow
    BY DEF PullRow
  <2>2. Len(pulls[r]) + 1 \in Nat
    OBVIOUS
  <2>3. intents' \subseteq IntentRow
    BY <1>0, <1>1, <2>2 DEF OpenPullRequest, IntentKinds
  <2>4. spent' \in 0..Budget /\ by' \in Actors
    BY <1>1, CommitTypes DEF OpenPullRequest
  <2> QED
    BY <1>1, <2>1, <2>3, <2>4 DEF OpenPullRequest
<1>2. ASSUME NEW u \in Users, NEW r \in Repos, NEW n \in 1..Budget, MergePullRequest(u, r, n) PROVE TypeOK'
  <2>1. intents' \subseteq IntentRow
    BY <1>0, <1>2 DEF MergePullRequest, IntentKinds
  <2>2. spent' \in 0..Budget /\ by' \in Actors
    BY <1>2, CommitTypes DEF MergePullRequest
  <2> QED
    BY <1>2, <2>1, <2>2 DEF MergePullRequest
<1>3. ASSUME NEW u \in Users, NEW r \in Repos, NEW n \in 1..Budget, EditPullRequest(u, r, n) PROVE TypeOK'
  BY <1>3, CommitTypes, RecordTypes DEF EditPullRequest
<1>4. ASSUME NEW u \in Users, NEW r \in Repos, NEW n \in 1..Budget, NEW s \in {"open", "closed"},
             SetPullRequestState(u, r, n, s)
      PROVE  TypeOK'
  <2>1. pulls' \in [Repos -> Seq(PullRow)]
    BY <1>4, PullUpdate DEF SetPullRequestState
  <2>2. events' \in [Repos -> Seq(EventRow)]
    BY <1>4, RecordTypes DEF SetPullRequestState
  <2>3. spent' \in 0..Budget /\ by' \in Actors
    BY <1>4, CommitTypes DEF SetPullRequestState
  <2> QED
    BY <1>4, <2>1, <2>2, <2>3 DEF SetPullRequestState
<1>5. ASSUME NEW u \in Users, NEW r \in Repos, NEW n \in 1..Budget, ReviewPullRequest(u, r, n) PROVE TypeOK'
  BY <1>5, CommitTypes, RecordTypes DEF ReviewPullRequest
<1>6. ASSUME NEW u \in Users, NEW r \in Repos, NEW n \in 1..Budget, InsertPullRequest(u, r, n) PROVE TypeOK'
  <2>1. pulls' \in [Repos -> Seq(PullRow)]
    BY <1>6, PullUpdate DEF InsertPullRequest
  <2>2. events' \in [Repos -> Seq(EventRow)]
    BY <1>6, RecordTypes DEF InsertPullRequest
  <2>3. intents' \subseteq IntentRow
    BY <1>6 DEF InsertPullRequest
  <2> QED
    BY <1>6, <2>1, <2>2, <2>3 DEF InsertPullRequest
<1>7. ASSUME NEW u \in Users, NEW r \in Repos, NEW n \in 1..Budget, CompleteMerge(u, r, n) PROVE TypeOK'
  <2>1. pulls' \in [Repos -> Seq(PullRow)]
    BY <1>7, PullUpdate DEF CompleteMerge
  <2>2. events' \in [Repos -> Seq(EventRow)]
    BY <1>7, RecordTypes DEF CompleteMerge
  <2>3. intents' \subseteq IntentRow
    BY <1>7 DEF CompleteMerge
  <2> QED
    BY <1>7, <2>1, <2>2, <2>3 DEF CompleteMerge
<1>8. ASSUME NEW k \in IntentKinds, NEW u \in Users, NEW r \in Repos, NEW n \in 1..Budget, AbandonIntent(k, u, r, n)
      PROVE  TypeOK'
  BY <1>8 DEF AbandonIntent
<1> HIDE DEF TypeOK
<1> QED
  BY <1>1, <1>2, <1>3, <1>4, <1>5, <1>6, <1>7, <1>8 DEF PullRequestNext

\* Type correctness of the tables, the files and the history.
THEOREM CollaborationTypeOK == Spec => []TypeOK
<1>1. Init => TypeOK
  BY BudgetAssumption DEF Init, TypeOK, NoRepo, RepoRow, NoCreation, Creation, Actors
<1>2. TypeOK /\ [Next]_vars => TypeOK'
  <2> SUFFICES ASSUME TypeOK, [Next]_vars PROVE TypeOK'
    OBVIOUS
  <2>1. CASE UNCHANGED vars
    BY <2>1 DEF vars, access, content, files, TypeOK
  <2> QED
    BY <2>1, AdminTypes, OrganizationTypes, CreationTypes, RepositoryTypes, ContentTypes, PullRequestTypes DEF Next
<1> QED
  BY <1>1, <1>2, PTL DEF Spec

-----------------------------------------------------------------------------
(***************************************************************************)
(* What each group of operations leaves alone                              *)
(***************************************************************************)

\* Only the operations on organizations touch them and their members.
LEMMA OrganizationFrame ==
  ASSUME AdminNext \/ CreationNext \/ RepositoryNext \/ ContentNext \/ PullRequestNext \/ UNCHANGED vars
  PROVE  UNCHANGED <<orgs, member>>
<1>1. CASE AdminNext
  BY <1>1 DEF AdminNext, SetAccountState, AdminRename, AdminArchive, AdminVisibility, AdminSetCollaborator,
              AdminRemoveCollaborator, access
<1>2. CASE CreationNext
  BY <1>2 DEF CreationNext, CreateBare, RenameDirectory, CreationFails, InsertRepository, InsertRefused, Kill, access
<1>3. CASE RepositoryNext
  BY <1>3 DEF RepositoryNext, RenameRepository, Archive, Unarchive, UpdateSettings, UpdateCollaborator, access
<1>4. CASE ContentNext
  BY <1>4 DEF ContentNext, CreateIssue, EditIssue, CommentIssue, SetIssueState, SetWatch, access
<1>5. CASE PullRequestNext
  BY <1>5 DEF PullRequestNext, OpenPullRequest, InsertPullRequest, MergePullRequest, CompleteMerge,
              AbandonIntent, EditPullRequest, SetPullRequestState, ReviewPullRequest, access
<1>6. CASE UNCHANGED vars
  BY <1>6 DEF vars, access
<1> QED
  BY <1>1, <1>2, <1>3, <1>4, <1>5, <1>6

\* Issues, pull requests and watches change neither a role nor a repository row.
LEMMA ContentFrame ==
  ASSUME ContentNext \/ PullRequestNext
  PROVE  UNCHANGED <<active, orgs, member, collaborator, repo, disk, creation>>
<1>1. CASE ContentNext
  BY <1>1 DEF ContentNext, CreateIssue, EditIssue, CommentIssue, SetIssueState, SetWatch, access, files
<1>2. CASE PullRequestNext
  BY <1>2 DEF PullRequestNext, OpenPullRequest, InsertPullRequest, MergePullRequest, CompleteMerge,
              AbandonIntent, EditPullRequest, SetPullRequestState, ReviewPullRequest, access, files
<1> QED
  BY <1>1, <1>2

\* Every change of a repository row by the command line or a maintainer: the owner
\* stays, a row stays a row, and a new name is free in the namespace.
LEMMA RowChange ==
  ASSUME TypeOK, AdminNext \/ RepositoryNext
  PROVE  /\ UNCHANGED <<orgs, member, disk, creation>>
         /\ \A r \in Repos : /\ repo'[r].owner = repo[r].owner
                             /\ repo'[r].state = "none" <=> repo[r].state = "none"
         /\ \/ \A r \in Repos : repo'[r].slug = repo[r].slug
            \/ \E r \in Repos : /\ ~NameTaken(repo[r].owner, repo'[r].slug)
                                /\ \A q \in Repos \ {r} : repo'[q].slug = repo[q].slug
<1> DEFINE Goal == /\ UNCHANGED <<orgs, member, disk, creation>>
                   /\ \A r \in Repos : /\ repo'[r].owner = repo[r].owner
                                       /\ repo'[r].state = "none" <=> repo[r].state = "none"
                   /\ \/ \A r \in Repos : repo'[r].slug = repo[r].slug
                      \/ \E r \in Repos : /\ ~NameTaken(repo[r].owner, repo'[r].slug)
                                          /\ \A q \in Repos \ {r} : repo'[q].slug = repo[q].slug
<1>1. repo \in [Repos -> RepoRow]
  BY DEF TypeOK
<1>2. ASSUME UNCHANGED <<orgs, member, disk, creation>>, UNCHANGED repo PROVE Goal
  BY <1>2
<1>3. ASSUME NEW r \in Repos, NEW s \in Slugs, repo[r].slug = s \/ ~NameTaken(repo[r].owner, s),
             repo' = [repo EXCEPT ![r].slug = s], UNCHANGED <<orgs, member, disk, creation>>
      PROVE  Goal
  <2>1. /\ \A q \in Repos \ {r} : repo'[q] = repo[q]
        /\ repo'[r].owner = repo[r].owner /\ repo'[r].state = repo[r].state /\ repo'[r].slug = s
    BY <1>1, <1>3, RepoUpdate
  <2>2. CASE repo[r].slug = s
    BY <1>3, <2>1, <2>2
  <2>3. CASE ~NameTaken(repo[r].owner, s)
    BY <1>3, <2>1, <2>3
  <2> QED
    BY <1>3, <2>2, <2>3
<1>4. ASSUME NEW r \in Repos, NEW v \in {"public", "private"}, repo' = [repo EXCEPT ![r].visibility = v],
             UNCHANGED <<orgs, member, disk, creation>>
      PROVE  Goal
  BY <1>1, <1>4, RepoUpdate
<1>5. ASSUME NEW r \in Repos, NEW t \in {"active", "archived"}, repo[r].state # "none",
             repo' = [repo EXCEPT ![r].state = t], UNCHANGED <<orgs, member, disk, creation>>
      PROVE  Goal
  BY <1>1, <1>5, RepoUpdate
<1> HIDE DEF Goal
<1>6. ASSUME AdminNext PROVE Goal
  <2> USE DEF access, files
  <2>1. ASSUME NEW u \in Users, SetAccountState(u) PROVE Goal
    BY <1>2, <2>1 DEF SetAccountState
  <2>2. ASSUME NEW r \in Repos, NEW s \in Slugs, AdminRename(r, s) PROVE Goal
    BY <1>3, <2>2 DEF AdminRename
  <2>3. ASSUME NEW r \in Repos, AdminArchive(r) PROVE Goal
    BY <1>5, <2>3 DEF AdminArchive
  <2>4. ASSUME NEW r \in Repos, NEW v \in {"public", "private"}, AdminVisibility(r, v) PROVE Goal
    BY <1>4, <2>4 DEF AdminVisibility
  <2>5. ASSUME NEW r \in Repos, NEW u \in Users, NEW role \in Grants, AdminSetCollaborator(r, u, role) PROVE Goal
    BY <1>2, <2>5 DEF AdminSetCollaborator
  <2>6. ASSUME NEW r \in Repos, NEW u \in Users, AdminRemoveCollaborator(r, u) PROVE Goal
    BY <1>2, <2>6 DEF AdminRemoveCollaborator
  <2> QED
    BY <1>6, <2>1, <2>2, <2>3, <2>4, <2>5, <2>6 DEF AdminNext
<1>7. ASSUME RepositoryNext PROVE Goal
  <2> USE DEF access, files
  <2>1. ASSUME NEW u \in Users, NEW r \in Repos, NEW s \in Slugs, RenameRepository(u, r, s) PROVE Goal
    BY <1>3, <2>1 DEF RenameRepository
  <2>2. ASSUME NEW u \in Users, NEW r \in Repos, Archive(u, r) PROVE Goal
    BY <1>5, <2>2 DEF Archive, CanMaintain, CanRead
  <2>3. ASSUME NEW u \in Users, NEW r \in Repos, Unarchive(u, r) PROVE Goal
    BY <1>5, <2>3 DEF Unarchive
  <2>4. ASSUME NEW u \in Users, NEW r \in Repos, NEW v \in {"public", "private"}, UpdateSettings(u, r, v) PROVE Goal
    BY <1>4, <2>4 DEF UpdateSettings
  <2>5. ASSUME NEW a \in Users, NEW u \in Users, NEW r \in Repos, NEW role \in Grants \cup {"none"},
               UpdateCollaborator(a, r, u, role)
        PROVE  Goal
    BY <1>2, <2>5 DEF UpdateCollaborator
  <2> QED
    BY <1>7, <2>1, <2>2, <2>3, <2>4, <2>5 DEF RepositoryNext
<1> QED
  BY <1>6, <1>7 DEF Goal

-----------------------------------------------------------------------------
(***************************************************************************)
(* Organizations keep an owner                                             *)
(***************************************************************************)

\* Every order of creations, role changes and removals leaves every organization
\* with a member whose role is owner, for any number of accounts: the guard
\* require_other_organization_owner is enough without counting.
THEOREM OwnerTheorem == Spec => []OrganizationHasOwner
<1>1. Init => OrganizationHasOwner
  BY DEF Init, OrganizationHasOwner
<1>2. TypeOK /\ OrganizationHasOwner /\ [Next]_vars => OrganizationHasOwner'
  <2> SUFFICES ASSUME TypeOK, OrganizationHasOwner, [Next]_vars PROVE OrganizationHasOwner'
    OBVIOUS
  <2> USE DEF TypeOK, OrganizationHasOwner
  <2>1. ASSUME NEW u \in Users, NEW o \in Orgs, CreateOrganization(u, o) PROVE OrganizationHasOwner'
    BY <2>1, RoleUpdate DEF CreateOrganization, Roles
  <2>2. ASSUME NEW a \in Actors, NEW o \in Orgs, NEW u \in Users, NEW role \in Roles,
               SetOrganizationMember(a, o, u, role)
        PROVE  OrganizationHasOwner'
    BY <2>2 DEF SetOrganizationMember, OtherOwner
  <2>3. ASSUME NEW a \in Actors, NEW o \in Orgs, NEW u \in Users, RemoveOrganizationMember(a, o, u)
        PROVE  OrganizationHasOwner'
    BY <2>3 DEF RemoveOrganizationMember, OtherOwner
  <2>4. ASSUME ~OrganizationNext PROVE OrganizationHasOwner'
    BY <2>4, OrganizationFrame DEF Next
  <2> QED
    BY <2>1, <2>2, <2>3, <2>4 DEF OrganizationNext
<1> QED
  BY <1>1, <1>2, CollaborationTypeOK, PTL DEF Spec

-----------------------------------------------------------------------------
(***************************************************************************)
(* Repository rows, their directories and their names                      *)
(***************************************************************************)

\* A row has its directory, is no longer under creation, and is owned by an account
\* or by an organization that exists.
RowsReady ==
  \A r \in Rows : disk[r] = "ready" /\ creation[r].phase = "none" /\ repo[r].owner \in Users \cup orgs

\* The directory has its final name before the row can be inserted.
RenamedIsReady == \A r \in Repos : creation[r].phase = "renamed" => disk[r] = "ready"

\* UNIQUE (namespace, slug)
NamesUnique ==
  \A r, q \in Rows : repo[r].owner = repo[q].owner /\ repo[r].slug = repo[q].slug => r = q

RowsInv == TypeOK /\ RowsReady /\ RenamedIsReady /\ NamesUnique

\* A step that leaves rows and files alone.
LEMMA RowsFrame ==
  ASSUME RowsInv, UNCHANGED <<repo, disk, creation>>, orgs \subseteq orgs'
  PROVE  RowsReady' /\ RenamedIsReady' /\ NamesUnique'
  BY DEF RowsInv, RowsReady, RenamedIsReady, NamesUnique, Rows

\* The steps of a creation, its failures and the kill.
LEMMA RowsCreation ==
  ASSUME RowsInv, CreationNext
  PROVE  RowsReady' /\ RenamedIsReady' /\ NamesUnique'
<1> DEFINE Goal == RowsReady' /\ RenamedIsReady' /\ NamesUnique'
<1> USE DEF RowsInv, TypeOK, RowsReady, RenamedIsReady, NamesUnique, Rows, NoCreation, access
<1>1. ASSUME NEW a \in Actors, NEW r \in Repos, NEW ns \in Namespaces, NEW s \in Slugs, CreateBare(a, r, ns, s)
      PROVE  Goal
  BY <1>1 DEF CreateBare, NoRepo
<1>2. ASSUME NEW r \in Repos, RenameDirectory(r) PROVE Goal
  BY <1>2 DEF RenameDirectory, Creation
<1>3. ASSUME NEW r \in Repos, CreationFails(r) PROVE Goal
  BY <1>3 DEF CreationFails
<1>4. ASSUME NEW r \in Repos, InsertRepository(r) PROVE Goal
  <2> DEFINE c == creation[r]
             row == [owner |-> c.owner, slug |-> c.slug, visibility |-> "public", state |-> "active"]
  <2>1. /\ c.phase = "renamed" /\ ActiveNamespace(c.owner) /\ ~NameTaken(c.owner, c.slug)
        /\ repo' = [repo EXCEPT ![r] = row] /\ creation' = [creation EXCEPT ![r] = NoCreation]
        /\ UNCHANGED <<orgs, disk>>
    BY <1>4 DEF InsertRepository, MayInsert
  <2>2. row.owner = c.owner /\ row.slug = c.slug /\ row.state = "active"
    OBVIOUS
  <2>3. c.owner \in Users \cup orgs
    BY <2>1 DEF ActiveNamespace
  <2>4. \A q \in Rows : ~(repo[q].owner = c.owner /\ repo[q].slug = c.slug)
    BY <2>1 DEF NameTaken
  <2> HIDE DEF c, row
  <2>5. repo'[r] = row /\ \A q \in Repos \ {r} : repo'[q] = repo[q]
    BY <2>1
  <2>6. RowsReady'
    BY <2>1, <2>2, <2>3, <2>5 DEF c
  <2>7. RenamedIsReady'
    BY <2>1
  <2>8. NamesUnique'
    <3> SUFFICES ASSUME NEW p \in Repos, NEW q \in Repos, repo'[p].state # "none", repo'[q].state # "none",
                        repo'[p].owner = repo'[q].owner, repo'[p].slug = repo'[q].slug, p # q
                 PROVE  FALSE
      BY Zenon
    <3>1. CASE p = r
      BY ZenonT(40), <2>2, <2>4, <2>5, <3>1
    <3>2. CASE q = r
      BY ZenonT(40), <2>2, <2>4, <2>5, <3>2
    <3>3. CASE p # r /\ q # r
      <4>1. repo'[p] = repo[p] /\ repo'[q] = repo[q]
        BY <2>5, <3>3
      <4>2. p \in Rows /\ q \in Rows /\ repo[p].owner = repo[q].owner /\ repo[p].slug = repo[q].slug
        BY <4>1
      <4> QED
        BY <4>2, Zenon
    <3> QED
      BY <3>1, <3>2, <3>3
  <2> QED
    BY <2>6, <2>7, <2>8
<1>5. ASSUME NEW r \in Repos, InsertRefused(r) PROVE Goal
  BY <1>5 DEF InsertRefused
<1>6. ASSUME Kill PROVE Goal
  BY <1>6 DEF Kill
<1> HIDE DEF Goal
<1>7. Goal
  BY <1>1, <1>2, <1>3, <1>4, <1>5, <1>6 DEF CreationNext
<1> QED
  BY <1>7 DEF Goal

\* Renames, archives and visibility, on the command line or by a maintainer.
LEMMA RowsChange ==
  ASSUME RowsInv, AdminNext \/ RepositoryNext
  PROVE  RowsReady' /\ RenamedIsReady' /\ NamesUnique'
<1>1. TypeOK
  BY DEF RowsInv
<1>2. /\ UNCHANGED <<orgs, member, disk, creation>>
      /\ \A r \in Repos : /\ repo'[r].owner = repo[r].owner
                          /\ repo'[r].state = "none" <=> repo[r].state = "none"
  BY <1>1, RowChange
<1>3. Rows' = Rows
  BY <1>2 DEF Rows
<1>4. RowsReady' /\ RenamedIsReady'
  BY <1>2, <1>3 DEF RowsInv, RowsReady, RenamedIsReady, Rows
<1>5. CASE \A r \in Repos : repo'[r].slug = repo[r].slug
  BY <1>2, <1>3, <1>4, <1>5 DEF RowsInv, NamesUnique, Rows
<1>6. ASSUME NEW r \in Repos, ~NameTaken(repo[r].owner, repo'[r].slug),
             \A q \in Repos \ {r} : repo'[q].slug = repo[q].slug
      PROVE  NamesUnique'
  BY <1>2, <1>3, <1>6 DEF RowsInv, NamesUnique, NameTaken, Rows
<1> QED
  BY <1>1, <1>4, <1>5, <1>6, RowChange

\* The rows and their files in every reachable state.
THEOREM RowsInvariant == Spec => []RowsInv
<1>1. Init => RowsReady /\ RenamedIsReady /\ NamesUnique
  BY DEF Init, RowsReady, RenamedIsReady, NamesUnique, Rows, NoRepo, NoCreation
<1>2. RowsInv /\ [Next]_vars => RowsReady' /\ RenamedIsReady' /\ NamesUnique'
  <2> SUFFICES ASSUME RowsInv, [Next]_vars PROVE RowsReady' /\ RenamedIsReady' /\ NamesUnique'
    OBVIOUS
  <2>1. CASE OrganizationNext
    <3>1. UNCHANGED <<repo, disk, creation>> /\ orgs \subseteq orgs'
      BY <2>1 DEF OrganizationNext, CreateOrganization, SetOrganizationMember, RemoveOrganizationMember, files
    <3> QED
      BY <3>1, RowsFrame
  <2>2. CASE ContentNext \/ PullRequestNext
    BY <2>2, ContentFrame, RowsFrame
  <2>3. CASE UNCHANGED vars
    BY <2>3, RowsFrame DEF vars, access, files
  <2> QED
    BY <2>1, <2>2, <2>3, RowsCreation, RowsChange DEF Next
<1> QED
  BY <1>1, <1>2, CollaborationTypeOK, PTL DEF Spec, RowsInv

\* Wherever a creation fails or the process is killed, for any number of creations
\* under way at once: a row has its directory, and no two rows have one name
\* (create_inner, Store::create_repository).
THEOREM RowsTheorem == Spec => []RowsAreStored
<1>1. RowsInv => RowsAreStored
  BY DEF RowsInv, RowsReady, NamesUnique, RowsAreStored
<1> QED
  BY <1>1, RowsInvariant, PTL

-----------------------------------------------------------------------------
(***************************************************************************)
(* The queries agree on who sees what                                      *)
(***************************************************************************)

\* What a row of either table of roles can hold.
LEMMA HeldRoles ==
  ASSUME TypeOK, NEW u \in Users, NEW r \in Repos
  PROVE  /\ OrgRole(u, repo[r].owner) \in Roles \cup {"none"}
         /\ collaborator[r][u] \in Grants \cup {"none"}
  BY DEF TypeOK, OrgRole

\* The CASE of repository_issue_access and the CASE of repository_authorization,
\* two queries, give everyone the same role.
LEMMA SameRole ==
  ASSUME TypeOK, NEW v \in Viewers, NEW r \in Repos
  PROVE  PolicyRole(v, r) = RoleOf(v, r)
<1>1. CASE v \notin active
  BY <1>1 DEF PolicyRole, RoleOf
<1>2. CASE v \in active
  <2>1. v \in Users
    BY <1>2 DEF TypeOK
  <2> DEFINE held == {OrgRole(v, repo[r].owner), collaborator[r][v]}
             holds(role) == OrgRole(v, repo[r].owner) = role \/ collaborator[r][v] = role
  <2>2. holds("owner") <=> OrgRole(v, repo[r].owner) = "owner"
    BY <2>1, HeldRoles DEF Grants
  <2>3. \A role \in Grants : role \in held <=> holds(role)
    OBVIOUS
  <2> QED
    BY <1>2, <2>2, <2>3 DEF PolicyRole, RoleOf, Grants
<1> QED
  BY <1>1, <1>2

\* An account has a role exactly when it owns the namespace or one of the rows
\* gives it one.
LEMMA SomeRole ==
  ASSUME TypeOK, NEW u \in active, NEW r \in Repos
  PROVE  RoleOf(u, r) # "none" <=>
           repo[r].owner = u \/ OrgRole(u, repo[r].owner) # "none" \/ collaborator[r][u] # "none"
<1>1. u \in Users
  BY DEF TypeOK
<1>2. /\ OrgRole(u, repo[r].owner) \in Roles \cup {"none"}
      /\ collaborator[r][u] \in Grants \cup {"none"}
  BY <1>1, HeldRoles
<1> QED
  BY <1>2 DEF RoleOf, Roles, Grants

\* Who is not an active account has no role.
LEMMA NoRole ==
  ASSUME NEW v, v \notin active, NEW r
  PROVE  RoleOf(v, r) = "none"
  BY DEF RoleOf

\* Search, feeds, profiles, the home page, the form for a new repository and the
\* policy of Git requests, each a query of its own, show and allow the same in every
\* reachable state, for any accounts, organizations and repositories.
THEOREM ViewsTheorem == Spec => []ViewsAgree
<1>1. ASSUME TypeOK PROVE ViewsAgree
  <2>1. ASSUME NEW v \in Viewers PROVE SearchShows(v) = {r \in Repos : CanRead(v, r)}
    <3>1. CASE v \in active
      BY <1>1, <3>1, SomeRole DEF SearchShows, CanRead, Rows
    <3>2. CASE v \notin active
      BY <3>2, NoRole DEF SearchShows, CanRead, Rows
    <3> QED
      BY <3>1, <3>2
  <2>2. ASSUME NEW u \in Users
        PROVE  FeedShows(u) = {r \in Repos : <<u, r>> \in watch /\ u \in active /\ CanRead(u, r)}
    BY <1>1, SomeRole DEF FeedShows, CanRead, Rows
  <2>3. ASSUME NEW v \in Viewers, NEW r \in HomeShows(v), repo[r].state = "active" PROVE CanRead(v, r)
    BY <1>1, <2>3, SomeRole DEF HomeShows, CanRead, Rows
  <2>4. ASSUME NEW u \in active
        PROVE  /\ AccountProfile(u) = {r \in HomeShows(Nobody) : repo[r].owner = u}
               /\ MaintainedNamespaces(u) = {ns \in Namespaces : ActiveNamespace(ns) /\ NamespaceMaintainer(u, ns)}
    <3>1. u \in Users /\ u \notin Orgs /\ u # Admin
      BY <1>1, NamesAssumption DEF TypeOK
    <3>2. AccountProfile(u) = {r \in HomeShows(Nobody) : repo[r].owner = u}
      BY DEF AccountProfile, HomeShows
    <3>3. ASSUME NEW ns \in MaintainedNamespaces(u)
          PROVE  ns \in Namespaces /\ ActiveNamespace(ns) /\ NamespaceMaintainer(u, ns)
      BY <1>1, <3>1 DEF TypeOK, MaintainedNamespaces, Namespaces, ActiveNamespace, NamespaceMaintainer, OrgRole
    <3>4. ASSUME NEW ns \in Namespaces, ActiveNamespace(ns), NamespaceMaintainer(u, ns)
          PROVE  ns \in MaintainedNamespaces(u)
      <4>1. ns = u \/ (ns \in Orgs /\ member[ns][u] \in {"owner", "maintainer"})
        BY <3>1, <3>4 DEF NamespaceMaintainer, OrgRole
      <4>2. ns \in Orgs => ns \in orgs
        BY <1>1, <3>4, NamesAssumption DEF TypeOK, ActiveNamespace
      <4> QED
        BY <4>1, <4>2 DEF MaintainedNamespaces
    <3> QED
      BY <3>2, <3>3, <3>4
  <2>5. ASSUME NEW o \in orgs PROVE OrganizationProfile(o) = {r \in HomeShows(Nobody) : repo[r].owner = o}
    BY DEF OrganizationProfile, HomeShows
  <2>6. ActivityCounts = HomeShows(Nobody)
    BY DEF ActivityCounts, HomeShows
  <2>7. ASSUME NEW v \in Viewers, NEW r \in Repos
        PROVE  /\ Allows(v, r, "read") <=> CanRead(v, r)
               /\ Allows(v, r, "maintain") <=> CanMaintain(v, r)
               /\ Allows(v, r, "maintain") => Allows(v, r, "write")
               /\ Allows(v, r, "write") => Allows(v, r, "read")
    BY <1>1, SameRole DEF Allows, CanRead, CanMaintain
  <2> QED
    BY <2>1, <2>2, <2>3, <2>4, <2>5, <2>6, <2>7 DEF ViewsAgree
<1>2. TypeOK => ViewsAgree
  BY <1>1
<1> QED
  BY <1>2, CollaborationTypeOK, PTL

-----------------------------------------------------------------------------
(***************************************************************************)
(* Nobody raises a role above the own one                                  *)
(***************************************************************************)

\* The ranks, and what the two highest mean.
LEMMA RankRange ==
  ASSUME NEW u, NEW r
  PROVE  /\ Rank(u, r) \in 0..4
         /\ Rank(u, r) = 4 <=> RoleOf(u, r) = "owner"
         /\ Rank(u, r) >= 3 <=> RoleOf(u, r) \in {"owner", "maintainer"}
  BY DEF Rank

\* A rank depends on the account's state, the owner of the repository and two rows.
LEMMA RankKept ==
  ASSUME NEW u, NEW r, active' = active, repo'[r].owner = repo[r].owner,
         OrgRole(u, repo[r].owner)' = OrgRole(u, repo[r].owner), collaborator'[r][u] = collaborator[r][u]
  PROVE  Rank(u, r)' = Rank(u, r)
<1>1. RoleOf(u, r)' = RoleOf(u, r)
  BY DEF RoleOf
<1> QED
  BY <1>1 DEF Rank

\* An owner of the organization has the highest rank on its repositories.
LEMMA OwnerRank ==
  ASSUME NEW a \in active, NEW r, repo[r].owner \in Orgs, member[repo[r].owner][a] = "owner"
  PROVE  Rank(a, r) = 4
  BY DEF Rank, RoleOf, OrgRole

\* What a step may do to the role of account u on repository r.
Authorized(u, r) ==
  Rank(u, r)' > Rank(u, r) =>
    \/ by' = Admin
    \/ by' \in Users /\ Rank(by', r) >= 3 /\ Rank(by', r) >= Rank(u, r)'

LEMMA KeptIsAuthorized ==
  ASSUME NEW u, NEW r, Rank(u, r)' = Rank(u, r)
  PROVE  Authorized(u, r)
  BY RankRange DEF Authorized

\* Members of organizations: only an owner of the organization changes a role.
LEMMA OrganizationAuthorized ==
  ASSUME RowsInv, OrganizationNext, NEW u \in Users, NEW r \in Rows
  PROVE  Authorized(u, r)
<1>1. /\ TypeOK /\ r \in Repos
      /\ repo[r].owner \in Users \cup orgs
  BY DEF RowsInv, RowsReady, Rows
<1>2. Rank(u, r)' \in 0..4
  BY RankRange DEF Rank, RoleOf
<1>3. ASSUME NEW a \in Actors, NEW o \in Orgs, NEW w \in Users, NEW role \in Roles \cup {"none"},
             Commit(a), OrganizationOwner(a, o), member' = [member EXCEPT ![o][w] = role],
             UNCHANGED <<active, orgs, collaborator, repo>>
      PROVE  Authorized(u, r)
  <2>1. by' = a
    BY <1>3 DEF Commit
  <2>2. CASE a = Admin
    BY <2>1, <2>2 DEF Authorized
  <2>3. CASE a # Admin /\ repo[r].owner = o
    <3>1. a \in active /\ a \in Users /\ member[o][a] = "owner"
      BY <1>1, <1>3, <2>3 DEF OrganizationOwner, TypeOK
    <3>2. Rank(a, r) = 4
      BY <2>3, <3>1, OwnerRank
    <3> QED
      BY <1>2, <2>1, <3>1, <3>2 DEF Authorized
  <2>4. CASE repo[r].owner # o
    <3>1. OrgRole(u, repo[r].owner)' = OrgRole(u, repo[r].owner)
      BY <1>1, <1>3, <2>4 DEF OrgRole, TypeOK
    <3> QED
      BY <1>3, <3>1, RankKept, KeptIsAuthorized
  <2> QED
    BY <2>2, <2>3, <2>4
<1>4. ASSUME NEW a \in Users, NEW o \in Orgs, CreateOrganization(a, o) PROVE Authorized(u, r)
  <2>1. repo[r].owner # o
    BY <1>1, <1>4, NamesAssumption DEF CreateOrganization
  <2>2. OrgRole(u, repo[r].owner)' = OrgRole(u, repo[r].owner)
    BY <1>1, <1>4, <2>1 DEF CreateOrganization, OrgRole, TypeOK
  <2> QED
    BY <1>4, <2>2, RankKept, KeptIsAuthorized DEF CreateOrganization
<1>5. ASSUME NEW a \in Actors, NEW o \in Orgs, NEW w \in Users, NEW role \in Roles,
             SetOrganizationMember(a, o, w, role)
      PROVE  Authorized(u, r)
  BY <1>3, <1>5 DEF SetOrganizationMember
<1>6. ASSUME NEW a \in Actors, NEW o \in Orgs, NEW w \in Users, RemoveOrganizationMember(a, o, w)
      PROVE  Authorized(u, r)
  BY <1>3, <1>6 DEF RemoveOrganizationMember
<1> QED
  BY <1>4, <1>5, <1>6 DEF OrganizationNext

\* Repositories: only a maintainer of the repository changes a collaborator, and
\* what a collaborator row gives is below owner.
LEMMA RepositoryAuthorized ==
  ASSUME RowsInv, RepositoryNext, NEW u \in Users, NEW r \in Rows
  PROVE  Authorized(u, r)
<1>1. TypeOK /\ r \in Repos
  BY DEF RowsInv, Rows
<1>2. repo'[r].owner = repo[r].owner /\ UNCHANGED member
  BY <1>1, RowChange
<1>3. OrgRole(u, repo[r].owner)' = OrgRole(u, repo[r].owner)
  BY <1>2 DEF OrgRole
<1>4. ASSUME NEW a \in Users, NEW w \in Users, NEW q \in Repos, NEW role \in Grants \cup {"none"},
             UpdateCollaborator(a, q, w, role)
      PROVE  Authorized(u, r)
  <2>1. by' = a /\ UNCHANGED active /\ collaborator' = [collaborator EXCEPT ![q][w] = role]
    BY <1>4 DEF UpdateCollaborator, Commit
  <2>2. CASE q # r \/ w # u
    <3>1. collaborator'[r][u] = collaborator[r][u]
      BY <1>1, <2>1, <2>2 DEF TypeOK
    <3> QED
      BY <1>2, <1>3, <2>1, <3>1, RankKept, KeptIsAuthorized
  <2>3. CASE q = r /\ w = u
    <3>1. Rank(a, r) \in {3, 4}
      BY <1>4, <2>3, RankRange DEF UpdateCollaborator, CanMaintain
    <3>2. RoleOf(u, r)' = "owner" => RoleOf(u, r) = "owner"
      BY <1>2, <1>3, <2>1 DEF RoleOf
    <3>3. Rank(u, r)' \in 0..4 /\ (Rank(u, r)' = 4 => RoleOf(u, r)' = "owner")
      BY DEF Rank
    <3> QED
      BY <2>1, <3>1, <3>2, <3>3, RankRange DEF Authorized
  <2> QED
    BY <2>2, <2>3
<1>5. ASSUME UNCHANGED <<active, collaborator>> PROVE Authorized(u, r)
  BY <1>2, <1>3, <1>5, RankKept, KeptIsAuthorized
<1>6. \/ UNCHANGED <<active, collaborator>>
      \/ \E a, w \in Users, q \in Repos, role \in Grants \cup {"none"} : UpdateCollaborator(a, q, w, role)
  BY DEF RepositoryNext, RenameRepository, Archive, Unarchive, UpdateSettings, access
<1> QED
  BY <1>4, <1>5, <1>6

\* The command line acts as the administrator.
LEMMA AdminAuthorized ==
  ASSUME AdminNext, NEW u, NEW r
  PROVE  Authorized(u, r)
<1>1. by' = Admin
  BY DEF AdminNext, SetAccountState, AdminRename, AdminArchive, AdminVisibility, AdminSetCollaborator,
         AdminRemoveCollaborator, Commit
<1> QED
  BY <1>1 DEF Authorized

\* A creation gives roles on a repository that was no row before.
LEMMA CreationAuthorized ==
  ASSUME RowsInv, CreationNext, NEW u \in Users, NEW r \in Rows
  PROVE  Authorized(u, r)
<1>1. creation[r].phase = "none" /\ r \in Repos /\ TypeOK
  BY DEF RowsInv, RowsReady, Rows
<1>2. UNCHANGED <<active, member, collaborator>>
  BY DEF CreationNext, CreateBare, RenameDirectory, CreationFails, InsertRepository, InsertRefused, Kill, access
<1>3. ASSUME NEW q \in Repos, InsertRepository(q) PROVE repo'[r] = repo[r]
  BY <1>1, <1>3 DEF InsertRepository, TypeOK
<1>4. repo'[r] = repo[r]
  BY <1>3 DEF CreationNext, CreateBare, RenameDirectory, CreationFails, InsertRefused, Kill
<1>5. OrgRole(u, repo[r].owner)' = OrgRole(u, repo[r].owner)
  BY <1>2, <1>4 DEF OrgRole
<1> QED
  BY <1>2, <1>4, <1>5, RankKept, KeptIsAuthorized

\* Whatever the accounts, the organizations and their repositories: a step that
\* gives an account a stronger role on a repository was made by the administrator, or
\* by an account that maintained the repository and had at least that role
\* (authorize_organization_owner, update_repository_collaborator).
THEOREM NoEscalationTheorem == Spec => NoEscalation
<1>1. ASSUME RowsInv, [Next]_vars, NEW u \in Users, NEW r \in Rows PROVE Authorized(u, r)
  <2>1. CASE ContentNext \/ PullRequestNext \/ UNCHANGED vars
    <3>1. UNCHANGED <<active, member, collaborator, repo>>
      BY <2>1, ContentFrame DEF vars, access
    <3>2. OrgRole(u, repo[r].owner)' = OrgRole(u, repo[r].owner)
      BY <3>1 DEF OrgRole
    <3> QED
      BY <3>1, <3>2, RankKept, KeptIsAuthorized
  <2> QED
    BY <1>1, <2>1, OrganizationAuthorized, RepositoryAuthorized, AdminAuthorized, CreationAuthorized DEF Next
<1>2. RowsInv /\ [Next]_vars =>
        [\A u \in Users, r \in Rows :
           Rank(u, r)' > Rank(u, r) =>
             \/ by' = Admin
             \/ by' \in Users /\ Rank(by', r) >= 3 /\ Rank(by', r) >= Rank(u, r)']_vars
  BY <1>1 DEF Authorized
<1> QED
  BY <1>2, RowsInvariant, PTL DEF Spec, NoEscalation

-----------------------------------------------------------------------------
(***************************************************************************)
(* The events replay to the rows                                           *)
(***************************************************************************)

\* A non-empty set of naturals has a least element.
LEMMA LeastNat ==
  ASSUME NEW T, T \subseteq Nat, T # {}
  PROVE  \E x \in T : \A y \in T : x <= y
<1>1. IsWellFoundedOn(OpToRel(<, Nat), Nat)
  BY NatLessThanWellFounded
<1>2. PICK x \in T : \A y \in T : ~(<<y, x>> \in OpToRel(<, Nat))
  BY <1>1, WFMin
<1>3. \A y \in Nat : y < x => <<y, x>> \in OpToRel(<, Nat)
  BY DEF OpToRel
<1>4. \A y \in T : ~(y < x)
  BY <1>2, <1>3
<1>5. \A y \in T : x <= y
  BY <1>4
<1> QED
  BY <1>5

\* A non-empty set of numbers up to k has a greatest element.
LEMMA MaxExists ==
  ASSUME NEW k \in Nat, NEW T, T \subseteq 1..k, T # {}
  PROVE  Max(T) \in T /\ \A y \in T : Max(T) >= y
<1> DEFINE D == {k - i : i \in T}
<1>1. \A i \in T : k - i \in Nat
  OBVIOUS
<1>2. D \subseteq Nat /\ D # {}
  BY <1>1
<1>3. PICK d \in D : \A e \in D : d <= e
  BY <1>2, LeastNat
<1>4. PICK x \in T : d = k - x
  BY <1>3
<1>5. \A y \in T : k - x <= k - y
  BY <1>3, <1>4
<1>6. \A y \in T : x >= y
  BY <1>5
<1> QED
  BY <1>6 DEF Max

Items == {"issue", "pull"}

\* The kinds that change the state of an issue or a pull request.
LEMMA StateAfterDomain ==
  /\ DOMAIN StateAfter = {"created", "closed", "reopened", "merged"}
  /\ StateAfter["created"] = "open" /\ StateAfter["closed"] = "closed"
  /\ StateAfter["reopened"] = "open" /\ StateAfter["merged"] = "merged"
  BY DEF StateAfter

\* One more event does not change what the events before it tell.
LEMMA StateAtPrefix ==
  ASSUME NEW log \in Seq(EventRow), NEW e \in EventRow, NEW item, NEW n, NEW k \in 0..Len(log)
  PROVE  /\ Moves(Append(log, e), item, n, k) = Moves(log, item, n, k)
         /\ StateAt(Append(log, e), item, n, k) = StateAt(log, item, n, k)
<1> DEFINE more == Append(log, e)
           moves == Moves(log, item, n, k)
<1>1. \A i \in 1..k : more[i] = log[i]
  OBVIOUS
<1>2. Moves(more, item, n, k) = moves
  BY <1>1 DEF Moves
<1>3. moves \subseteq 1..k
  BY DEF Moves
<1>4. CASE moves = {}
  BY <1>2, <1>4 DEF StateAt
<1>5. CASE moves # {}
  <2>1. Max(moves) \in 1..k
    BY <1>3, <1>5, MaxExists
  <2>2. more[Max(moves)] = log[Max(moves)]
    BY <1>1, <2>1
  <2> HIDE DEF more, moves
  <2>3. StateAt(more, item, n, k) = StateAfter[more[Max(moves)].kind]
    BY <1>2, <1>5 DEF StateAt
  <2>4. StateAt(log, item, n, k) = StateAfter[log[Max(moves)].kind]
    BY <1>5 DEF StateAt, moves
  <2> QED
    BY <1>2, <2>2, <2>3, <2>4 DEF more, moves
<1> QED
  BY <1>4, <1>5

\* What one more event makes of the state: a kind that changes the state of this item
\* decides it, and any other event leaves it.
LEMMA StateAtLast ==
  ASSUME NEW log \in Seq(EventRow), NEW e \in EventRow, NEW item, NEW n
  PROVE  StateAt(Append(log, e), item, n, Len(log) + 1) =
           IF IsOf(e, item, n) /\ e.kind \in DOMAIN StateAfter
             THEN StateAfter[e.kind]
             ELSE StateAt(log, item, n, Len(log))
<1> DEFINE more == Append(log, e)
           last == Len(log) + 1
           old == Moves(log, item, n, Len(log))
           new == Moves(more, item, n, last)
<1>1. Len(log) \in Nat /\ more[last] = e
  OBVIOUS
<1>2. Moves(more, item, n, Len(log)) = old /\ StateAt(more, item, n, Len(log)) = StateAt(log, item, n, Len(log))
  BY <1>1, StateAtPrefix
<1>3. 1..last = (1..Len(log)) \cup {last}
  BY <1>1
<1>4. CASE IsOf(e, item, n) /\ e.kind \in DOMAIN StateAfter
  <2>1. last \in new /\ new \subseteq 1..last
    BY <1>1, <1>3, <1>4 DEF Moves
  <2>2. Max(new) \in new /\ Max(new) >= last
    <3>1. last \in Nat /\ new # {}
      BY <1>1, <2>1
    <3> QED
      BY <2>1, <3>1, MaxExists
  <2>3. Max(new) = last
    BY <1>1, <2>1, <2>2
  <2>4. StateAt(more, item, n, last) = StateAfter[more[last].kind]
    BY <2>1, <2>3 DEF StateAt
  <2> QED
    BY <1>1, <1>4, <2>4
<1>5. CASE ~(IsOf(e, item, n) /\ e.kind \in DOMAIN StateAfter)
  <2>1. new = Moves(more, item, n, Len(log))
    BY <1>1, <1>3, <1>5 DEF Moves
  <2>2. StateAt(more, item, n, last) = StateAt(more, item, n, Len(log))
    BY <2>1 DEF StateAt
  <2> QED
    BY <1>2, <1>5, <2>2
<1> QED
  BY <1>4, <1>5

\* HistoryReplays for one issue or pull request.
Replays(r, item, n) ==
  /\ \A k \in DOMAIN events[r] :
       IsOf(events[r][k], item, n) => MayFollow(events[r][k].kind, StateAt(events[r], item, n, k - 1))
  /\ StateAt(events[r], item, n, Len(events[r])) = RowState(r, item, n)

\* An identifier without a row has no issues and no pull requests.
ContentHasRow == \A r \in Repos : repo[r].state = "none" => issues[r] = <<>> /\ pulls[r] = <<>>

HistoryInv == RowsInv /\ ContentHasRow /\ HistoryReplays

\* The state of a row after an event of this kind.
Moved(state, kind) == IF kind \in DOMAIN StateAfter THEN StateAfter[kind] ELSE state

\* An event that may happen, and that changes the row as the reader will conclude.
LEMMA ReplayStep ==
  ASSUME TypeOK, NEW r \in Repos, NEW item, NEW n, NEW e \in EventRow, Replays(r, item, n),
         events'[r] = Append(events[r], e),
         IsOf(e, item, n) => /\ MayFollow(e.kind, RowState(r, item, n))
                             /\ RowState(r, item, n)' = Moved(RowState(r, item, n), e.kind),
         ~IsOf(e, item, n) => RowState(r, item, n)' = RowState(r, item, n)
  PROVE  Replays(r, item, n)'
<1> DEFINE log == events[r]
           more == events'[r]
<1>1. log \in Seq(EventRow) /\ Len(log) \in Nat
  BY DEF TypeOK
<1>2. /\ more = Append(log, e) /\ Len(more) = Len(log) + 1 /\ more[Len(log) + 1] = e
      /\ DOMAIN more = 1..(Len(log) + 1) /\ DOMAIN log = 1..Len(log)
      /\ \A k \in 1..Len(log) : more[k] = log[k]
  BY <1>1
<1>3. \A k \in 0..Len(log) : StateAt(more, item, n, k) = StateAt(log, item, n, k)
  BY <1>1, <1>2, StateAtPrefix
<1>4. StateAt(more, item, n, Len(more)) =
        IF IsOf(e, item, n) /\ e.kind \in DOMAIN StateAfter THEN StateAfter[e.kind] ELSE StateAt(log, item, n, Len(log))
  BY <1>1, <1>2, StateAtLast
<1>5. /\ \A k \in 1..Len(log) : IsOf(log[k], item, n) => MayFollow(log[k].kind, StateAt(log, item, n, k - 1))
      /\ StateAt(log, item, n, Len(log)) = RowState(r, item, n)
  BY <1>2 DEF Replays
<1> HIDE DEF log, more
<1>6. ASSUME NEW k \in DOMAIN more, IsOf(more[k], item, n)
      PROVE  MayFollow(more[k].kind, StateAt(more, item, n, k - 1))
  <2>1. CASE k \in 1..Len(log)
    <3>1. more[k] = log[k] /\ k - 1 \in 0..Len(log)
      BY <1>1, <1>2, <2>1
    <3>2. StateAt(more, item, n, k - 1) = StateAt(log, item, n, k - 1)
      BY <1>3, <3>1
    <3> QED
      BY <1>5, <1>6, <2>1, <3>1, <3>2
  <2>2. CASE k = Len(log) + 1
    <3>1. more[k] = e /\ k - 1 = Len(log) /\ Len(log) \in 0..Len(log)
      BY <1>1, <1>2, <2>2
    <3>2. StateAt(more, item, n, k - 1) = RowState(r, item, n)
      BY <1>3, <1>5, <3>1
    <3> QED
      BY <1>6, <3>1, <3>2
  <2> QED
    BY <1>1, <1>2, <1>6, <2>1, <2>2
<1>7. StateAt(more, item, n, Len(more)) = RowState(r, item, n)'
  BY <1>4, <1>5 DEF Moved
<1> QED
  BY <1>6, <1>7 DEF Replays, more

\* The rows of one table change as the event says.
RowFollows(r, item, n, kind) ==
  /\ MayFollow(kind, RowState(r, item, n))
  /\ RowState(r, item, n)' = Moved(RowState(r, item, n), kind)
  /\ \A q \in Repos, i \in Items, m \in 1..Budget :
       <<q, i, m>> # <<r, item, n>> => RowState(q, i, m)' = RowState(q, i, m)

\* A transaction that records one event replays.
LEMMA RecordReplays ==
  ASSUME TypeOK, HistoryReplays, NEW r \in Repos, NEW item \in Items, NEW n \in Nat, NEW kind \in Kinds,
         Record(r, item, kind, n), RowFollows(r, item, n, kind)
  PROVE  HistoryReplays'
<1> DEFINE e == [item |-> item, kind |-> kind, number |-> n]
<1>1. e \in EventRow /\ e.kind = kind /\ \A i, m : IsOf(e, i, m) <=> i = item /\ m = n
  BY DEF EventRow, IsOf, Items
<1>2. events' = [events EXCEPT ![r] = Append(events[r], e)]
  BY DEF Record
<1> HIDE DEF e
<1>3. ASSUME NEW q \in Repos, NEW i \in Items, NEW m \in 1..Budget PROVE Replays(q, i, m)'
  <2>1. Replays(q, i, m)
    BY DEF HistoryReplays, Replays, Items
  <2>2. CASE q = r
    <3>1. events'[r] = Append(events[r], e)
      BY <1>2 DEF TypeOK
    <3>2. IsOf(e, i, m) => /\ MayFollow(e.kind, RowState(r, i, m))
                           /\ RowState(r, i, m)' = Moved(RowState(r, i, m), e.kind)
      BY <1>1 DEF RowFollows
    <3>3. ~IsOf(e, i, m) => RowState(r, i, m)' = RowState(r, i, m)
      BY <1>1 DEF RowFollows
    <3> QED
      BY <1>1, <2>1, <2>2, <3>1, <3>2, <3>3, ReplayStep
  <2>3. CASE q # r
    <3>1. events'[q] = events[q] /\ RowState(q, i, m)' = RowState(q, i, m)
      BY <1>2, <2>3 DEF TypeOK, RowFollows
    <3> QED
      BY <2>1, <3>1 DEF Replays
  <2> QED
    BY <2>2, <2>3
<1> QED
  BY <1>3 DEF HistoryReplays, Replays, Items

\* A step that touches no event, issue or pull request.
LEMMA ReplayFrame ==
  ASSUME HistoryReplays, UNCHANGED <<events, issues, pulls>>
  PROVE  HistoryReplays'
<1>1. \A r, item, n : RowState(r, item, n)' = RowState(r, item, n)
  BY DEF RowState
<1> QED
  BY <1>1 DEF HistoryReplays

\* A new row of issues: its number is one more than the last.
LEMMA IssueCreated ==
  ASSUME TypeOK, NEW r \in Repos, NEW u \in Users, UNCHANGED pulls,
         NEW n \in Nat, n = Len(issues[r]) + 1,
         issues' = [issues EXCEPT ![r] = Append(issues[r], [author |-> u, state |-> "open"])]
  PROVE  RowFollows(r, "issue", n, "created")
<1> DEFINE row == [author |-> u, state |-> "open"]
<1>0. row \in IssueRow /\ row.state = "open"
  BY DEF IssueRow
<1>1. issues[r] \in Seq(IssueRow) /\ Len(issues[r]) \in Nat
  BY DEF TypeOK
<1>2. issues'[r] = Append(issues[r], row) /\ \A q \in Repos \ {r} : issues'[q] = issues[q]
  BY DEF TypeOK
<1> HIDE DEF row
<1>3. /\ DOMAIN issues[r] = 1..Len(issues[r]) /\ DOMAIN issues'[r] = 1..n /\ issues'[r][n] = row
      /\ \A m \in 1..Len(issues[r]) : issues'[r][m] = issues[r][m]
  BY <1>0, <1>1, <1>2
<1>4. RowState(r, "issue", n) = "none" /\ RowState(r, "issue", n)' = "open"
  BY <1>0, <1>1, <1>3 DEF RowState
<1>5. MayFollow("created", "none") /\ Moved("none", "created") = "open"
  BY StateAfterDomain DEF MayFollow, Moved
<1>6. ASSUME NEW q \in Repos, NEW i \in Items, NEW m \in 1..Budget, <<q, i, m>> # <<r, "issue", n>>
      PROVE  RowState(q, i, m)' = RowState(q, i, m)
  <2>1. CASE i # "issue"
    BY <2>1 DEF RowState, Items
  <2>2. CASE i = "issue" /\ q # r
    BY <1>2, <2>2 DEF RowState, Items
  <2>3. CASE i = "issue" /\ q = r
    <3>1. m # n
      BY <1>6, <2>3
    <3>2. m \in DOMAIN issues'[r] <=> m \in DOMAIN issues[r]
      BY <1>1, <1>3, <3>1
    <3> QED
      BY <1>3, <2>3, <3>2 DEF RowState
  <2> QED
    BY <2>1, <2>2, <2>3
<1> QED
  BY <1>4, <1>5, <1>6 DEF RowFollows

\* The state of a row of issues changes.
LEMMA IssueMoved ==
  ASSUME TypeOK, NEW r \in Repos, NEW n \in DOMAIN issues[r], NEW s \in {"open", "closed"}, NEW kind \in DOMAIN StateAfter,
         UNCHANGED pulls, issues' = [issues EXCEPT ![r][n].state = s],
         StateAfter[kind] = s, MayFollow(kind, issues[r][n].state)
  PROVE  RowFollows(r, "issue", n, kind)
<1> DEFINE row == [issues[r][n] EXCEPT !.state = s]
<1>1. issues[r] \in Seq(IssueRow) /\ issues[r][n] \in IssueRow
  BY DEF TypeOK
<1>2. row.state = s
  BY <1>1 DEF IssueRow
<1>3. issues'[r] = [issues[r] EXCEPT ![n] = row] /\ \A q \in Repos \ {r} : issues'[q] = issues[q]
  BY DEF TypeOK
<1> HIDE DEF row
<1>4. /\ DOMAIN issues'[r] = DOMAIN issues[r] /\ issues'[r][n] = row
      /\ \A m \in DOMAIN issues[r] \ {n} : issues'[r][m] = issues[r][m]
  BY <1>1, <1>3
<1>5. RowState(r, "issue", n) = issues[r][n].state /\ RowState(r, "issue", n)' = s
  BY <1>2, <1>4 DEF RowState
<1>6. Moved(issues[r][n].state, kind) = s
  BY DEF Moved
<1>7. ASSUME NEW q \in Repos, NEW i \in Items, NEW m \in 1..Budget, <<q, i, m>> # <<r, "issue", n>>
      PROVE  RowState(q, i, m)' = RowState(q, i, m)
  <2>1. CASE i # "issue"
    BY <2>1 DEF RowState, Items
  <2>2. CASE i = "issue" /\ q # r
    BY <1>3, <2>2 DEF RowState, Items
  <2>3. CASE i = "issue" /\ q = r
    <3>1. m # n
      BY <1>7, <2>3
    <3> QED
      BY <1>4, <2>3, <3>1 DEF RowState
  <2> QED
    BY <2>1, <2>2, <2>3
<1> QED
  BY <1>5, <1>6, <1>7 DEF RowFollows

\* A number of pulls is reserved: no state changes.
LEMMA PullReserved ==
  ASSUME TypeOK, HistoryReplays, NEW r \in Repos, NEW u \in Users, UNCHANGED <<events, issues>>,
         pulls' = [pulls EXCEPT ![r] = Append(pulls[r], [author |-> u, state |-> "none"])]
  PROVE  HistoryReplays'
<1> DEFINE row == [author |-> u, state |-> "none"]
           n == Len(pulls[r]) + 1
<1>0. row \in PullRow /\ row.state = "none"
  BY DEF PullRow
<1>1. pulls[r] \in Seq(PullRow) /\ Len(pulls[r]) \in Nat /\ n \in Nat
  BY DEF TypeOK
<1>2. pulls'[r] = Append(pulls[r], row) /\ \A q \in Repos \ {r} : pulls'[q] = pulls[q]
  BY DEF TypeOK
<1> HIDE DEF row
<1>3. /\ DOMAIN pulls[r] = 1..Len(pulls[r]) /\ DOMAIN pulls'[r] = 1..n /\ pulls'[r][n] = row
      /\ \A m \in 1..Len(pulls[r]) : pulls'[r][m] = pulls[r][m]
  BY <1>0, <1>1, <1>2
<1>4. ASSUME NEW q \in Repos, NEW i \in Items, NEW m \in 1..Budget
      PROVE  RowState(q, i, m)' = RowState(q, i, m)
  <2>1. CASE i # "pull"
    BY <2>1 DEF RowState, Items
  <2>2. CASE i = "pull" /\ q # r
    BY <1>2, <2>2 DEF RowState, Items
  <2>3. CASE i = "pull" /\ q = r /\ m = n
    <3>1. m \notin DOMAIN pulls[r] /\ m \in DOMAIN pulls'[r]
      BY <1>1, <1>3, <2>3
    <3> QED
      BY <1>0, <1>3, <2>3, <3>1 DEF RowState
  <2>4. CASE i = "pull" /\ q = r /\ m # n
    <3>1. m \in DOMAIN pulls'[r] <=> m \in DOMAIN pulls[r]
      BY <1>1, <1>3, <2>4
    <3> QED
      BY <1>3, <2>4, <3>1 DEF RowState
  <2> QED
    BY <2>1, <2>2, <2>3, <2>4
<1> QED
  BY <1>4 DEF HistoryReplays, Items

\* The state of a row of pulls changes.
LEMMA PullMoved ==
  ASSUME TypeOK, NEW r \in Repos, NEW n \in DOMAIN pulls[r], NEW s \in {"open", "closed", "merged"}, NEW kind \in DOMAIN StateAfter,
         UNCHANGED issues, pulls' = [pulls EXCEPT ![r][n].state = s],
         StateAfter[kind] = s, MayFollow(kind, pulls[r][n].state)
  PROVE  RowFollows(r, "pull", n, kind)
<1> DEFINE row == [pulls[r][n] EXCEPT !.state = s]
<1>1. pulls[r] \in Seq(PullRow) /\ pulls[r][n] \in PullRow
  BY DEF TypeOK
<1>2. row.state = s
  BY <1>1 DEF PullRow
<1>3. pulls'[r] = [pulls[r] EXCEPT ![n] = row] /\ \A q \in Repos \ {r} : pulls'[q] = pulls[q]
  BY DEF TypeOK
<1> HIDE DEF row
<1>4. /\ DOMAIN pulls'[r] = DOMAIN pulls[r] /\ pulls'[r][n] = row
      /\ \A m \in DOMAIN pulls[r] \ {n} : pulls'[r][m] = pulls[r][m]
  BY <1>1, <1>3
<1>5. RowState(r, "pull", n) = pulls[r][n].state /\ RowState(r, "pull", n)' = s
  BY <1>2, <1>4 DEF RowState
<1>6. Moved(pulls[r][n].state, kind) = s
  BY DEF Moved
<1>7. ASSUME NEW q \in Repos, NEW i \in Items, NEW m \in 1..Budget, <<q, i, m>> # <<r, "pull", n>>
      PROVE  RowState(q, i, m)' = RowState(q, i, m)
  <2>1. CASE i # "pull"
    BY <2>1 DEF RowState, Items
  <2>2. CASE i = "pull" /\ q # r
    BY <1>3, <2>2 DEF RowState, Items
  <2>3. CASE i = "pull" /\ q = r
    <3>1. m # n
      BY <1>7, <2>3
    <3> QED
      BY <1>4, <2>3, <3>1 DEF RowState
  <2> QED
    BY <2>1, <2>2, <2>3
<1> QED
  BY <1>5, <1>6, <1>7 DEF RowFollows

\* An event that changes no row: an edit, a comment or a review.
LEMMA RowKept ==
  ASSUME NEW r \in Repos, NEW item \in Items, NEW n, NEW kind \in {"edited", "commented", "reviewed"},
         UNCHANGED <<issues, pulls>>, MayFollow(kind, RowState(r, item, n))
  PROVE  RowFollows(r, item, n, kind)
<1>1. \A q, i, m : RowState(q, i, m)' = RowState(q, i, m)
  BY DEF RowState
<1>2. Moved(RowState(r, item, n), kind) = RowState(r, item, n)
  BY StateAfterDomain DEF Moved
<1> QED
  BY <1>1, <1>2 DEF RowFollows

\* Issues: every transaction replays.
LEMMA ContentReplays ==
  ASSUME TypeOK, HistoryReplays, ContentNext
  PROVE  HistoryReplays'
<1>1. ASSUME NEW u \in Users, NEW r \in Repos, CreateIssue(u, r) PROVE HistoryReplays'
  <2>1. PICK n \in Nat : n = Len(issues[r]) + 1
    BY DEF TypeOK
  <2>2. RowFollows(r, "issue", n, "created")
    BY <1>1, <2>1, IssueCreated DEF CreateIssue
  <2>3. Record(r, "issue", "created", n)
    BY <1>1, <2>1 DEF CreateIssue
  <2> QED
    BY <2>2, <2>3, RecordReplays DEF Items, Kinds
<1>2. ASSUME NEW u \in Users, NEW r \in Repos, NEW n \in 1..Budget, n \in DOMAIN issues[r]
      PROVE  /\ RowState(r, "issue", n) = issues[r][n].state
             /\ issues[r][n].state \in {"open", "closed"}
  <2>1. issues[r][n] \in IssueRow
    BY <1>2 DEF TypeOK
  <2> QED
    BY <1>2, <2>1 DEF IssueRow, RowState
<1>3. ASSUME NEW u \in Users, NEW r \in Repos, NEW n \in 1..Budget, NEW kind \in {"edited", "commented"},
             n \in DOMAIN issues[r], Record(r, "issue", kind, n), UNCHANGED <<issues, pulls>>
      PROVE  HistoryReplays'
  <2>1. MayFollow(kind, RowState(r, "issue", n))
    BY <1>2, <1>3 DEF MayFollow
  <2>2. RowFollows(r, "issue", n, kind)
    BY <1>3, <2>1, RowKept DEF Items
  <2> QED
    BY <1>3, <2>2, RecordReplays DEF Items, Kinds
<1>4. ASSUME NEW u \in Users, NEW r \in Repos, NEW n \in 1..Budget, EditIssue(u, r, n) PROVE HistoryReplays'
  BY <1>3, <1>4 DEF EditIssue, Mutable
<1>5. ASSUME NEW u \in Users, NEW r \in Repos, NEW n \in 1..Budget, CommentIssue(u, r, n) PROVE HistoryReplays'
  BY <1>3, <1>5 DEF CommentIssue, Mutable
<1>6. ASSUME NEW u \in Users, NEW r \in Repos, NEW n \in 1..Budget, NEW s \in {"open", "closed"},
             SetIssueState(u, r, n, s)
      PROVE  HistoryReplays'
  <2> DEFINE kind == IF s = "closed" THEN "closed" ELSE "reopened"
  <2>1. n \in DOMAIN issues[r] /\ issues[r][n].state # s
    BY <1>6 DEF SetIssueState, Mutable
  <2>2. /\ kind \in DOMAIN StateAfter /\ StateAfter[kind] = s /\ MayFollow(kind, issues[r][n].state)
        /\ kind \in Kinds
    BY <1>2, <2>1, StateAfterDomain DEF MayFollow, Kinds
  <2>3. issues' = [issues EXCEPT ![r][n].state = s] /\ UNCHANGED pulls /\ Record(r, "issue", kind, n)
    BY <1>6 DEF SetIssueState
  <2> HIDE DEF kind
  <2>4. RowFollows(r, "issue", n, kind)
    BY <2>1, <2>2, <2>3, IssueMoved
  <2> QED
    BY <2>2, <2>3, <2>4, RecordReplays DEF Items
<1>7. ASSUME NEW u \in Users, NEW r \in Repos, NEW w \in BOOLEAN, SetWatch(u, r, w) PROVE HistoryReplays'
  BY <1>7, ReplayFrame DEF SetWatch
<1> QED
  BY <1>1, <1>4, <1>5, <1>6, <1>7 DEF ContentNext

\* Pull requests: every transaction replays.
LEMMA PullRequestReplays ==
  ASSUME TypeOK, HistoryReplays, PullRequestNext
  PROVE  HistoryReplays'
<1>1. ASSUME NEW u \in Users, NEW r \in Repos, OpenPullRequest(u, r) PROVE HistoryReplays'
  BY <1>1, PullReserved DEF OpenPullRequest
<1>2. ASSUME NEW r \in Repos, NEW n \in DOMAIN pulls[r]
      PROVE  /\ RowState(r, "pull", n) = pulls[r][n].state
             /\ pulls[r][n].state \in {"none", "open", "closed", "merged"}
  <2>1. pulls[r][n] \in PullRow
    BY <1>2 DEF TypeOK
  <2> QED
    BY <1>2, <2>1 DEF PullRow, RowState
<1>3. ASSUME NEW r \in Repos, NEW n \in 1..Budget, NEW kind \in {"edited", "reviewed"}, n \in DOMAIN pulls[r],
             MayFollow(kind, pulls[r][n].state), Record(r, "pull", kind, n), UNCHANGED <<issues, pulls>>
      PROVE  HistoryReplays'
  <2>1. RowFollows(r, "pull", n, kind)
    BY <1>2, <1>3, RowKept DEF Items
  <2> QED
    BY <1>3, <2>1, RecordReplays DEF Items, Kinds
<1>4. ASSUME NEW r \in Repos, NEW n \in 1..Budget, NEW s \in {"open", "closed", "merged"},
             NEW kind \in DOMAIN StateAfter, n \in DOMAIN pulls[r], StateAfter[kind] = s,
             MayFollow(kind, pulls[r][n].state), Record(r, "pull", kind, n),
             pulls' = [pulls EXCEPT ![r][n].state = s], UNCHANGED issues
      PROVE  HistoryReplays'
  <2>1. RowFollows(r, "pull", n, kind)
    BY <1>4, PullMoved
  <2>2. kind \in Kinds
    BY StateAfterDomain DEF Kinds
  <2> QED
    BY <1>4, <2>1, <2>2, RecordReplays DEF Items
<1>5. ASSUME NEW u \in Users, NEW r \in Repos, NEW n \in 1..Budget,
             InsertPullRequest(u, r, n) \/ CompleteMerge(u, r, n)
      PROVE  HistoryReplays'
  BY <1>4, <1>5, StateAfterDomain DEF InsertPullRequest, CompleteMerge, MayFollow
<1>6. ASSUME NEW u \in Users, NEW r \in Repos, NEW n \in 1..Budget, EditPullRequest(u, r, n) PROVE HistoryReplays'
  BY <1>2, <1>3, <1>6 DEF EditPullRequest, MayFollow
<1>7. ASSUME NEW u \in Users, NEW r \in Repos, NEW n \in 1..Budget, NEW s \in {"open", "closed"},
             SetPullRequestState(u, r, n, s)
      PROVE  HistoryReplays'
  <2> DEFINE kind == IF s = "closed" THEN "closed" ELSE "reopened"
  <2>1. n \in DOMAIN pulls[r] /\ pulls[r][n].state \notin {"none", "merged", s}
    BY <1>7 DEF SetPullRequestState
  <2>2. kind \in DOMAIN StateAfter /\ StateAfter[kind] = s /\ MayFollow(kind, pulls[r][n].state)
    BY <1>2, <2>1, StateAfterDomain DEF MayFollow
  <2>3. pulls' = [pulls EXCEPT ![r][n].state = s] /\ UNCHANGED issues /\ Record(r, "pull", kind, n)
    BY <1>7 DEF SetPullRequestState
  <2> HIDE DEF kind
  <2> QED
    BY <1>4, <2>1, <2>2, <2>3
<1>8. ASSUME NEW u \in Users, NEW r \in Repos, NEW n \in 1..Budget, ReviewPullRequest(u, r, n) PROVE HistoryReplays'
  BY <1>3, <1>8 DEF ReviewPullRequest, MayFollow
<1>9. ASSUME NEW u \in Users, NEW r \in Repos, NEW n \in 1..Budget, NEW k \in IntentKinds,
             MergePullRequest(u, r, n) \/ AbandonIntent(k, u, r, n)
      PROVE  HistoryReplays'
  BY <1>9, ReplayFrame DEF MergePullRequest, AbandonIntent
<1> QED
  BY <1>1, <1>5, <1>6, <1>7, <1>8, <1>9 DEF PullRequestNext, IntentKinds

\* Creations: the first event of a repository finds it empty and is of no issue.
LEMMA CreationReplays ==
  ASSUME HistoryInv, CreationNext
  PROVE  HistoryReplays'
<1>1. ASSUME NEW r \in Repos, InsertRepository(r) PROVE HistoryReplays'
  <2> DEFINE e == [item |-> "repository", kind |-> "created", number |-> 0]
  <2>1. issues[r] = <<>> /\ pulls[r] = <<>>
    <3>1. creation[r].phase = "renamed"
      BY <1>1 DEF InsertRepository
    <3>2. repo[r].state = "none"
      BY <3>1 DEF HistoryInv, RowsInv, RowsReady, Rows
    <3> QED
      BY <3>2 DEF HistoryInv, ContentHasRow
  <2>2. /\ events'[r] = <<e>> /\ \A q \in Repos \ {r} : events'[q] = events[q]
        /\ UNCHANGED <<issues, pulls>>
    BY <1>1 DEF InsertRepository, HistoryInv, RowsInv, TypeOK
  <2>3. \A item \in Items : \A n : ~IsOf(e, item, n)
    BY DEF IsOf, Items
  <2> HIDE DEF e
  <2>4. \A q, i, m : RowState(q, i, m)' = RowState(q, i, m)
    BY <2>2 DEF RowState
  <2>5. ASSUME NEW i \in Items, NEW m PROVE Replays(r, i, m)'
    <3>1. Len(<<e>>) = 1 /\ DOMAIN <<e>> = 1..1 /\ <<e>>[1] = e
      OBVIOUS
    <3>2. \A k \in 1..1 : ~IsOf(<<e>>[k], i, m)
      BY <2>3, <3>1
    <3>3. Moves(<<e>>, i, m, 1) = {}
      BY <3>2 DEF Moves
    <3>4. StateAt(<<e>>, i, m, 1) = "none"
      BY <3>3 DEF StateAt
    <3>5. RowState(r, i, m)' = "none"
      <4>1. DOMAIN issues[r] = {} /\ DOMAIN pulls[r] = {}
        BY <2>1
      <4> QED
        BY <2>4, <4>1 DEF RowState
    <3> QED
      BY <2>2, <3>1, <3>2, <3>4, <3>5 DEF Replays
  <2>6. ASSUME NEW q \in Repos \ {r}, NEW i \in Items, NEW m \in 1..Budget PROVE Replays(q, i, m)'
    <3>1. Replays(q, i, m)
      BY DEF HistoryInv, HistoryReplays, Replays, Items
    <3> QED
      BY <2>2, <2>4, <3>1 DEF Replays
  <2> QED
    BY <2>5, <2>6 DEF HistoryReplays, Replays, Items
<1>2. UNCHANGED <<events, issues, pulls>> \/ \E r \in Repos : InsertRepository(r)
  BY DEF CreationNext, CreateBare, RenameDirectory, CreationFails, InsertRefused, Kill, content
<1> QED
  BY <1>1, <1>2, ReplayFrame DEF HistoryInv

\* Content is written only where there is an active row, and a row stays a row.
LEMMA ContentStep ==
  ASSUME HistoryInv, [Next]_vars
  PROVE  ContentHasRow'
<1>1. TypeOK
  BY DEF HistoryInv, RowsInv
<1>2. \A r \in Repos : repo'[r].state = "none" => repo[r].state = "none"
  <2>1. CASE AdminNext \/ RepositoryNext
    BY <1>1, <2>1, RowChange
  <2>2. CASE ContentNext \/ PullRequestNext
    BY <2>2, ContentFrame
  <2>3. CASE OrganizationNext \/ UNCHANGED vars
    BY <2>3 DEF OrganizationNext, CreateOrganization, SetOrganizationMember, RemoveOrganizationMember, vars
  <2>4. CASE CreationNext
    <3>1. ASSUME NEW q \in Repos, InsertRepository(q)
          PROVE  \A r \in Repos : repo'[r].state = "none" => repo[r].state = "none"
      BY <1>1, <3>1 DEF InsertRepository, TypeOK
    <3> QED
      BY <2>4, <3>1 DEF CreationNext, CreateBare, RenameDirectory, CreationFails, InsertRefused, Kill
  <2> QED
    BY <2>1, <2>2, <2>3, <2>4 DEF Next
<1>3. \A r \in Repos : repo[r].state = "none" => issues'[r] = issues[r] /\ pulls'[r] = pulls[r]
  <2>1. CASE ContentNext
    BY ZenonT(40), <1>1, <2>1 DEF ContentNext, CreateIssue, EditIssue, CommentIssue, SetIssueState, SetWatch, Mutable, CanRead,
                      TypeOK
  <2>2. CASE PullRequestNext
    <3>1. ASSUME NEW q \in Repos, repo[q].state # "none", NEW row, pulls' = [pulls EXCEPT ![q] = row], UNCHANGED issues
          PROVE  \A r \in Repos : repo[r].state = "none" => issues'[r] = issues[r] /\ pulls'[r] = pulls[r]
      BY <1>1, <3>1 DEF TypeOK
    <3>2. ASSUME NEW u \in Users, NEW q \in Repos, OpenPullRequest(u, q)
          PROVE  \A r \in Repos : repo[r].state = "none" => issues'[r] = issues[r] /\ pulls'[r] = pulls[r]
      BY <3>1, <3>2 DEF OpenPullRequest, CanRead
    <3>3. ASSUME NEW u \in Users, NEW q \in Repos, NEW n \in 1..Budget,
                 InsertPullRequest(u, q, n) \/ CompleteMerge(u, q, n)
          PROVE  \A r \in Repos : repo[r].state = "none" => issues'[r] = issues[r] /\ pulls'[r] = pulls[r]
      <4>1. repo[q].state # "none"
        <5>1. n \in DOMAIN pulls[q]
          BY <3>3 DEF InsertPullRequest, CompleteMerge
        <5>2. pulls[q] # <<>>
          BY <5>1
        <5> QED
          BY <5>2 DEF HistoryInv, ContentHasRow
      <4> QED
        BY <3>1, <3>3, <4>1 DEF InsertPullRequest, CompleteMerge
    <3>4. ASSUME NEW u \in Users, NEW q \in Repos, NEW n \in 1..Budget, NEW s \in {"open", "closed"},
                 SetPullRequestState(u, q, n, s)
          PROVE  \A r \in Repos : repo[r].state = "none" => issues'[r] = issues[r] /\ pulls'[r] = pulls[r]
      BY <3>1, <3>4 DEF SetPullRequestState, CanWriteIssue, CanRead
    <3> QED
      BY <2>2, <3>2, <3>3, <3>4 DEF PullRequestNext, MergePullRequest, AbandonIntent, EditPullRequest,
                                    ReviewPullRequest
  <2>3. CASE CreationNext
    BY <2>3 DEF CreationNext, CreateBare, RenameDirectory, CreationFails, InsertRepository, InsertRefused, Kill, content
  <2>4. CASE AdminNext
    BY <2>4 DEF AdminNext, SetAccountState, AdminRename, AdminArchive, AdminVisibility, AdminSetCollaborator,
                AdminRemoveCollaborator, content
  <2>5. CASE RepositoryNext
    BY <2>5 DEF RepositoryNext, RenameRepository, Archive, Unarchive, UpdateSettings, UpdateCollaborator, content
  <2>6. CASE OrganizationNext \/ UNCHANGED vars
    BY <2>6 DEF OrganizationNext, CreateOrganization, SetOrganizationMember, RemoveOrganizationMember, vars, content
  <2> QED
    BY <2>1, <2>2, <2>3, <2>4, <2>5, <2>6 DEF Next
<1> QED
  BY <1>2, <1>3 DEF HistoryInv, ContentHasRow

\* For any issues and pull requests, written by anyone in any order: every event of
\* a repository may follow the ones before it, and together they tell the state of
\* the row (set_issue_state, set_pull_request_state, insert_domain_event).
THEOREM HistoryTheorem == Spec => []HistoryReplays
<1>1. Init => ContentHasRow /\ HistoryReplays
  <2> SUFFICES ASSUME Init PROVE ContentHasRow /\ HistoryReplays
    OBVIOUS
  <2>1. \A r \in Repos : events[r] = <<>> /\ issues[r] = <<>> /\ pulls[r] = <<>>
    BY DEF Init
  <2>2. \A item, n : StateAt(<<>>, item, n, 0) = "none"
    BY DEF StateAt, Moves
  <2> QED
    BY <2>1, <2>2 DEF ContentHasRow, HistoryReplays, RowState
<1>2. HistoryInv /\ [Next]_vars => HistoryReplays'
  <2> SUFFICES ASSUME HistoryInv, [Next]_vars PROVE HistoryReplays'
    OBVIOUS
  <2>1. TypeOK /\ HistoryReplays
    BY DEF HistoryInv, RowsInv
  <2>2. CASE AdminNext
    BY <2>1, <2>2, ReplayFrame DEF AdminNext, SetAccountState, AdminRename, AdminArchive, AdminVisibility,
           AdminSetCollaborator, AdminRemoveCollaborator, content
  <2>3. CASE RepositoryNext
    BY <2>1, <2>3, ReplayFrame DEF RepositoryNext, RenameRepository, Archive, Unarchive, UpdateSettings,
           UpdateCollaborator, content
  <2>4. CASE OrganizationNext \/ UNCHANGED vars
    BY <2>1, <2>4, ReplayFrame DEF OrganizationNext, CreateOrganization, SetOrganizationMember,
           RemoveOrganizationMember, vars, content
  <2> QED
    BY <2>1, <2>2, <2>3, <2>4, ContentReplays, PullRequestReplays, CreationReplays DEF Next
<1>3. HistoryInv /\ [Next]_vars => ContentHasRow'
  BY ContentStep
<1> QED
  BY <1>1, <1>2, <1>3, RowsInvariant, PTL DEF Spec, HistoryInv
=============================================================================
