---------------------------- MODULE DefaultBranch ----------------------------
(***************************************************************************)
(* Changing the default branch of one repository.  The name is kept twice: *)
(* in SQLite (repository_default_branch, which the ref policy reads) and   *)
(* in Git (the symbolic target of HEAD, which clones read).  An intent row *)
(* ties the two writes together and startup recovery settles it.           *)
(*                                                                         *)
(* Sources: src/repository.rs (update_default_branch, recover),            *)
(* src/store/mod.rs (the *_repository_default_branch transactions),        *)
(* src/git/repository.rs (default_branch, set_default_branch),             *)
(* src/policy.rs (authorize_ref_change).                                   *)
(*                                                                         *)
(* A change runs under the git_operations mutex.  A push does not take     *)
(* that mutex: it is authorized against the stored name first and moves    *)
(* its ref later.                                                          *)
(***************************************************************************)
EXTENDS Integers, FiniteSets

CONSTANTS
  Branches,      \* branch names
  Main,          \* the branch a new repository starts with
  Existing,      \* the branches the repository starts with
  Changes,       \* requests to change the default branch; the id of their intent
  Pushes,        \* pushes that create or delete one branch
  NoChange,      \* "no intent row"
  MaxStops       \* bound on crashes and shutdowns

ASSUME BranchAssumption == Main \in Branches /\ Existing \subseteq Branches
ASSUME ChangeAssumption == NoChange \notin Changes
ASSUME StopAssumption == MaxStops \in Nat

VARIABLES
  phase,     \* the server process: "down", "recover", "refused" or "up"
  branches,  \* refs/heads/* that exist
  head,      \* the target of HEAD
  stored,    \* repository_default_branch.ref_name
  row,       \* the change whose repository_default_branch_intent row exists
  pc,        \* where each change is
  prev,      \* previous_ref_name of a change
  want,      \* proposed_ref_name of a change
  audits,    \* changes with a repository.default-branch audit event
  push,      \* where each push is
  target,    \* the branch a push deletes
  stops,     \* crashes and shutdowns so far
  moved      \* history: the changes that wrote HEAD

changeVars == <<pc, prev, want>>
pushVars == <<push, target>>
vars == <<phase, branches, head, stored, row, changeVars, audits, pushVars, stops, moved>>

Stages == {"idle", "read", "begun", "written", "unwritten", "done"}
Changing == \E c \in Changes : pc[c] \notin {"idle", "done"}
Pushing == \E p \in Pushes : push[p] = "allowed"
Goto(c, stage) == pc' = [pc EXCEPT ![c] = stage]

\* create_inner and import: HEAD and the stored name start equal.
Init ==
  /\ phase = "up"
  /\ branches = Existing
  /\ head = Main
  /\ stored = Main
  /\ row = NoChange
  /\ pc = [c \in Changes |-> "idle"]
  /\ prev = [c \in Changes |-> Main]
  /\ want = [c \in Changes |-> Main]
  /\ audits = {}
  /\ push = [p \in Pushes |-> "idle"]
  /\ target = [p \in Pushes |-> Main]
  /\ stops = 0
  /\ moved = {}

-----------------------------------------------------------------------------
(***************************************************************************)
(* The store transactions.                                                 *)
(***************************************************************************)

\* Mutant: the stored name is not updated.
CompleteKeepsName(c) ==
  /\ audits' = audits \cup {c}
  /\ row' = NoChange
  /\ UNCHANGED stored

\* complete_repository_default_branch: name, audit event and row in one step.
Complete(c) ==
  /\ stored' = want[c]
  /\ audits' = audits \cup {c}
  /\ row' = NoChange

\* Mutant: the request that could not write HEAD is completed.
AbandonAudits(c) ==
  /\ row' = NoChange
  /\ audits' = audits \cup {c}
  /\ UNCHANGED stored

\* abandon_repository_default_branch deletes the row and nothing else.
Abandon(c) ==
  /\ row' = NoChange
  /\ UNCHANGED <<stored, audits>>

-----------------------------------------------------------------------------
(***************************************************************************)
(* update_default_branch                                                   *)
(***************************************************************************)

\* The mutex is taken, the settings are read, the branch is resolved, and HEAD
\* must agree with the stored name (DefaultBranchState otherwise).
ChangeRead(c) ==
  /\ phase = "up"
  /\ pc[c] = "idle"
  /\ ~Changing
  /\ head = stored
  /\ \E b \in branches : want' = [want EXCEPT ![c] = b]
  /\ prev' = [prev EXCEPT ![c] = stored]
  /\ Goto(c, "read")
  /\ UNCHANGED <<phase, branches, head, stored, row, audits, pushVars, stops, moved>>

\* begin_repository_default_branch; repository_id is UNIQUE in the table, so a
\* row that an earlier change left behind makes the INSERT fail.
ChangeBegin(c) ==
  /\ pc[c] = "read"
  /\ stored = prev[c]
  /\ row = NoChange
  /\ row' = c
  /\ Goto(c, "begun")
  /\ UNCHANGED <<phase, branches, head, stored, prev, want, audits, pushVars, stops, moved>>

ChangeRefused(c) ==
  /\ pc[c] = "read"
  /\ Goto(c, "done")
  /\ UNCHANGED <<phase, branches, head, stored, row, prev, want, audits, pushVars, stops, moved>>

\* set_default_branch resolves the branch once more and replaces HEAD.
ChangeSetHead(c) ==
  /\ pc[c] = "begun"
  /\ want[c] \in branches
  /\ head' = want[c]
  /\ moved' = moved \cup {c}
  /\ Goto(c, "written")
  /\ UNCHANGED <<phase, branches, stored, row, prev, want, audits, pushVars, stops>>

\* The branch is gone, or HEAD cannot be written.
ChangeSetHeadFails(c) ==
  /\ pc[c] = "begun"
  /\ Goto(c, "unwritten")
  /\ UNCHANGED <<phase, branches, head, stored, row, prev, want, audits, pushVars, stops, moved>>

ChangeAbandon(c) ==
  /\ pc[c] = "unwritten"
  /\ row = c
  /\ Abandon(c)
  /\ Goto(c, "done")
  /\ UNCHANGED <<phase, branches, head, prev, want, pushVars, stops, moved>>

ChangeComplete(c) ==
  /\ pc[c] = "written"
  /\ row = c
  /\ Complete(c)
  /\ Goto(c, "done")
  /\ UNCHANGED <<phase, branches, head, prev, want, pushVars, stops, moved>>

\* The last transaction fails: the request ends and its row stays until the
\* next start.
ChangeError(c) ==
  /\ pc[c] \in {"written", "unwritten"}
  /\ Goto(c, "done")
  /\ UNCHANGED <<phase, branches, head, stored, row, prev, want, audits, pushVars, stops, moved>>

-----------------------------------------------------------------------------
(***************************************************************************)
(* Pushes, as far as the default branch goes: one at a time.               *)
(***************************************************************************)
PushCreate(p) ==
  /\ phase = "up"
  /\ push[p] = "idle"
  /\ ~Pushing
  /\ \E b \in Branches \ branches : branches' = branches \cup {b}
  /\ push' = [push EXCEPT ![p] = "done"]
  /\ UNCHANGED <<phase, head, stored, row, changeVars, audits, target, stops, moved>>

\* authorize_ref_change: the stored default branch may not be deleted.
PushAuthorize(p) ==
  /\ phase = "up"
  /\ push[p] = "idle"
  /\ ~Pushing
  /\ \E b \in branches \ {stored} : target' = [target EXCEPT ![p] = b]
  /\ push' = [push EXCEPT ![p] = "allowed"]
  /\ UNCHANGED <<phase, branches, head, stored, row, changeVars, audits, stops, moved>>

\* apply_ref_transaction, later and without a second look at the policy.
PushDelete(p) ==
  /\ push[p] = "allowed"
  /\ branches' = branches \ {target[p]}
  /\ push' = [push EXCEPT ![p] = "done"]
  /\ UNCHANGED <<phase, head, stored, row, changeVars, audits, target, stops, moved>>

PushFails(p) ==
  /\ push[p] = "allowed"
  /\ push' = [push EXCEPT ![p] = "done"]
  /\ UNCHANGED <<phase, branches, head, stored, row, changeVars, audits, target, stops, moved>>

-----------------------------------------------------------------------------
(***************************************************************************)
(* The process: shutdown, crash, and RepositoryService::recover at startup *)
(* before any listener exists.                                             *)
(***************************************************************************)
Stop ==
  /\ stops < MaxStops
  /\ phase \in {"up", "recover"}
  /\ phase' = "down"
  /\ stops' = stops + 1
  /\ pc' = [c \in Changes |-> IF pc[c] = "idle" THEN "idle" ELSE "done"]
  /\ push' = [p \in Pushes |-> IF push[p] = "idle" THEN "idle" ELSE "done"]
  /\ UNCHANGED <<branches, head, stored, row, prev, want, audits, target, moved>>

Start ==
  /\ phase = "down"
  /\ phase' = "recover"
  /\ UNCHANGED <<branches, head, stored, row, changeVars, audits, pushVars, stops, moved>>

\* Mutant: only a change that wrote HEAD is settled.
RecoverCompletesOnly ==
  /\ phase = "recover"
  /\ row # NoChange
  /\ IF head = want[row] /\ head # prev[row] THEN Complete(row) /\ UNCHANGED phase
     ELSE phase' = "refused" /\ UNCHANGED <<stored, row, audits>>
  /\ UNCHANGED <<branches, head, changeVars, pushVars, stops, moved>>

\* The row is settled by where HEAD is; anything else is DefaultBranchState and
\* the server does not start.
Recover ==
  /\ phase = "recover"
  /\ row # NoChange
  /\ IF head = prev[row] THEN Abandon(row) /\ UNCHANGED phase
     ELSE IF head = want[row] THEN Complete(row) /\ UNCHANGED phase
     ELSE phase' = "refused" /\ UNCHANGED <<stored, row, audits>>
  /\ UNCHANGED <<branches, head, changeVars, pushVars, stops, moved>>

RecoverEnd ==
  /\ phase = "recover"
  /\ row = NoChange
  /\ phase' = "up"
  /\ UNCHANGED <<branches, head, stored, row, changeVars, audits, pushVars, stops, moved>>

Next ==
  \/ \E c \in Changes :
       \/ ChangeRead(c) \/ ChangeBegin(c) \/ ChangeRefused(c) \/ ChangeSetHead(c)
       \/ ChangeSetHeadFails(c) \/ ChangeAbandon(c) \/ ChangeComplete(c) \/ ChangeError(c)
  \/ \E p \in Pushes :
       PushCreate(p) \/ PushAuthorize(p) \/ PushDelete(p) \/ PushFails(p)
  \/ Stop \/ Start \/ Recover \/ RecoverEnd

Spec == Init /\ [][Next]_vars
\* A killed or stopped server is started again and its recovery runs on.
FairSpec == Spec /\ WF_vars(Start) /\ WF_vars(Recover \/ RecoverEnd)

-----------------------------------------------------------------------------
TypeOK ==
  /\ phase \in {"down", "recover", "refused", "up"}
  /\ branches \subseteq Branches
  /\ head \in Branches
  /\ stored \in Branches
  /\ row \in Changes \cup {NoChange}
  /\ pc \in [Changes -> Stages]
  /\ prev \in [Changes -> Branches]
  /\ want \in [Changes -> Branches]
  /\ audits \subseteq Changes
  /\ push \in [Pushes -> {"idle", "allowed", "done"}]
  /\ target \in [Pushes -> Branches]
  /\ stops \in 0..MaxStops
  /\ moved \subseteq Changes

\* HEAD and the stored name agree whenever no intent row accounts for the
\* difference, whatever failed and wherever the server was killed.
HeadIsStored == row = NoChange => head = stored

\* A row always names the stored branch as the previous one and HEAD as one of
\* its two, so the match in recover() can never reach DefaultBranchState.
RowDescribesHead ==
  row # NoChange => stored = prev[row] /\ head \in {prev[row], want[row]}

\* HEAD is what the database says it is: the stored name, or one of the two
\* branches of the row that a change, a failure or a kill has left there.
HeadIsExplained == HeadIsStored /\ RowDescribesHead

\* The audit history tells what happened: only a change that wrote HEAD has a
\* success event, and a change that moved HEAD has one unless its row is left.
AuditIsReal ==
  /\ audits \subseteq moved
  /\ \A c \in moved : c # row /\ pc[c] = "done" /\ prev[c] # want[c] => c \in audits

\* The inductive invariant behind the three: one change holds the mutex, and the
\* stage of a change says where its row and HEAD are.
OneChange == \A c, d \in Changes :
  pc[c] \notin {"idle", "done"} /\ pc[d] \notin {"idle", "done"} => c = d
StagesTell == \A c \in Changes :
  /\ pc[c] \notin {"idle", "done"} => phase = "up"
  /\ pc[c] = "read" => prev[c] = stored
  /\ pc[c] \in {"begun", "unwritten"} => row = c /\ head = prev[c]
  /\ pc[c] = "written" => row = c /\ c \in moved
  /\ c \in moved => pc[c] \in {"written", "done"}
RowTells == row # NoChange =>
  /\ pc[row] \in {"begun", "written", "unwritten", "done"}
  /\ row \in moved => head = want[row]
  /\ row \notin moved => head = prev[row]
IndInv ==
  /\ TypeOK /\ HeadIsStored /\ RowDescribesHead /\ AuditIsReal
  /\ OneChange /\ StagesTell /\ RowTells

\* A server that starts again reaches serving, with the row settled on the way.
RestartSettles == phase = "down" ~> (phase = "up" /\ row = NoChange)

\* The ref policy of README.md: the default branch is never deleted (once it
\* exists, the branch that is the default one exists).  The code does not promise
\* it: the default branch may change between the check of a deletion and its end.
DefaultBranchExists == [][(stored \in branches) => (stored \in branches)']_vars
=============================================================================
