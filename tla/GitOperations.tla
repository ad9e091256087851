---------------------------- MODULE GitOperations ----------------------------
(***************************************************************************)
(* Git ref mutations of one repository: receive-pack pushes, pull-request  *)
(* merges, the intent journal in SQLite that ties a ref transaction to its *)
(* event, and the recovery that runs after a failed push and at startup.   *)
(*                                                                         *)
(* Sources: src/git/receive_pack.rs, src/pull_request.rs (merge, recover), *)
(* src/store/mod.rs (the intent and event transactions), src/ssh.rs        *)
(* (finish_receive, recover_pushes), src/serve.rs (run).                   *)
(*                                                                         *)
(* Every SQLite transaction is one step, every ref-file change is one step *)
(* and a crash may come between any two.  A push runs under the            *)
(* push_jobs semaphore (one permit); a merge runs under the git_operations *)
(* mutex.  The two locks are unrelated, so a push and a merge interleave.  *)
(***************************************************************************)
EXTENDS Integers, FiniteSets

CONSTANTS
  Pushes,        \* receive-pack requests; each is served once and owns one intent id
  Merges,        \* merge requests; each is served once and owns one intent id
  PullRequests,  \* pull-request numbers
  Refs,          \* branch names
  Default,       \* the default branch, fixed in this module
  Oids,          \* commits
  Ancestry,      \* <<a, d>>: a is an ancestor of d, or a = d
  MergeCommits,  \* <<b, h, m>>: m is the clean merge commit of base b and head h
  Packs,         \* the object sets a client may send as a pack; {} is no pack
  InitRefs,      \* the refs the repository starts with
  NoOid,         \* the null object id: "no such ref"
  NoPr,          \* "no merge row"
  MaxCommands,   \* most ref commands of one push (MAX_COMMANDS in the code)
  MaxRevisions,  \* bound on the revisions of a pull request
  MaxStops       \* bound on crashes, shutdowns and recoveries that fail

Ops == Pushes \cup Merges
Targets == Oids \cup {NoOid}
Closure(o) == {a \in Oids : <<a, o>> \in Ancestry}

ASSUME OpsAssumption == Pushes \cap Merges = {}
ASSUME OidAssumption ==
  /\ NoOid \notin Oids
  /\ Ancestry \subseteq Oids \X Oids
  /\ \A o \in Oids : <<o, o>> \in Ancestry
  /\ \A a, b, c \in Oids :
       <<a, b>> \in Ancestry /\ <<b, c>> \in Ancestry => <<a, c>> \in Ancestry
ASSUME MergeCommitAssumption ==
  /\ MergeCommits \subseteq Oids \X Oids \X Oids
  /\ \A t \in MergeCommits : <<t[1], t[3]>> \in Ancestry /\ <<t[2], t[3]>> \in Ancestry
  /\ \A t \in MergeCommits :
       Closure(t[3]) \subseteq Closure(t[1]) \cup Closure(t[2]) \cup {t[3]}
ASSUME PackAssumption == Packs \subseteq SUBSET Oids
ASSUME RefAssumption ==
  /\ Default \in Refs
  /\ InitRefs \in [Refs -> Targets]
ASSUME PrAssumption == NoPr \notin PullRequests
ASSUME BoundAssumption == MaxCommands \in Nat /\ MaxRevisions \in Nat /\ MaxStops \in Nat

VARIABLES
  phase,       \* the server process: see Phases
  refs,        \* refs/heads/* of the bare repository
  loose,       \* commits stored as loose objects
  packs,       \* packs in objects/pack; a pack is named by its contents
  pc,          \* where each operation is
  old, new,    \* the refs of its commands; old = new means "not a command"
  pack,        \* the pack a push received (empty: none)
  intent,      \* git_operation_intent.state
  packName,    \* git_operation_intent.pack_name (empty: NULL)
  mergeRow,    \* pull_request_merge_intent: the pull request of a merge, or NoPr
  plan,        \* the pull request and revision a merge read
  events,      \* operations with a git_operation_event row and its domain events
  pr,          \* pull_request rows with their latest revision
  recovering,  \* recover_incomplete_pushes is running
  todo, snap,  \* its remaining rows, and the states it listed
  verdict,     \* what it decided for the row it is working on
  stops,       \* crashes, shutdowns and failed recoveries so far
  applied,     \* history: operations that moved their own refs completely
  seen,        \* history: operations whose proposed refs were in place while incomplete
  overtaken,   \* history: pushes one of whose refs a merge moved before they were settled
  lapsed       \* history: a recovery failed and left its rows to a server that goes on

repoVars == <<refs, loose, packs>>
journalVars == <<intent, packName, mergeRow, events, pr>>
requestVars == <<old, new, pack, plan>>
recoveryVars == <<recovering, todo, snap, verdict>>
historyVars == <<applied, seen, overtaken, lapsed>>
vars == <<phase, repoVars, pc, requestVars, journalVars, recoveryVars, stops, historyVars>>

Phases == {"down", "refused", "recover", "web", "up", "stopping"}
Stages == {"idle", "checked", "pending", "stored", "promoted", "commit",
           "applied", "conflict", "failing", "done"}
IntentStates == {"none", "pending", "promoted", "completed", "abandoned"}
Verdicts == {"unread", "discard", "abandon", "complete"}
Plans == [pr : PullRequests \cup {NoPr}, head : Targets, rev : Nat]
NoPlan == [pr |-> NoPr, head |-> NoOid, rev |-> 0]
PrRows == [state : {"none", "open", "closed", "merged"}, base_ref : Refs,
           head_ref : Refs, base : Targets, head : Targets, rev : Nat]

Touched(i) == {r \in Refs : old[i][r] # new[i][r]}
\* refs_match: the refs of operation i have the values given in target.
Matches(current, i, target) == \A r \in Touched(i) : current[r] = target[r]
AtInitial(i) == Matches(refs, i, old[i])
AtProposed(i) == Matches(refs, i, new[i])
SingleRef(i) == \E r \in Refs : Touched(i) = {r}
Incomplete(i) == intent[i] \in {"pending", "promoted"}
Objects == loose \cup UNION packs
Active(i) == pc[i] \notin {"idle", "done"}
PushRunning == \E p \in Pushes : Active(p)
MergeRunning == \E m \in Merges : Active(m)
Failing == {p \in Pushes : pc[p] = "failing"}
\* Lock files of a ref transaction that is being committed.
Locked(r) == \E p \in Pushes : pc[p] = "commit" /\ r \in Touched(p) /\ refs[r] = old[p][r]
WebServing == phase \in {"web", "up"}

Goto(i, stage) == pc' = [pc EXCEPT ![i] = stage]
\* Every incomplete operation whose proposed refs are in place is remembered.
Observe(current, states) ==
  seen' = seen \cup {i \in Ops : states[i] \in {"pending", "promoted"}
                                /\ Matches(current, i, new[i])}

Init ==
  /\ phase = "up"
  /\ refs = InitRefs
  /\ loose = UNION {Closure(InitRefs[r]) : r \in {x \in Refs : InitRefs[x] # NoOid}}
  /\ packs = {}
  /\ pc = [i \in Ops |-> "idle"]
  /\ old = [i \in Ops |-> [r \in Refs |-> NoOid]]
  /\ new = [i \in Ops |-> [r \in Refs |-> NoOid]]
  /\ pack = [i \in Ops |-> {}]
  /\ plan = [m \in Merges |-> NoPlan]
  /\ intent = [i \in Ops |-> "none"]
  /\ packName = [i \in Ops |-> {}]
  /\ mergeRow = [m \in Merges |-> NoPr]
  /\ events = {}
  /\ pr = [q \in PullRequests |-> [state |-> "none", base_ref |-> Default,
             head_ref |-> Default, base |-> NoOid, head |-> NoOid, rev |-> 0]]
  /\ recovering = FALSE
  /\ todo = {}
  /\ snap = [i \in Ops |-> "none"]
  /\ verdict = [i \in Ops |-> "unread"]
  /\ stops = 0
  /\ applied = {}
  /\ seen = {}
  /\ overtaken = {}
  /\ lapsed = FALSE

-----------------------------------------------------------------------------
(***************************************************************************)
(* The journal transactions of src/store/mod.rs.                           *)
(***************************************************************************)
BeginIntent(i) == intent' = [intent EXCEPT ![i] = "pending"]

\* UPDATE ... WHERE id = ? AND state = 'pending', then require_one_intent.
CanMark(i) == intent[i] = "pending"
MarkPromoted(i, name) ==
  /\ intent' = [intent EXCEPT ![i] = "promoted"]
  /\ packName' = [packName EXCEPT ![i] = name]

\* Mutant: completion checks the state of the pull request only.
MergeStillValidAnyRevision(m) == mergeRow[m] # NoPr => pr[mergeRow[m]].state = "open"

\* complete_pull_request_merge: the pull request still is what the merge planned.
MergeStillValid(m) ==
  LET q == mergeRow[m] IN
  q # NoPr =>
    /\ pr[q].state = "open"
    /\ \E r \in Touched(m) : pr[q].base_ref = r /\ pr[q].base = old[m][r]
    /\ pr[q].head = plan[m].head
    /\ pr[q].rev = plan[m].rev

\* complete_git_intent: one transaction sets the state, inserts the event rows
\* and marks the pull request merged; any refusal rolls all of it back.
CanComplete(i) ==
  /\ intent[i] = "promoted"
  /\ i \in Merges => MergeStillValid(i)
Complete(i) ==
  /\ intent' = [intent EXCEPT ![i] = "completed"]
  /\ events' = events \cup {i}
  /\ pr' = IF i \in Merges /\ mergeRow[i] # NoPr
             THEN [pr EXCEPT ![mergeRow[i]].state = "merged"]
             ELSE pr
  /\ UNCHANGED <<packName, mergeRow>>

\* Mutant: the merge row is left behind.
AbandonKeepsRow(i) ==
  /\ intent' = [intent EXCEPT ![i] = "abandoned"]
  /\ UNCHANGED <<packName, mergeRow, events, pr>>

\* abandon_git_intent: also drops the merge row, which frees the pull request.
CanAbandon(i) == Incomplete(i)
Abandon(i) ==
  /\ intent' = [intent EXCEPT ![i] = "abandoned"]
  /\ mergeRow' = IF i \in Merges THEN [mergeRow EXCEPT ![i] = NoPr] ELSE mergeRow
  /\ UNCHANGED <<packName, events, pr>>

-----------------------------------------------------------------------------
(***************************************************************************)
(* Push: ReceivePack::finish under the push permit.                        *)
(***************************************************************************)

\* parse_commands and validate_initial_refs: the old ids are the current refs.
\* A stale command list is refused here with nothing written.
PushCheck(p) ==
  /\ phase = "up"
  /\ pc[p] = "idle"
  /\ ~PushRunning
  /\ \E target \in [Refs -> Targets], incoming \in Packs :
       LET commands == {r \in Refs : refs[r] # target[r]} IN
       /\ Cardinality(commands) \in 1..MaxCommands
       /\ (\A r \in commands : target[r] = NoOid) => incoming = {}
       /\ old' = [old EXCEPT ![p] = refs]
       /\ new' = [new EXCEPT ![p] = target]
       /\ pack' = [pack EXCEPT ![p] = incoming]
  /\ Goto(p, "checked")
  /\ UNCHANGED <<phase, repoVars, plan, journalVars, recoveryVars, stops, historyVars>>

PushBegin(p) ==
  /\ pc[p] = "checked"
  /\ BeginIntent(p)
  /\ Goto(p, "pending")
  /\ Observe(refs, intent')
  /\ UNCHANGED <<phase, repoVars, requestVars, packName, mergeRow, events, pr,
                 recoveryVars, stops, applied, overtaken, lapsed>>

\* begin_git_intent fails (a busy or full database): nothing was written yet.
PushRefused(p) ==
  /\ pc[p] = "checked"
  /\ Goto(p, "done")
  /\ UNCHANGED <<phase, repoVars, requestVars, journalVars, recoveryVars, stops, historyVars>>

\* Mutants: the ancestry check, or the protection of the default branch, is lost.
CommandAllowedForced(p, r) ==
  IF new[p][r] = NoOid THEN r # Default ELSE Closure(new[p][r]) \subseteq Objects \cup pack[p]

\* validate_proposed_objects and validate_policy for one command: the new
\* object and all it reaches are there, the change is no force update, and the
\* default branch is not deleted.
CommandAllowed(p, r) ==
  IF new[p][r] = NoOid
    THEN r # Default
    ELSE /\ Closure(new[p][r]) \subseteq Objects \cup pack[p]
         /\ old[p][r] # NoOid => <<old[p][r], new[p][r]>> \in Ancestry

\* Mutant: a pack that was there before is recorded as promoted by this push.
PushStoreRecordsAny(p) ==
  /\ pc[p] = "pending"
  /\ \A r \in Touched(p) : CommandAllowed(p, r)
  /\ packs' = packs \cup ({pack[p]} \ {{}})
  /\ Goto(p, "stored")
  /\ UNCHANGED <<phase, refs, loose, requestVars, journalVars, recoveryVars, stops, historyVars>>

\* index_and_validate_pack up to the renames into objects/pack.  A pack that is
\* there already is not promoted, so its name is not recorded.
PushStore(p) ==
  /\ pc[p] = "pending"
  /\ \A r \in Touched(p) : CommandAllowed(p, r)
  /\ packs' = packs \cup ({pack[p]} \ {{}})
  /\ pack' = [pack EXCEPT ![p] = IF @ \in packs THEN {} ELSE @]
  /\ Goto(p, "stored")
  /\ UNCHANGED <<phase, refs, loose, old, new, plan, journalVars, recoveryVars,
                 stops, historyVars>>

PushMark(p) ==
  /\ pc[p] = "stored"
  /\ CanMark(p)
  /\ MarkPromoted(p, pack[p])
  /\ Goto(p, "promoted")
  /\ UNCHANGED <<phase, repoVars, requestVars, mergeRow, events, pr, recoveryVars,
                 stops, historyVars>>

\* apply_ref_transaction: gix locks every ref and compares it with its old
\* value, then renames the lock files into place one after the other.
PushLock(p) ==
  /\ pc[p] = "promoted"
  /\ AtInitial(p)
  /\ Goto(p, "commit")
  /\ UNCHANGED <<phase, repoVars, requestVars, journalVars, recoveryVars, stops, historyVars>>

PushWriteRef(p, r) ==
  /\ pc[p] = "commit"
  /\ r \in Touched(p)
  /\ refs[r] = old[p][r]
  /\ refs' = [refs EXCEPT ![r] = new[p][r]]
  /\ IF Matches(refs', p, new[p])
       THEN Goto(p, "applied") /\ applied' = applied \cup {p}
       ELSE UNCHANGED <<pc, applied>>
  /\ Observe(refs', intent)
  /\ UNCHANGED <<phase, loose, packs, requestVars, journalVars, recoveryVars, stops, overtaken,
                 lapsed>>

PushComplete(p) ==
  /\ pc[p] = "applied"
  /\ CanComplete(p)
  /\ Complete(p)
  /\ Goto(p, "done")
  /\ UNCHANGED <<phase, repoVars, requestVars, recoveryVars, stops, historyVars>>

\* Mutant: the error is returned without recovery.
PushFailSilently(p) ==
  /\ pc[p] \in {"pending", "stored", "promoted", "commit", "applied"}
  /\ Goto(p, "done")
  /\ UNCHANGED <<phase, repoVars, requestVars, journalVars, recoveryVars, stops, historyVars>>

\* Any error after the intent exists (a rejected command, the deadline, I/O, a
\* stale ref in the transaction) makes finish call recover_incomplete_pushes.
PushFail(p) ==
  /\ pc[p] \in {"pending", "stored", "promoted", "commit", "applied"}
  /\ Goto(p, "failing")
  /\ UNCHANGED <<phase, repoVars, requestVars, journalVars, recoveryVars, stops, historyVars>>

-----------------------------------------------------------------------------
(***************************************************************************)
(* recover_incomplete_pushes, run by a failed push, by startup before the  *)
(* listeners exist (phase "recover") and again by the SSH listener while   *)
(* the web listener already serves (phase "web").  At most one runs.       *)
(***************************************************************************)

\* incomplete_git_intents: one query lists the rows with their states.
RecoverList ==
  /\ ~recovering
  /\ phase \in {"recover", "web"} \/ Failing # {}
  /\ recovering' = TRUE
  /\ todo' = {i \in Ops : Incomplete(i)}
  /\ snap' = intent
  /\ UNCHANGED <<phase, repoVars, pc, requestVars, journalVars, verdict, stops, historyVars>>

\* Mutants: a promoted intent is completed without a look at the refs, or the
\* single-ref rule comes before at_proposed.
DecisionTrustsJournal(i) == IF snap[i] = "promoted" THEN "complete" ELSE "abandon"
DecisionSingleFirst(i) ==
  IF AtInitial(i)
    THEN IF snap[i] = "promoted" THEN "discard" ELSE "abandon"
    ELSE IF SingleRef(i) THEN "abandon" ELSE "mixed"

\* The match on (state, at_initial, at_proposed); "mixed" is MixedRecovery.
Decision(i) ==
  IF AtInitial(i) \/ (~AtProposed(i) /\ SingleRef(i))
    THEN IF snap[i] = "promoted" THEN "discard" ELSE "abandon"
    ELSE IF AtProposed(i) /\ snap[i] = "promoted" THEN "complete" ELSE "mixed"

\* recover_intent reads the refs of one row.  ORDER BY created_at, id does not
\* order two rows of the same second, so any row may come first.
RecoverRead(i) ==
  /\ recovering
  /\ i \in todo
  /\ \A j \in Ops : verdict[j] = "unread"
  /\ Decision(i) # "mixed"
  /\ verdict' = [verdict EXCEPT ![i] = Decision(i)]
  /\ UNCHANGED <<phase, repoVars, pc, requestVars, journalVars, recovering, todo, snap,
                 stops, historyVars>>

\* remove_promoted_pack; without a recorded pack name it does nothing.
RecoverDiscard(i) ==
  /\ recovering
  /\ verdict[i] = "discard"
  /\ packs' = packs \ {packName[i]}
  /\ verdict' = [verdict EXCEPT ![i] = "abandon"]
  /\ UNCHANGED <<phase, refs, loose, pc, requestVars, journalVars, recovering, todo, snap,
                 stops, historyVars>>

RecoverSettle(i) ==
  /\ recovering
  /\ \/ verdict[i] = "abandon" /\ CanAbandon(i) /\ Abandon(i)
     \/ verdict[i] = "complete" /\ CanComplete(i) /\ Complete(i)
  /\ todo' = todo \ {i}
  /\ verdict' = [verdict EXCEPT ![i] = "unread"]
  /\ UNCHANGED <<phase, repoVars, pc, requestVars, recovering, snap, stops, historyVars>>

\* What follows recover_incomplete_pushes: a failed push returns its error, and
\* startup goes on when it succeeded and gives up when it did not.  The error of a
\* failed push's recovery stops nobody: the rows it left stay as they are while the
\* next push runs.
RecoverReturn(ok) ==
  /\ recovering' = FALSE
  /\ todo' = {}
  /\ verdict' = [i \in Ops |-> "unread"]
  /\ pc' = [i \in Ops |-> IF i \in Failing THEN "done" ELSE pc[i]]
  /\ phase' = CASE phase = "recover" -> IF ok THEN "web" ELSE "refused"
                [] phase = "web"     -> IF ok THEN "up" ELSE "stopping"
                [] OTHER             -> phase
  /\ lapsed' = (lapsed \/ (~ok /\ phase = "up" /\ \E i \in Ops : Incomplete(i)))
  /\ UNCHANGED <<repoVars, requestVars, journalVars, snap, applied, seen, overtaken>>

RecoverEnd == recovering /\ todo = {} /\ RecoverReturn(TRUE) /\ UNCHANGED stops

\* MixedRecovery, a row that another operation settled meanwhile, or a merge
\* whose pull request no longer admits completion: the first error ends it.
RecoverError(i) ==
  /\ recovering
  /\ i \in todo
  /\ \/ (\A j \in Ops : verdict[j] = "unread") /\ Decision(i) = "mixed"
     \/ verdict[i] = "abandon" /\ ~CanAbandon(i)
     \/ verdict[i] = "complete" /\ ~CanComplete(i)
  /\ RecoverReturn(FALSE)
  /\ UNCHANGED stops

\* An error of the database or the file system: the database cannot be opened, a ref
\* not read, a pack not removed, a row not updated.
RecoverFails ==
  /\ recovering \/ phase \in {"recover", "web"} \/ Failing # {}
  /\ stops < MaxStops
  /\ stops' = stops + 1
  /\ RecoverReturn(FALSE)

-----------------------------------------------------------------------------
(***************************************************************************)
(* Merge: PullRequestService::merge under the git_operations mutex.        *)
(***************************************************************************)

\* Mergeability of a revision and the commit its merge would put on the base.
MergeTarget(base, head) ==
  IF <<base, head>> \in Ancestry
    THEN {head} \ {base}
    ELSE {m \in Oids : <<base, head, m>> \in MergeCommits}

\* The reads of merge: an open pull request whose latest revision still is what
\* the base and the head branch point to, and a clean or fast-forward merge.
MergePlan(m, q) ==
  /\ WebServing
  /\ pc[m] = "idle"
  /\ ~MergeRunning
  /\ pr[q].state = "open"
  /\ refs[pr[q].base_ref] = pr[q].base
  /\ refs[pr[q].head_ref] = pr[q].head
  /\ \E target \in MergeTarget(pr[q].base, pr[q].head) :
       new' = [new EXCEPT ![m] = [refs EXCEPT ![pr[q].base_ref] = target]]
  /\ old' = [old EXCEPT ![m] = refs]
  /\ plan' = [plan EXCEPT ![m] = [pr |-> q, head |-> pr[q].head, rev |-> pr[q].rev]]
  /\ Goto(m, "checked")
  /\ UNCHANGED <<phase, repoVars, pack, journalVars, recoveryVars, stops, historyVars>>

\* begin_pull_request_merge checks the pull request again; the merge rows are
\* unique per pull request.
PlanCurrent(m) ==
  LET q == plan[m].pr IN
  /\ pr[q].state = "open"
  /\ pr[q].rev = plan[m].rev
  /\ \A n \in Merges : mergeRow[n] # q

MergeBegin(m) ==
  /\ pc[m] = "checked"
  /\ PlanCurrent(m)
  /\ BeginIntent(m)
  /\ mergeRow' = [mergeRow EXCEPT ![m] = plan[m].pr]
  /\ Goto(m, "pending")
  /\ Observe(refs, intent')
  /\ UNCHANGED <<phase, repoVars, requestVars, packName, events, pr, recoveryVars,
                 stops, applied, overtaken, lapsed>>

\* The pull request changed since it was read, or the database fails.
MergeRefused(m) ==
  /\ pc[m] = "checked"
  /\ Goto(m, "done")
  /\ UNCHANGED <<phase, repoVars, requestVars, journalVars, recoveryVars, stops, historyVars>>

\* write_merge_commit stores a merge commit as a loose object; a fast-forward
\* writes nothing.
MergeWrite(m) ==
  /\ pc[m] = "pending"
  /\ loose' = loose \cup ({new[m][r] : r \in Touched(m)} \ {plan[m].head})
  /\ Goto(m, "stored")
  /\ UNCHANGED <<phase, refs, packs, requestVars, journalVars, recoveryVars, stops,
                 historyVars>>

\* The merge commit cannot be written: the intent is abandoned.
MergeWriteFails(m) ==
  /\ pc[m] = "pending"
  /\ IF CanAbandon(m) THEN Abandon(m) ELSE UNCHANGED journalVars
  /\ Goto(m, "done")
  /\ UNCHANGED <<phase, repoVars, requestVars, recoveryVars, stops, historyVars>>

\* mark_git_objects_promoted, or its error when recovery abandoned the intent.
MergeMark(m) ==
  /\ pc[m] = "stored"
  /\ IF CanMark(m)
       THEN MarkPromoted(m, {}) /\ Goto(m, "promoted")
       ELSE UNCHANGED <<intent, packName>> /\ Goto(m, "done")
  /\ UNCHANGED <<phase, repoVars, requestVars, mergeRow, events, pr, recoveryVars,
                 stops, historyVars>>

\* Pushes that are not settled and have a ref in common with a merge.
Overtakes(m) == {p \in Pushes : (Active(p) \/ Incomplete(p)) /\ Touched(p) \cap Touched(m) # {}}

\* update_reference_with_log compares and swaps the base branch.
MergeApply(m) ==
  /\ pc[m] = "promoted"
  /\ AtInitial(m)
  /\ \A r \in Touched(m) : ~Locked(r)
  /\ refs' = [r \in Refs |-> IF r \in Touched(m) THEN new[m][r] ELSE refs[r]]
  /\ applied' = applied \cup {m}
  /\ overtaken' = overtaken \cup Overtakes(m)
  /\ Goto(m, "applied")
  /\ Observe(refs', intent)
  /\ UNCHANGED <<phase, loose, packs, requestVars, journalVars, recoveryVars, stops, lapsed>>

\* The base moved, a push holds its lock, or the file system fails.
MergeApplyFails(m) ==
  /\ pc[m] = "promoted"
  /\ Goto(m, "conflict")
  /\ UNCHANGED <<phase, repoVars, requestVars, journalVars, recoveryVars, stops, historyVars>>

\* After a failed swap the merge completes if the base is at its target, and
\* is abandoned if not; either way, and if that fails too, it returns an error.
MergeConflict(m) ==
  /\ pc[m] = "conflict"
  /\ \/ AtProposed(m) /\ CanComplete(m) /\ Complete(m)
     \/ ~AtProposed(m) /\ CanAbandon(m) /\ Abandon(m)
     \/ /\ IF AtProposed(m) THEN ~CanComplete(m) ELSE ~CanAbandon(m)
        /\ UNCHANGED journalVars
  /\ Goto(m, "done")
  /\ UNCHANGED <<phase, repoVars, requestVars, recoveryVars, stops, historyVars>>

\* A database or repository error (abandoning a merge whose commit was not written,
\* marking, reading the base after a failed swap, settling the intent) ends the merge
\* and leaves its intent to a later recovery.
MergeError(m) ==
  /\ pc[m] \in {"pending", "stored", "conflict", "applied"}
  /\ Goto(m, "done")
  /\ UNCHANGED <<phase, repoVars, requestVars, journalVars, recoveryVars, stops, historyVars>>

\* complete_git_intent; an error leaves the intent as it is, without recovery.
MergeComplete(m) ==
  /\ pc[m] = "applied"
  /\ IF CanComplete(m) THEN Complete(m) ELSE UNCHANGED journalVars
  /\ Goto(m, "done")
  /\ UNCHANGED <<phase, repoVars, requestVars, recoveryVars, stops, historyVars>>

-----------------------------------------------------------------------------
(***************************************************************************)
(* Pull requests as the merge protocol sees them.  Opening and revising    *)
(* hold git_operations throughout and appear as one step; setting the      *)
(* state takes no lock at all.                                             *)
(***************************************************************************)
OpenPr(q) ==
  /\ WebServing
  /\ ~MergeRunning
  /\ pr[q].state = "none"
  /\ \E b, h \in Refs :
       /\ refs[b] # NoOid /\ refs[h] # NoOid
       /\ pr' = [pr EXCEPT ![q] = [state |-> "open", base_ref |-> b, head_ref |-> h,
                                   base |-> refs[b], head |-> refs[h], rev |-> 1]]
  /\ UNCHANGED <<phase, repoVars, pc, requestVars, intent, packName, mergeRow, events,
                 recoveryVars, stops, historyVars>>

RevisePr(q) ==
  /\ WebServing
  /\ ~MergeRunning
  /\ pr[q].state = "open"
  /\ pr[q].rev < MaxRevisions
  /\ LET b == refs[pr[q].base_ref]
         h == refs[pr[q].head_ref]
     IN /\ b # NoOid /\ h # NoOid
        /\ b # pr[q].base \/ h # pr[q].head
        /\ pr' = [pr EXCEPT ![q].base = b, ![q].head = h, ![q].rev = @ + 1]
  /\ UNCHANGED <<phase, repoVars, pc, requestVars, intent, packName, mergeRow, events,
                 recoveryVars, stops, historyVars>>

\* set_pull_request_state.
SetPrState(q, state) ==
  /\ WebServing
  /\ pr[q].state \notin {"none", "merged", state}
  /\ pr' = [pr EXCEPT ![q].state = state]
  /\ UNCHANGED <<phase, repoVars, pc, requestVars, intent, packName, mergeRow, events,
                 recoveryVars, stops, historyVars>>

-----------------------------------------------------------------------------
(***************************************************************************)
(* The server process.                                                     *)
(***************************************************************************)

\* The process dies: every operation in flight stops where it is.  That a closure of a
\* server that returned may run on beside the next process is in ServerLifecycle.
Crash ==
  /\ phase \notin {"down", "refused"}
  /\ stops < MaxStops
  /\ stops' = stops + 1
  /\ phase' = "down"
  /\ pc' = [i \in Ops |-> IF Active(i) THEN "done" ELSE pc[i]]
  /\ recovering' = FALSE
  /\ todo' = {}
  /\ verdict' = [i \in Ops |-> "unread"]
  /\ UNCHANGED <<repoVars, requestVars, journalVars, snap, historyVars>>

\* SIGTERM: no new request, those in flight are drained (a drain that runs into
\* its time limit is a Crash).
Shutdown ==
  /\ phase = "up"
  /\ stops < MaxStops
  /\ stops' = stops + 1
  /\ phase' = "stopping"
  /\ UNCHANGED <<repoVars, pc, requestVars, journalVars, recoveryVars, historyVars>>

Drained ==
  /\ phase = "stopping"
  /\ ~PushRunning /\ ~MergeRunning /\ ~recovering
  /\ phase' = "down"
  /\ UNCHANGED <<repoVars, pc, requestVars, journalVars, recoveryVars, stops, historyVars>>

Start ==
  /\ phase \in {"down", "refused"}
  /\ phase' = "recover"
  /\ UNCHANGED <<repoVars, pc, requestVars, journalVars, recoveryVars, stops, historyVars>>

PushStep(p) ==
  \/ PushBegin(p) \/ PushRefused(p) \/ PushStore(p) \/ PushMark(p) \/ PushLock(p)
  \/ \E r \in Refs : PushWriteRef(p, r)
  \/ PushComplete(p) \/ PushFail(p)

MergeStep(m) ==
  \/ MergeBegin(m) \/ MergeRefused(m) \/ MergeWrite(m) \/ MergeWriteFails(m)
  \/ MergeMark(m) \/ MergeError(m) \/ MergeApply(m) \/ MergeApplyFails(m) \/ MergeConflict(m) \/ MergeComplete(m)

RecoverStep ==
  \/ RecoverList \/ RecoverEnd
  \/ \E i \in Ops : \/ RecoverRead(i) \/ RecoverDiscard(i)
                    \/ RecoverSettle(i) \/ RecoverError(i)

Next ==
  \/ \E p \in Pushes : PushCheck(p) \/ PushStep(p)
  \/ \E m \in Merges : MergeStep(m) \/ \E q \in PullRequests : MergePlan(m, q)
  \/ RecoverStep \/ RecoverFails
  \/ \E q \in PullRequests :
       OpenPr(q) \/ RevisePr(q) \/ \E s \in {"open", "closed"} : SetPrState(q, s)
  \/ Crash \/ Shutdown \/ Drained \/ Start

Spec == Init /\ [][Next]_vars

(***************************************************************************)
(* Fairness: the threads of a running server are scheduled, a stopped      *)
(* server is started again by its supervisor, and a drain ends.            *)
(***************************************************************************)
Fairness ==
  /\ \A p \in Pushes : WF_vars(PushStep(p))
  /\ \A m \in Merges : WF_vars(MergeStep(m))
  /\ WF_vars(RecoverStep)
  /\ WF_vars(Drained)
  /\ WF_vars(Start)
FairSpec == Spec /\ Fairness

-----------------------------------------------------------------------------
(***************************************************************************)
(* Properties.                                                             *)
(***************************************************************************)

\* Every variable has its type.
TypeOK ==
  /\ phase \in Phases
  /\ refs \in [Refs -> Targets]
  /\ loose \in SUBSET Oids
  /\ packs \in SUBSET SUBSET Oids
  /\ pc \in [Ops -> Stages]
  /\ old \in [Ops -> [Refs -> Targets]]
  /\ new \in [Ops -> [Refs -> Targets]]
  /\ pack \in [Ops -> SUBSET Oids]
  /\ plan \in [Merges -> Plans]
  /\ intent \in [Ops -> IntentStates]
  /\ packName \in [Ops -> SUBSET Oids]
  /\ mergeRow \in [Merges -> PullRequests \cup {NoPr}]
  /\ events \in SUBSET Ops
  /\ pr \in [PullRequests -> PrRows]
  /\ recovering \in BOOLEAN
  /\ todo \in SUBSET Ops
  /\ snap \in [Ops -> IntentStates]
  /\ verdict \in [Ops -> Verdicts]
  /\ stops \in Nat
  /\ applied \in SUBSET Ops
  /\ seen \in SUBSET Ops
  /\ overtaken \in SUBSET Pushes
  /\ lapsed \in BOOLEAN

\* No step of a push, a merge or a recovery ever moves a branch to a commit
\* that does not contain the one it pointed to: the fast-forward check made
\* when the push was validated still holds when the ref is written.
NoForceUpdate ==
  [][\A r \in Refs :
       refs[r] # NoOid /\ refs'[r] # NoOid => <<refs[r], refs'[r]>> \in Ancestry]_vars

\* Once the default branch exists no step removes it, whatever is pushed and
\* wherever the server stops: the deletion refused by authorize_ref_change
\* does not come back through a recovery or a merge.
DefaultBranchKept == [][refs[Default] # NoOid => refs'[Default] # NoOid]_vars

\* The two rules of validate_policy, kept by every later step of every actor.
RefRulesKept == NoForceUpdate /\ DefaultBranchKept

\* Every branch can be read: the commits it reaches are in the object store,
\* although recovery removes the packs of the pushes it abandons.  Two things in the
\* code can break it, and both are remembered: a failed push's recovery fails too and
\* leaves its rows to be judged after later pushes, or a merge swaps a ref of a push
\* that is not settled.
RefsReadable == \A r \in Refs : refs[r] # NoOid => Closure(refs[r]) \subseteq Objects
RefsHaveObjects == ~lapsed /\ overtaken = {} => RefsReadable

\* A push or merge that moved all its refs is never abandoned: its intent stays
\* promoted until the event is written, again if no recovery lapsed.
AppliedIsRecorded == ~lapsed => \A i \in applied : intent[i] \in {"promoted", "completed"}

\* A push whose refs all moved keeps what it moved, whatever merges, recoveries and
\* other pushes do beside it: its event is written or still due, and the commits it put
\* on its branches stay in the store.  The exception is the push itself having been
\* overtaken: a merge moved one of its refs before its event was written, and the
\* recovery no longer finds them where the push put them.
KeptUnlessOvertaken ==
  ~lapsed => \A p \in (applied \cap Pushes) \ overtaken :
    /\ intent[p] \in {"promoted", "completed"}
    /\ \A r \in Touched(p) : Closure(new[p][r]) \subseteq Objects

\* No event without its ref change: whoever writes the event (the operation,
\* a later recovery, a merge that lost the swap), the proposed refs were in
\* place at some moment after the intent was begun.
EventsAreReal == \A i \in events : i \in seen /\ intent[i] = "completed"

\* A merged pull request has one completed merge of exactly its latest
\* revision, and the base branch did reach that merge's target.
MergedIsReal ==
  \A q \in PullRequests : pr[q].state = "merged" =>
    \E m \in Merges : /\ intent[m] = "completed" /\ mergeRow[m] = q
                      /\ plan[m].rev = pr[q].rev /\ plan[m].head = pr[q].head
                      /\ m \in seen

\* A merge row belongs to an intent that is still open or completed, and no
\* pull request has two: an abandoned merge never blocks the next one.
MergeRowsLive ==
  /\ \A m \in Merges : mergeRow[m] # NoPr =>
       intent[m] \in {"pending", "promoted", "completed"}
  /\ \A m, n \in Merges : mergeRow[m] = mergeRow[n] /\ mergeRow[m] # NoPr => m = n

\* Startup recovery never gives up, so the server can always start.  The code does
\* not promise it: MixedRecovery after a push that was cut in two.
StartupNotRefused == phase # "refused"

\* A push of several refs ended with some of them moved and others not.
CutInTwo(p) ==
  pc[p] = "done" /\ Incomplete(p) /\ ~SingleRef(p) /\ ~AtInitial(p) /\ ~AtProposed(p)
NoneCutInTwo == [](\A p \in Pushes : ~CutInTwo(p))

\* Every intent is settled in the end, by its operation or by a recovery, unless
\* a push was cut in two, whose MixedRecovery stops the recovery of all the others,
\* or a recovery lapsed, after which the rows wait for the next one.
IntentsSettle == NoneCutInTwo /\ []~lapsed => \A i \in Ops : Incomplete(i) ~> ~Incomplete(i)
=============================================================================
