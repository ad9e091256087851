--------------------------- MODULE PullRequestRefs ---------------------------
(***************************************************************************)
(* Opening and revising pull requests.  The head of pull request N is kept *)
(* twice: in SQLite (its row and its numbered revisions) and in Git (the   *)
(* ref refs/pull/N/head).  A pull_request_ref_intent row ties the writes   *)
(* together; recover_inner settles what an earlier operation left behind,  *)
(* at the start of every pull-request operation and at server start.       *)
(*                                                                         *)
(* Sources: src/pull_request.rs, src/store/mod.rs.                         *)
(*                                                                         *)
(* Operations run under the git_operations mutex, except closing and       *)
(* reopening (set_state), pushes that move the branches, and the recovery  *)
(* of an unfinished merge by a failing push.                               *)
(***************************************************************************)
EXTENDS Integers, FiniteSets, FiniteSetsExt

CONSTANTS
  Requests,         \* web requests; each is served once and owns one intent id
  Kinds,            \* the operations they may be: "open", "revise", "merge", "read"
  MaxNumber,        \* bound on the pull-request numbers
  Oids,             \* commits
  NoOid,            \* no such ref
  MaxStateChanges,  \* bound on closing and reopening
  MaxMoves,         \* bound on pushes to the base and head branches
  MaxMergeErrors,   \* bound on merges that fail after their intent was written
  MaxStops          \* bound on crashes and shutdowns

Numbers == 1..MaxNumber

ASSUME NumberAssumption == MaxNumber \in Nat
ASSUME KindAssumption == Kinds \subseteq {"open", "revise", "merge", "read"}
ASSUME OidAssumption == NoOid \notin Oids
ASSUME BoundAssumption ==
  /\ MaxStateChanges \in Nat /\ MaxMoves \in Nat
  /\ MaxMergeErrors \in Nat /\ MaxStops \in Nat

VARIABLES
  phase,      \* the server process: "up", "down", "recover" or "refused"
  base, tip,  \* the base branch and the head branch
  ref,        \* refs/pull/N/head
  next,       \* repository_counter.next_pull_request_number
  pr,         \* pull_request rows
  revisions,  \* pull_request_revision rows of each pull request
  created,    \* pull requests with a pull-request-created event
  intent,     \* pull_request_ref_intent rows, by request
  pc, kind,   \* where each request is and what it does
  seen,       \* the branches a request resolved: its number, base and head
  mergeLeft,  \* revision of the unfinished merge intent of a pull request, or 0
  changes, moves, errors, stops  \* how often the bounded actions happened

requestVars == <<pc, kind, seen>>
rowVars == <<next, pr, revisions, created, intent>>
boundVars == <<changes, moves, errors, stops>>
vars == <<phase, base, tip, ref, rowVars, requestVars, mergeLeft, boundVars>>

Stages == {"idle", "recover", "ready", "read", "begun", "applied", "unapplied", "done"}
PrStates == {"none", "open", "closed", "merged"}
Commits == Oids \cup {NoOid}
Seen == [number : Numbers \cup {0}, base : Commits, head : Commits]
PrRows == [state : PrStates, base : Commits, head : Commits]
Revisions == [number : Nat, base : Commits, head : Commits]
Intents == [state : {"none", "pending", "completed", "abandoned"}, op : {"open", "revise"},
            number : Numbers \cup {0}, rev : Nat, old : Commits, base : Commits, head : Commits]
NoIntent == [state |-> "none", op |-> "open", number |-> 0, rev |-> 0,
             old |-> NoOid, base |-> NoOid, head |-> NoOid]

Pending == {r \in Requests : intent[r].state = "pending"}
Holding == {r \in Requests : pc[r] \notin {"idle", "done"}}  \* the git_operations mutex
Latest(n) == Max({v.number : v \in revisions[n]} \cup {0})  \* COALESCE(MAX(number), 0)
Goto(r, stage) == pc' = [pc EXCEPT ![r] = stage]

Init ==
  /\ phase = "up"
  /\ base \in Oids
  /\ tip \in Oids
  /\ ref = [n \in Numbers |-> NoOid]
  /\ next = 1
  /\ pr = [n \in Numbers |-> [state |-> "none", base |-> NoOid, head |-> NoOid]]
  /\ revisions = [n \in Numbers |-> {}]
  /\ created = {}
  /\ intent = [r \in Requests |-> NoIntent]
  /\ pc = [r \in Requests |-> "idle"]
  /\ kind = [r \in Requests |-> "read"]
  /\ seen = [r \in Requests |-> [number |-> 0, base |-> NoOid, head |-> NoOid]]
  /\ mergeLeft = [n \in Numbers |-> 0]
  /\ changes = 0 /\ moves = 0 /\ errors = 0 /\ stops = 0

-----------------------------------------------------------------------------
(***************************************************************************)
(* The store transactions.                                                 *)
(***************************************************************************)

\* Mutant: the UPDATE of a revision does not ask for an open pull request.
CanCompleteAnyState(i) ==
  /\ intent[i].state = "pending"
  /\ intent[i].op = "revise" => pr[intent[i].number].head = intent[i].old

\* complete_pull_request_ref_intent: a revision applies to an open pull request
\* whose head is still the one the intent recorded, and its number is new (the
\* table has UNIQUE (pull_request_id, number)).
CanComplete(i) ==
  LET it == intent[i] IN
  /\ it.state = "pending"
  /\ \A v \in revisions[it.number] : v.number # it.rev
  /\ it.op = "revise" => pr[it.number].state = "open" /\ pr[it.number].head = it.old

Complete(i) ==
  LET it == intent[i] IN
  /\ pr' = [pr EXCEPT ![it.number] = [state |-> "open", base |-> it.base, head |-> it.head]]
  /\ revisions' = [revisions EXCEPT ![it.number] = @ \cup
       {[number |-> it.rev, base |-> it.base, head |-> it.head]}]
  /\ created' = IF it.op = "open" THEN created \cup {it.number} ELSE created
  /\ intent' = [intent EXCEPT ![i].state = "completed"]

-----------------------------------------------------------------------------
(***************************************************************************)
(* Every operation takes the mutex and settles the pending intents first.  *)
(***************************************************************************)
Enter(r) ==
  /\ phase = "up"
  /\ pc[r] = "idle"
  /\ Holding = {}
  /\ \E k \in Kinds : kind' = [kind EXCEPT ![r] = k]
  /\ Goto(r, "recover")
  /\ UNCHANGED <<phase, base, tip, ref, rowVars, seen, mergeLeft, boundVars>>

\* recover_inner is running: in an operation, or at server start.
Recovering == phase = "recover" \/ \E r \in Holding : pc[r] = "recover"

\* Mutant: only the refs of new pull requests are moved by recovery.
RecoverWriteRefOpenOnly(i) ==
  /\ Recovering
  /\ intent[i].state = "pending"
  /\ intent[i].op = "open"
  /\ ref[intent[i].number] = intent[i].old
  /\ ref' = [ref EXCEPT ![intent[i].number] = intent[i].head]
  /\ UNCHANGED <<phase, base, tip, rowVars, requestVars, mergeLeft, boundVars>>

\* recover_intent, the ref not moved yet: move it, complete in the next step.
RecoverWriteRef(i) ==
  /\ Recovering
  /\ intent[i].state = "pending"
  /\ ref[intent[i].number] # intent[i].head
  /\ ref[intent[i].number] = intent[i].old
  /\ ref' = [ref EXCEPT ![intent[i].number] = intent[i].head]
  /\ UNCHANGED <<phase, base, tip, rowVars, requestVars, mergeLeft, boundVars>>

\* recover_intent, the ref in place.
RecoverComplete(i) ==
  /\ Recovering
  /\ CanComplete(i)
  /\ ref[intent[i].number] = intent[i].head
  /\ Complete(i)
  /\ UNCHANGED <<phase, base, tip, ref, next, requestVars, mergeLeft, boundVars>>

\* The intent cannot be completed (PullRequestIntentState) or its ref is neither
\* old nor new (MixedRecovery): the operation fails, or the server does not start.
RecoverFails(i) ==
  /\ Recovering
  /\ intent[i].state = "pending"
  /\ IF ref[intent[i].number] = intent[i].head
       THEN ~CanComplete(i)
       ELSE ref[intent[i].number] # intent[i].old
  /\ IF phase = "recover"
       THEN phase' = "refused" /\ UNCHANGED pc
       ELSE pc' = [r \in Requests |-> IF pc[r] = "recover" THEN "done" ELSE pc[r]]
            /\ UNCHANGED phase
  /\ UNCHANGED <<base, tip, ref, rowVars, kind, seen, mergeLeft, boundVars>>

\* Mutant: the operation goes on with an intent still pending.
RecoverEndEarly(r) ==
  /\ pc[r] = "recover"
  /\ Goto(r, IF kind[r] = "read" THEN "done" ELSE "ready")
  /\ UNCHANGED <<phase, base, tip, ref, rowVars, kind, seen, mergeLeft, boundVars>>

RecoverEnd(r) ==
  /\ pc[r] = "recover"
  /\ Pending = {}
  /\ Goto(r, IF kind[r] = "read" THEN "done" ELSE "ready")
  /\ UNCHANGED <<phase, base, tip, ref, rowVars, kind, seen, mergeLeft, boundVars>>

\* A read error, a refusal or a store error before anything is written.
RequestFails(r) ==
  /\ pc[r] \in {"recover", "ready", "read"}
  /\ Goto(r, "done")
  /\ UNCHANGED <<phase, base, tip, ref, rowVars, kind, seen, mergeLeft, boundVars>>

-----------------------------------------------------------------------------
(***************************************************************************)
(* open and revise                                                         *)
(***************************************************************************)
OpenRead(r) ==
  /\ pc[r] = "ready"
  /\ kind[r] = "open"
  /\ seen' = [seen EXCEPT ![r] = [number |-> 0, base |-> base, head |-> tip]]
  /\ Goto(r, "read")
  /\ UNCHANGED <<phase, base, tip, ref, rowVars, kind, mergeLeft, boundVars>>

\* begin_pull_request_open allocates the number in the same transaction.
OpenBegin(r) ==
  /\ pc[r] = "read"
  /\ kind[r] = "open"
  /\ next \in Numbers
  /\ next' = next + 1
  /\ intent' = [intent EXCEPT ![r] =
       [state |-> "pending", op |-> "open", number |-> next, rev |-> 1,
        old |-> NoOid, base |-> seen[r].base, head |-> seen[r].head]]
  /\ Goto(r, "begun")
  /\ UNCHANGED <<phase, base, tip, ref, pr, revisions, created, kind, seen, mergeLeft, boundVars>>

\* The pull request is open and one of its branches moved (Unchanged otherwise).
ReviseRead(r) ==
  /\ pc[r] = "ready"
  /\ kind[r] = "revise"
  /\ \E n \in Numbers :
       /\ pr[n].state = "open"
       /\ <<pr[n].base, pr[n].head>> # <<base, tip>>
       /\ seen' = [seen EXCEPT ![r] = [number |-> n, base |-> base, head |-> tip]]
  /\ Goto(r, "read")
  /\ UNCHANGED <<phase, base, tip, ref, rowVars, kind, mergeLeft, boundVars>>

\* Mutant: the revision is numbered by the intents so far, abandoned ones too.
ReviseBeginCounts(r) ==
  LET n == seen[r].number IN
  /\ pc[r] = "read"
  /\ kind[r] = "revise"
  /\ pr[n].state = "open"
  /\ intent' = [intent EXCEPT ![r] =
       [state |-> "pending", op |-> "revise", number |-> n,
        rev |-> Cardinality({i \in Requests : intent[i].number = n}) + 1,
        old |-> pr[n].head, base |-> seen[r].base, head |-> seen[r].head]]
  /\ Goto(r, "begun")
  /\ UNCHANGED <<phase, base, tip, ref, next, pr, revisions, created, kind, seen,
                 mergeLeft, boundVars>>

\* begin_pull_request_revision: still open; the old head and the number of the
\* revision are those of the table.
ReviseBegin(r) ==
  LET n == seen[r].number IN
  /\ pc[r] = "read"
  /\ kind[r] = "revise"
  /\ pr[n].state = "open"
  /\ intent' = [intent EXCEPT ![r] =
       [state |-> "pending", op |-> "revise", number |-> n, rev |-> Latest(n) + 1,
        old |-> pr[n].head, base |-> seen[r].base, head |-> seen[r].head]]
  /\ Goto(r, "begun")
  /\ UNCHANGED <<phase, base, tip, ref, next, pr, revisions, created, kind, seen,
                 mergeLeft, boundVars>>

\* apply_intent: update_reference expects the old head.
ApplyRef(r) ==
  LET it == intent[r] IN
  /\ pc[r] = "begun"
  /\ ref[it.number] = it.old
  /\ ref' = [ref EXCEPT ![it.number] = it.head]
  /\ Goto(r, "applied")
  /\ UNCHANGED <<phase, base, tip, rowVars, kind, seen, mergeLeft, boundVars>>

\* Mutant: the error of update_reference is ignored.
ApplyRefFailsIgnored(r) ==
  /\ pc[r] = "begun"
  /\ Goto(r, "applied")
  /\ UNCHANGED <<phase, base, tip, ref, rowVars, kind, seen, mergeLeft, boundVars>>

ApplyRefFails(r) ==
  /\ pc[r] = "begun"
  /\ Goto(r, "unapplied")
  /\ UNCHANGED <<phase, base, tip, ref, rowVars, kind, seen, mergeLeft, boundVars>>

\* The ref was not written: it is at the new head anyway (only the base moved),
\* or at the old one and the intent is abandoned.
Unapplied(r) ==
  LET it == intent[r] IN
  /\ pc[r] = "unapplied"
  /\ IF ref[it.number] = it.head
       THEN CanComplete(r) /\ Complete(r)
       ELSE /\ ref[it.number] = it.old
            /\ intent' = [intent EXCEPT ![r].state = "abandoned"]
            /\ UNCHANGED <<pr, revisions, created>>
  /\ Goto(r, "done")
  /\ UNCHANGED <<phase, base, tip, ref, next, kind, seen, mergeLeft, boundVars>>

Applied(r) ==
  /\ pc[r] = "applied"
  /\ CanComplete(r)
  /\ Complete(r)
  /\ Goto(r, "done")
  /\ UNCHANGED <<phase, base, tip, ref, next, kind, seen, mergeLeft, boundVars>>

\* The last transaction fails or refuses: the intent stays pending.
FinishFails(r) ==
  /\ pc[r] \in {"applied", "unapplied"}
  /\ Goto(r, "done")
  /\ UNCHANGED <<phase, base, tip, ref, rowVars, kind, seen, mergeLeft, boundVars>>

-----------------------------------------------------------------------------
(***************************************************************************)
(* What happens around them.  A merge is modelled by its effect on the     *)
(* row; module GitOperations has its steps.                                *)
(***************************************************************************)
Merge(r) ==
  /\ pc[r] = "ready"
  /\ kind[r] = "merge"
  /\ \E n \in Numbers :
       /\ pr[n].state = "open"
       /\ mergeLeft[n] = 0
       /\ <<pr[n].base, pr[n].head>> = <<base, tip>>
       /\ \/ /\ pr' = [pr EXCEPT ![n].state = "merged"]
             /\ UNCHANGED <<mergeLeft, errors>>
          \/ /\ errors < MaxMergeErrors
             /\ errors' = errors + 1
             /\ mergeLeft' = [mergeLeft EXCEPT ![n] = Latest(n)]
             /\ UNCHANGED pr
  /\ Goto(r, "done")
  /\ UNCHANGED <<phase, base, tip, ref, next, revisions, created, intent, kind, seen,
                 changes, moves, stops>>

\* recover_incomplete_pushes, by a failing push or at server start.
MergeRecovered(n) ==
  /\ phase \in {"up", "recover"}
  /\ mergeLeft[n] # 0
  /\ \/ /\ pr[n].state = "open" /\ Latest(n) = mergeLeft[n]
        /\ pr' = [pr EXCEPT ![n].state = "merged"]
     \/ UNCHANGED pr
  /\ mergeLeft' = [mergeLeft EXCEPT ![n] = 0]
  /\ UNCHANGED <<phase, base, tip, ref, next, revisions, created, intent, requestVars, boundVars>>

\* set_pull_request_state: no mutex, no look at the intents.
SetState(n) ==
  /\ phase = "up"
  /\ changes < MaxStateChanges
  /\ pr[n].state \in {"open", "closed"}
  /\ pr' = [pr EXCEPT ![n].state = IF @ = "open" THEN "closed" ELSE "open"]
  /\ changes' = changes + 1
  /\ UNCHANGED <<phase, base, tip, ref, next, revisions, created, intent, requestVars,
                 mergeLeft, moves, errors, stops>>

MoveBranch ==
  /\ phase = "up"
  /\ moves < MaxMoves
  /\ moves' = moves + 1
  /\ \/ base' \in Oids \ {base} /\ UNCHANGED tip
     \/ tip' \in Oids \ {tip} /\ UNCHANGED base
  /\ UNCHANGED <<phase, ref, rowVars, requestVars, mergeLeft, changes, errors, stops>>

Stop ==
  /\ phase \in {"up", "recover"}
  /\ stops < MaxStops
  /\ stops' = stops + 1
  /\ phase' = "down"
  /\ pc' = [r \in Requests |-> IF pc[r] = "idle" THEN "idle" ELSE "done"]
  /\ UNCHANGED <<base, tip, ref, rowVars, kind, seen, mergeLeft, changes, moves, errors>>

Start ==
  /\ phase = "down"
  /\ phase' = "recover"
  /\ UNCHANGED <<base, tip, ref, rowVars, requestVars, mergeLeft, boundVars>>

StartEnd ==
  /\ phase = "recover"
  /\ Pending = {}
  /\ phase' = "up"
  /\ UNCHANGED <<base, tip, ref, rowVars, requestVars, mergeLeft, boundVars>>

Recover == \E i \in Requests : RecoverWriteRef(i) \/ RecoverComplete(i) \/ RecoverFails(i)
Work(r) ==
  \/ RecoverEnd(r) \/ OpenRead(r) \/ OpenBegin(r) \/ ReviseRead(r) \/ ReviseBegin(r)
  \/ ApplyRef(r) \/ Unapplied(r) \/ Applied(r) \/ Merge(r)
Fails(r) == RequestFails(r) \/ ApplyRefFails(r) \/ FinishFails(r)

Next ==
  \/ \E r \in Requests : Enter(r) \/ Work(r) \/ Fails(r)
  \/ \E n \in Numbers : MergeRecovered(n) \/ SetState(n)
  \/ Recover \/ MoveBranch \/ Stop \/ Start \/ StartEnd

Spec == Init /\ [][Next]_vars
\* A request that entered goes on to return, and a stopped server is started.
FairSpec ==
  /\ Spec
  /\ WF_vars(Recover) /\ WF_vars(Start) /\ WF_vars(StartEnd)
  /\ \A r \in Requests : WF_vars(Work(r) \/ Fails(r))

-----------------------------------------------------------------------------
TypeOK ==
  /\ phase \in {"up", "down", "recover", "refused"}
  /\ base \in Oids /\ tip \in Oids
  /\ ref \in [Numbers -> Commits]
  /\ next \in Nat
  /\ pr \in [Numbers -> PrRows]
  /\ revisions \in [Numbers -> SUBSET Revisions]
  /\ created \subseteq Numbers
  /\ intent \in [Requests -> Intents]
  /\ pc \in [Requests -> Stages]
  /\ kind \in [Requests -> {"open", "revise", "merge", "read"}]
  /\ seen \in [Requests -> Seen]
  /\ mergeLeft \in [Numbers -> Nat]
  /\ changes \in Nat /\ moves \in Nat /\ errors \in Nat /\ stops \in Nat

\* refs/pull/N/head is the head of the row whenever no intent of N is pending;
\* a number whose opening was abandoned has neither.
HeadRefMatches ==
  \A n \in Numbers : (\A i \in Pending : intent[i].number # n) => ref[n] = pr[n].head

\* The revisions are numbered 1, 2, ... without gap or repetition, and the last
\* one is what the row says; there is a created event exactly when there is a row.
RevisionsTell ==
  \A n \in Numbers :
    /\ {v.number : v \in revisions[n]} = 1..Latest(n)
    /\ \A v, w \in revisions[n] : v.number = w.number => v = w
    /\ pr[n].state # "none" <=> n \in created
    /\ n \in created =>
         [number |-> Latest(n), base |-> pr[n].base, head |-> pr[n].head] \in revisions[n]

\* An operation begins its intent only after every other one is settled, so at
\* most one is pending in the whole instance and recovery never has two to order.
OnePending == \A i, j \in Pending : i = j

\* A pull request that is merged keeps its state, its head and its revisions,
\* whatever intent is recovered later.
MergedIsFinal ==
  [][\A n \in Numbers : pr[n].state = "merged" =>
       pr'[n] = pr[n] /\ revisions'[n] = revisions[n]]_vars

\* No pull request is closed or merged under a revision of it.
NoneClosedUnder ==
  [](\A i \in Pending : intent[i].op = "revise" => pr[intent[i].number].state = "open")

\* Every intent that an operation or a kill left behind is settled by the next
\* start, unless its pull request was closed meanwhile.
IntentsSettle == NoneClosedUnder =>
  \A i \in Requests : phase \in {"down", "recover"} /\ i \in Pending ~> i \notin Pending

\* Recovery at server start settles what an interrupted operation left.
StartupNotRefused == phase # "refused"
=============================================================================
