----------------------- MODULE PullRequestRefsProofs -----------------------
(***************************************************************************)
(* Opening and revising pull requests, for any requests, numbers and       *)
(* commits: one intent is pending at a time, the head of a pull request is *)
(* the same in Git and in SQLite once its intent is settled, the revisions *)
(* are numbered without a gap, and a merge is final.                       *)
(***************************************************************************)
EXTENDS PullRequestRefs, TLAPS

-----------------------------------------------------------------------------
(***************************************************************************)
(* The inductive invariant                                                 *)
(***************************************************************************)

\* A revision has resolved the pull request it is of, an intent is of a number.
SeenNumber == \A r \in Requests : pc[r] = "read" /\ kind[r] = "revise" => seen[r].number \in Numbers
PendingNumber == \A i \in Pending : intent[i].number \in Numbers

\* COALESCE(MAX(number), 0) is a maximum: no revision has a greater number.
RevisionNumbers(n) == {v.number : v \in revisions[n]} \cup {0}
IsMax(x, S) == x \in S /\ \A y \in S : x >= y
LatestIsMax == \A n \in Numbers : IsMax(Latest(n), RevisionNumbers(n))

TypeInv == TypeOK /\ SeenNumber /\ PendingNumber /\ LatestIsMax

\* git_operations is a mutex, and requests run only while the server is up.
Mutex == \A r, s \in Holding : r = s
HolderUp == Holding # {} => phase = "up"

\* Past recover_inner, and before its own intent, a request finds none pending.
Settled == \A r \in Requests : pc[r] \in {"ready", "read"} => Pending = {}

\* From begin to finish the intent of the request is pending.
Begun == \A r \in Requests : pc[r] \in {"begun", "applied", "unapplied"} => r \in Pending

MutexInv == TypeInv /\ Mutex /\ HolderUp /\ Settled /\ Begun /\ OnePending

\* After update_reference the ref is at the new head.
AppliedMoved == \A r \in Requests : pc[r] = "applied" => ref[intent[r].number] = intent[r].head

\* What a pending intent says of its pull request: the ref is at the old or the new
\* head, the row still has the old one, and the revision is the next one.
IntentTells ==
  \A i \in Pending :
    LET it == intent[i] IN
    /\ it.number < next
    /\ ref[it.number] \in {it.old, it.head}
    /\ pr[it.number].head = it.old
    /\ it.rev = Latest(it.number) + 1
    /\ it.op = "open" <=> it.number \notin created

\* A number that has no row, because its opening did not complete, has nothing.
NothingYet ==
  \A n \in Numbers :
    /\ n \notin created => pr[n].head = NoOid /\ revisions[n] = {}
    /\ n >= next => n \notin created

HeadInv ==
  /\ MutexInv
  /\ AppliedMoved /\ IntentTells /\ NothingYet
  /\ HeadRefMatches /\ RevisionsTell

-----------------------------------------------------------------------------
(***************************************************************************)
(* Rows                                                                    *)
(***************************************************************************)

\* A greatest element of a set of numbers is the one that Max chooses.
LEMMA MaxIs ==
  ASSUME NEW S \in SUBSET Nat, NEW x, IsMax(x, S)
  PROVE  Max(S) = x
<1>1. x \in S /\ x \in Nat /\ \A y \in S : x >= y
  BY DEF IsMax
<1>2. Max(S) \in S /\ \A y \in S : Max(S) >= y
  BY <1>1 DEF Max
<1>3. Max(S) \in Nat /\ Max(S) >= x /\ x >= Max(S)
  BY <1>1, <1>2
<1> QED
  BY <1>1, <1>3

\* One more number in a set that has a greatest element.
LEMMA MaxAdd ==
  ASSUME NEW S \in SUBSET Nat, IsMax(Max(S), S), NEW x \in Nat
  PROVE  IsMax(Max(S \cup {x}), S \cup {x})
<1>1. PICK m : m = Max(S)
  OBVIOUS
<1>2. m \in S /\ m \in Nat /\ \A y \in S : m >= y /\ y \in Nat
  BY <1>1 DEF IsMax
<1>3. PICK z \in {m, x} : z >= m /\ z >= x
  BY <1>2
<1>4. \A y \in S : z >= y
  BY <1>2, <1>3
<1>5. IsMax(z, S \cup {x})
  BY <1>2, <1>3, <1>4 DEF IsMax
<1>6. S \cup {x} \in SUBSET Nat
  OBVIOUS
<1> QED
  BY <1>5, <1>6, MaxIs

\* The number of the latest revision is a natural number.
LEMMA LatestNat ==
  ASSUME TypeInv, NEW n \in Numbers
  PROVE  /\ Latest(n) \in Nat /\ Latest(n) = Max(RevisionNumbers(n))
         /\ RevisionNumbers(n) \in SUBSET Nat
<1>1. RevisionNumbers(n) \in SUBSET Nat
  BY DEF TypeInv, TypeOK, Revisions, RevisionNumbers
<1> QED
  BY <1>1 DEF TypeInv, LatestIsMax, IsMax, Latest, RevisionNumbers

\* An intent is closed: its other fields and the other intents stay.
LEMMA IntentClosed ==
  ASSUME intent \in [Requests -> Intents], NEW i \in Requests, NEW state \in {"completed", "abandoned"},
         intent' = [intent EXCEPT ![i].state = state]
  PROVE  /\ intent' \in [Requests -> Intents]
         /\ Pending' = Pending \ {i}
         /\ \A j \in Pending' : intent'[j] = intent[j]
<1> DEFINE row == [intent[i] EXCEPT !.state = state]
<1>1. intent[i] \in Intents
  OBVIOUS
<1>2. row \in Intents /\ row.state = state
  BY <1>1 DEF Intents
<1>3. intent' = [intent EXCEPT ![i] = row]
  OBVIOUS
<1> HIDE DEF row
<1>4. intent'[i] = row /\ \A j \in Requests \ {i} : intent'[j] = intent[j]
  BY <1>3
<1> QED
  BY <1>2, <1>3, <1>4 DEF Pending

\* An intent is begun by a request.
LEMMA IntentBegun ==
  ASSUME intent \in [Requests -> Intents], NEW r \in Requests, NEW row \in Intents, row.state = "pending",
         intent' = [intent EXCEPT ![r] = row]
  PROVE  /\ intent' \in [Requests -> Intents]
         /\ Pending' = Pending \cup {r}
         /\ intent'[r] = row /\ \A j \in Requests \ {r} : intent'[j] = intent[j]
  BY DEF Pending

\* The state of a row changes, and nothing else of it.
LEMMA StateChanged ==
  ASSUME pr \in [Numbers -> PrRows], NEW n \in Numbers, NEW state \in PrStates,
         pr' = [pr EXCEPT ![n].state = state]
  PROVE  /\ pr' \in [Numbers -> PrRows]
         /\ pr'[n].state = state /\ pr'[n].head = pr[n].head /\ pr'[n].base = pr[n].base
         /\ \A m \in Numbers \ {n} : pr'[m] = pr[m]
<1> DEFINE row == [pr[n] EXCEPT !.state = state]
<1>1. pr[n] \in PrRows
  OBVIOUS
<1>2. row \in PrRows /\ row.state = state /\ row.head = pr[n].head /\ row.base = pr[n].base
  BY <1>1 DEF PrRows
<1>3. pr' = [pr EXCEPT ![n] = row]
  OBVIOUS
<1> HIDE DEF row
<1> QED
  BY <1>2, <1>3

\* complete_pull_request_ref_intent: what the transaction writes.
LEMMA Completed ==
  ASSUME TypeInv, NEW i \in Pending, Complete(i), NEW n \in Numbers, n = intent[i].number
  PROVE  /\ pr' \in [Numbers -> PrRows] /\ revisions' \in [Numbers -> SUBSET Revisions]
         /\ created' \subseteq Numbers /\ intent' \in [Requests -> Intents]
         /\ Pending' = Pending \ {i} /\ \A j \in Pending' : intent'[j] = intent[j]
         /\ pr'[n].state = "open" /\ pr'[n].base = intent[i].base /\ pr'[n].head = intent[i].head
         /\ revisions'[n] = revisions[n] \cup
              {[number |-> intent[i].rev, base |-> intent[i].base, head |-> intent[i].head]}
         /\ \A m \in Numbers \ {n} : pr'[m] = pr[m] /\ revisions'[m] = revisions[m]
         /\ created' = IF intent[i].op = "open" THEN created \cup {n} ELSE created
<1> DEFINE it == intent[i]
           row == [state |-> "open", base |-> it.base, head |-> it.head]
           rev == [number |-> it.rev, base |-> it.base, head |-> it.head]
<1>1. i \in Requests /\ it \in Intents
  BY DEF TypeInv, TypeOK, Pending
<1>2. row \in PrRows /\ row.state = "open" /\ row.base = it.base /\ row.head = it.head /\ rev \in Revisions
  BY <1>1 DEF Intents, PrRows, PrStates, Revisions
<1>3. /\ pr' = [pr EXCEPT ![n] = row] /\ revisions' = [revisions EXCEPT ![n] = revisions[n] \cup {rev}]
      /\ created' = IF it.op = "open" THEN created \cup {n} ELSE created
      /\ intent' = [intent EXCEPT ![i].state = "completed"]
  BY DEF Complete
<1>4. /\ intent' \in [Requests -> Intents]
      /\ Pending' = Pending \ {i} /\ \A j \in Pending' : intent'[j] = intent[j]
  BY <1>1, <1>3, IntentClosed DEF TypeInv, TypeOK
<1> HIDE DEF it, row, rev
<1>5. /\ pr' \in [Numbers -> PrRows] /\ revisions' \in [Numbers -> SUBSET Revisions] /\ created' \subseteq Numbers
      /\ pr'[n] = row /\ revisions'[n] = revisions[n] \cup {rev}
      /\ \A m \in Numbers \ {n} : pr'[m] = pr[m] /\ revisions'[m] = revisions[m]
  BY <1>2, <1>3 DEF TypeInv, TypeOK
<1> QED
  BY <1>2, <1>3, <1>4, <1>5 DEF it, row, rev

-----------------------------------------------------------------------------
(***************************************************************************)
(* Types                                                                   *)
(***************************************************************************)

\* The types of the rows, and what follows from them when a row is completed.
RowTypes ==
  /\ next \in Nat /\ pr \in [Numbers -> PrRows] /\ revisions \in [Numbers -> SUBSET Revisions]
  /\ created \subseteq Numbers /\ intent \in [Requests -> Intents]
  /\ PendingNumber /\ LatestIsMax

LEMMA RowFrame ==
  ASSUME TypeInv, UNCHANGED rowVars
  PROVE  RowTypes'
  BY DEF TypeInv, TypeOK, rowVars, RowTypes, PendingNumber, LatestIsMax, Pending, Latest, RevisionNumbers

LEMMA CompleteRows ==
  ASSUME TypeInv, NEW i \in Pending, Complete(i), UNCHANGED next
  PROVE  RowTypes'
<1>1. PICK n \in Numbers : n = intent[i].number
  BY DEF TypeInv, PendingNumber
<1>2. /\ pr' \in [Numbers -> PrRows] /\ revisions' \in [Numbers -> SUBSET Revisions]
      /\ created' \subseteq Numbers /\ intent' \in [Requests -> Intents]
      /\ Pending' = Pending \ {i} /\ \A j \in Pending' : intent'[j] = intent[j]
      /\ revisions'[n] = revisions[n] \cup
              {[number |-> intent[i].rev, base |-> intent[i].base, head |-> intent[i].head]}
      /\ \A m \in Numbers \ {n} : revisions'[m] = revisions[m]
  BY <1>1, Completed
<1>3. intent[i].rev \in Nat
  BY DEF TypeInv, TypeOK, Pending, Intents
<1>4. PendingNumber'
  BY <1>2 DEF PendingNumber, TypeInv
<1>5. LatestIsMax'
  <2> SUFFICES ASSUME NEW m \in Numbers PROVE IsMax(Latest(m), RevisionNumbers(m))'
    BY DEF LatestIsMax
  <2>1. Latest(m)' = Max(RevisionNumbers(m)')
    BY DEF Latest, RevisionNumbers
  <2>2. CASE m = n
    <3>1. RevisionNumbers(m)' = RevisionNumbers(m) \cup {intent[i].rev}
      <4> DEFINE rev == [number |-> intent[i].rev, base |-> intent[i].base, head |-> intent[i].head]
      <4>1. rev.number = intent[i].rev /\ revisions'[n] = revisions[n] \cup {rev}
        BY <1>2
      <4> HIDE DEF rev
      <4>2. {v.number : v \in revisions[n] \cup {rev}} = {v.number : v \in revisions[n]} \cup {rev.number}
        OBVIOUS
      <4> QED
        BY <2>2, <4>1, <4>2 DEF RevisionNumbers
    <3>2. IsMax(Max(RevisionNumbers(m)), RevisionNumbers(m)) /\ RevisionNumbers(m) \in SUBSET Nat
      BY LatestNat DEF TypeInv, LatestIsMax
    <3>3. IsMax(Max(RevisionNumbers(m)'), RevisionNumbers(m)')
      BY <1>3, <3>1, <3>2, MaxAdd
    <3> QED
      BY <2>1, <3>3 DEF IsMax
  <2>3. CASE m # n
    BY <1>2, <2>3 DEF TypeInv, LatestIsMax, IsMax, Latest, RevisionNumbers
  <2> QED
    BY <2>2, <2>3
<1> QED
  BY <1>2, <1>4, <1>5 DEF RowTypes, TypeInv, TypeOK

\* The steps of a request keep the types.
LEMMA RequestTypes ==
  ASSUME TypeInv, NEW r \in Requests, Enter(r) \/ Work(r) \/ Fails(r)
  PROVE  TypeInv'
<1> DEFINE Rest == /\ phase' \in {"up", "down", "recover", "refused"}
                   /\ base' \in Oids /\ tip' \in Oids /\ ref' \in [Numbers -> Commits]
                   /\ pc' \in [Requests -> Stages]
                   /\ kind' \in [Requests -> {"open", "revise", "merge", "read"}]
                   /\ seen' \in [Requests -> Seen]
                   /\ mergeLeft' \in [Numbers -> Nat]
                   /\ changes' \in Nat /\ moves' \in Nat /\ errors' \in Nat /\ stops' \in Nat
                   /\ SeenNumber'
<1>0. ASSUME RowTypes', Rest PROVE TypeInv'
  BY <1>0 DEF TypeInv, TypeOK, RowTypes
<1> USE DEF TypeInv, TypeOK, SeenNumber, Goto, Stages, boundVars
<1>1. CASE Enter(r)
  <2>1. Rest
    BY <1>1, KindAssumption DEF Enter
  <2> QED
    BY <1>0, <1>1, <2>1, RowFrame DEF Enter
<1>2. CASE RecoverEnd(r)
  <2>1. Rest
    BY <1>2 DEF RecoverEnd
  <2> QED
    BY <1>0, <1>2, <2>1, RowFrame DEF RecoverEnd
<1>3. CASE OpenRead(r)
  <2>1. [number |-> 0, base |-> base, head |-> tip] \in Seen
    BY DEF Seen, Commits
  <2>2. Rest
    BY <1>3, <2>1 DEF OpenRead
  <2> QED
    BY <1>0, <1>3, <2>2, RowFrame DEF OpenRead
<1>4. CASE OpenBegin(r)
  <2> DEFINE row == [state |-> "pending", op |-> "open", number |-> next, rev |-> 1,
                     old |-> NoOid, base |-> seen[r].base, head |-> seen[r].head]
  <2>1. next \in Numbers /\ next' \in Nat /\ UNCHANGED <<pr, revisions, created>>
    BY <1>4 DEF OpenBegin
  <2>2. seen[r] \in Seen
    OBVIOUS
  <2>3. row \in Intents /\ row.state = "pending" /\ row.number \in Numbers
    BY <2>1, <2>2 DEF Intents, Seen, Commits
  <2>4. intent' = [intent EXCEPT ![r] = row]
    BY <1>4 DEF OpenBegin
  <2> HIDE DEF row
  <2>5. /\ intent' \in [Requests -> Intents] /\ Pending' = Pending \cup {r}
        /\ intent'[r] = row /\ \A j \in Requests \ {r} : intent'[j] = intent[j]
    BY <2>3, <2>4, IntentBegun
  <2>6. PendingNumber'
    BY <2>3, <2>5 DEF PendingNumber, Pending
  <2>7. RowTypes'
    BY <2>1, <2>5, <2>6 DEF RowTypes, LatestIsMax, Latest, RevisionNumbers
  <2>8. Rest
    BY <1>4 DEF OpenBegin
  <2> QED
    BY <1>0, <2>7, <2>8
<1>5. CASE ReviseRead(r)
  <2>1. PICK n \in Numbers : seen' = [seen EXCEPT ![r] = [number |-> n, base |-> base, head |-> tip]]
    BY <1>5 DEF ReviseRead
  <2>2. [number |-> n, base |-> base, head |-> tip] \in Seen
    BY DEF Seen, Commits
  <2>3. Rest
    BY <1>5, <2>1, <2>2 DEF ReviseRead
  <2> QED
    BY <1>0, <1>5, <2>3, RowFrame DEF ReviseRead
<1>6. CASE ReviseBegin(r)
  <2>1. PICK n \in Numbers : n = seen[r].number
    BY <1>6 DEF ReviseBegin
  <2> DEFINE row == [state |-> "pending", op |-> "revise", number |-> n, rev |-> Latest(n) + 1,
                     old |-> pr[n].head, base |-> seen[r].base, head |-> seen[r].head]
  <2>2. seen[r] \in Seen /\ pr[n] \in PrRows /\ Latest(n) + 1 \in Nat
    BY LatestNat
  <2>3. row \in Intents /\ row.state = "pending" /\ row.number = n
    BY <2>2 DEF Intents, Seen, PrRows
  <2>4. intent' = [intent EXCEPT ![r] = row] /\ UNCHANGED <<next, pr, revisions, created>>
    BY <1>6, <2>1 DEF ReviseBegin
  <2> HIDE DEF row
  <2>5. /\ intent' \in [Requests -> Intents] /\ Pending' = Pending \cup {r}
        /\ intent'[r] = row /\ \A j \in Requests \ {r} : intent'[j] = intent[j]
    BY <2>3, <2>4, IntentBegun
  <2>6. PendingNumber'
    BY <2>3, <2>5 DEF PendingNumber, Pending
  <2>7. RowTypes'
    BY <2>4, <2>5, <2>6 DEF RowTypes, LatestIsMax, Latest, RevisionNumbers
  <2>8. Rest
    BY <1>6 DEF ReviseBegin
  <2> QED
    BY <1>0, <2>7, <2>8
<1>7. CASE ApplyRef(r)
  <2>1. intent[r].head \in Commits
    BY DEF Intents
  <2>2. Rest
    BY <1>7, <2>1 DEF ApplyRef
  <2> QED
    BY <1>0, <1>7, <2>2, RowFrame DEF ApplyRef
<1>8. CASE Unapplied(r)
  <2>1. Rest
    BY <1>8 DEF Unapplied
  <2>2. CASE Complete(r) /\ CanComplete(r)
    <3>1. r \in Pending /\ UNCHANGED next
      BY <1>8, <2>2 DEF Unapplied, CanComplete, Pending
    <3> QED
      BY <1>0, <2>1, <2>2, <3>1, CompleteRows
  <2>3. CASE intent' = [intent EXCEPT ![r].state = "abandoned"] /\ UNCHANGED <<pr, revisions, created>>
    <3>1. intent' \in [Requests -> Intents] /\ Pending' \subseteq Pending /\ \A j \in Pending' : intent'[j] = intent[j]
      BY <2>3, IntentClosed
    <3>2. PendingNumber'
      BY <3>1 DEF PendingNumber
    <3>3. RowTypes'
      BY <1>8, <2>3, <3>1, <3>2 DEF Unapplied, RowTypes, LatestIsMax, Latest, RevisionNumbers
    <3> QED
      BY <1>0, <2>1, <3>3
  <2> QED
    BY <1>8, <2>2, <2>3 DEF Unapplied
<1>9. CASE Applied(r)
  <2>1. Rest
    BY <1>9 DEF Applied
  <2>2. r \in Pending /\ UNCHANGED next /\ Complete(r)
    BY <1>9 DEF Applied, CanComplete, Pending
  <2> QED
    BY <1>0, <2>1, <2>2, CompleteRows
<1>10. CASE Merge(r)
  <2>1. PICK n \in Numbers :
          \/ pr' = [pr EXCEPT ![n].state = "merged"] /\ UNCHANGED <<mergeLeft, errors>>
          \/ errors' = errors + 1 /\ mergeLeft' = [mergeLeft EXCEPT ![n] = Latest(n)] /\ UNCHANGED pr
    BY <1>10 DEF Merge
  <2>2. pr' \in [Numbers -> PrRows]
    BY <2>1, StateChanged DEF PrStates
  <2>3. Rest
    <3>1. Latest(n) \in Nat
      BY LatestNat
    <3> QED
      BY <1>10, <2>1, <3>1 DEF Merge
  <2>4. RowTypes'
    BY <1>10, <2>2 DEF Merge, RowTypes, PendingNumber, LatestIsMax, Pending, Latest, RevisionNumbers
  <2> QED
    BY <1>0, <2>3, <2>4
<1>11. CASE Fails(r)
  <2>1. Rest
    BY <1>11 DEF Fails, RequestFails, ApplyRefFails, FinishFails
  <2> QED
    BY <1>0, <1>11, <2>1, RowFrame DEF Fails, RequestFails, ApplyRefFails, FinishFails
<1> QED
  BY <1>1, <1>2, <1>3, <1>4, <1>5, <1>6, <1>7, <1>8, <1>9, <1>10, <1>11 DEF Work

\* Recovery, merge recovery, closing, pushes, stops and starts keep the types.
LEMMA AroundTypes ==
  ASSUME TypeInv,
         \/ Recover \/ MoveBranch \/ Stop \/ Start \/ StartEnd \/ UNCHANGED vars
         \/ \E n \in Numbers : MergeRecovered(n) \/ SetState(n)
  PROVE  TypeInv'
<1> DEFINE Rest == /\ phase' \in {"up", "down", "recover", "refused"}
                   /\ base' \in Oids /\ tip' \in Oids /\ ref' \in [Numbers -> Commits]
                   /\ pc' \in [Requests -> Stages]
                   /\ kind' \in [Requests -> {"open", "revise", "merge", "read"}]
                   /\ seen' \in [Requests -> Seen]
                   /\ mergeLeft' \in [Numbers -> Nat]
                   /\ changes' \in Nat /\ moves' \in Nat /\ errors' \in Nat /\ stops' \in Nat
                   /\ SeenNumber'
<1>0. ASSUME RowTypes', Rest PROVE TypeInv'
  BY <1>0 DEF TypeInv, TypeOK, RowTypes
<1> USE DEF TypeInv, TypeOK, SeenNumber, requestVars, boundVars
<1>1. ASSUME NEW i \in Requests, RecoverWriteRef(i) PROVE TypeInv'
  <2>1. intent[i].head \in Commits
    BY DEF Intents
  <2>2. Rest
    BY <1>1, <2>1 DEF RecoverWriteRef
  <2> QED
    BY <1>0, <1>1, <2>2, RowFrame DEF RecoverWriteRef
<1>2. ASSUME NEW i \in Requests, RecoverComplete(i) PROVE TypeInv'
  <2>1. Rest
    BY <1>2 DEF RecoverComplete
  <2>2. i \in Pending /\ UNCHANGED next /\ Complete(i)
    BY <1>2 DEF RecoverComplete, CanComplete, Pending
  <2> QED
    BY <1>0, <2>1, <2>2, CompleteRows
<1>3. ASSUME NEW i \in Requests, RecoverFails(i) PROVE TypeInv'
  <2>1. Rest
    BY <1>3 DEF RecoverFails, Stages
  <2> QED
    BY <1>0, <1>3, <2>1, RowFrame DEF RecoverFails
<1>4. ASSUME NEW n \in Numbers, MergeRecovered(n) \/ SetState(n) PROVE TypeInv'
  <2>1. Rest
    BY <1>4 DEF MergeRecovered, SetState
  <2>2. pr' \in [Numbers -> PrRows]
    <3>1. ASSUME NEW state \in PrStates, pr' = [pr EXCEPT ![n].state = state] PROVE pr' \in [Numbers -> PrRows]
      BY <3>1, StateChanged
    <3> QED
      BY <1>4, <3>1 DEF MergeRecovered, SetState, PrStates
  <2>3. RowTypes'
    BY <1>4, <2>2 DEF MergeRecovered, SetState, RowTypes, PendingNumber, LatestIsMax, Pending, Latest, RevisionNumbers
  <2> QED
    BY <1>0, <2>1, <2>3
<1>5. CASE MoveBranch
  <2>1. Rest
    BY <1>5 DEF MoveBranch
  <2> QED
    BY <1>0, <1>5, <2>1, RowFrame DEF MoveBranch
<1>6. CASE Stop
  <2>1. Rest
    BY <1>6 DEF Stop, Stages
  <2> QED
    BY <1>0, <1>6, <2>1, RowFrame DEF Stop
<1>7. CASE Start \/ StartEnd
  <2>1. Rest
    BY <1>7 DEF Start, StartEnd
  <2> QED
    BY <1>0, <1>7, <2>1, RowFrame DEF Start, StartEnd
<1>8. CASE UNCHANGED vars
  <2>1. Rest
    BY <1>8 DEF vars
  <2> QED
    BY <1>0, <1>8, <2>1, RowFrame DEF vars
<1> QED
  BY <1>1, <1>2, <1>3, <1>4, <1>5, <1>6, <1>7, <1>8 DEF Recover

\* Type correctness; the latest revision and the numbers of intents are part of it.
THEOREM PullRequestTypeInv == Spec => []TypeInv
<1>1. Init => TypeInv
  <2> SUFFICES ASSUME Init PROVE TypeInv
    OBVIOUS
  <2>1. NoIntent \in Intents /\ NoIntent.state = "none"
    BY DEF NoIntent, Intents, Commits
  <2>2. Pending = {}
    BY <2>1 DEF Init, Pending
  <2>3. TypeOK /\ SeenNumber
    BY <2>1 DEF Init, TypeOK, SeenNumber, PrRows, PrStates, Commits, Stages, Seen
  <2>4. LatestIsMax
    <3>1. IsMax(0, {0})
      BY DEF IsMax
    <3>2. Max({0}) = 0
      BY <3>1, MaxIs
    <3>3. \A n \in Numbers : {v.number : v \in revisions[n]} \cup {0} = {0}
      BY DEF Init
    <3> QED
      BY <3>1, <3>2, <3>3 DEF LatestIsMax, Latest, RevisionNumbers
  <2> QED
    BY <2>2, <2>3, <2>4 DEF TypeInv, PendingNumber
<1>2. TypeInv /\ [Next]_vars => TypeInv'
  BY RequestTypes, AroundTypes DEF Next
<1> QED
  BY <1>1, <1>2, PTL DEF Spec

\* Every variable of the model has its type.
THEOREM PullRequestTypeOK == Spec => []TypeOK
<1>1. TypeInv => TypeOK
  BY DEF TypeInv
<1> QED
  BY <1>1, PullRequestTypeInv, PTL

-----------------------------------------------------------------------------
(***************************************************************************)
(* The mutex and the pending intent                                        *)
(***************************************************************************)
MutexPart == Mutex /\ HolderUp /\ Settled /\ Begun /\ OnePending

\* The holder of the mutex takes a step: everyone else is idle or done.
LEMMA HolderStep ==
  ASSUME MutexInv, NEW r \in Holding, NEW stage \in Stages, Goto(r, stage), UNCHANGED phase,
         stage # "idle",
         stage \in {"ready", "read"} => Pending' = {},
         stage \in {"begun", "applied", "unapplied"} => r \in Pending',
         \A i, j \in Pending' : i = j
  PROVE  MutexPart'
<1>1. r \in Requests /\ phase = "up" /\ \A q \in Requests \ {r} : pc[q] \in {"idle", "done"}
  BY DEF MutexInv, Mutex, HolderUp, Holding
<1>2. pc'[r] = stage /\ \A q \in Requests \ {r} : pc'[q] = pc[q]
  BY <1>1 DEF Goto, MutexInv, TypeInv, TypeOK
<1>3. Mutex' /\ HolderUp'
  BY <1>1, <1>2 DEF Mutex, HolderUp, Holding
<1>4. Settled' /\ Begun'
  BY <1>1, <1>2 DEF Settled, Begun
<1> QED
  BY <1>3, <1>4 DEF MutexPart, OnePending

\* Recovery runs at server start, when nobody holds the mutex, or in its holder,
\* which has begun nothing: no intent that it settles is of a running operation.
LEMMA RecoveringAlone ==
  ASSUME MutexInv, Recovering
  PROVE  \A r \in Requests : pc[r] \in {"idle", "done", "recover"}
  BY DEF MutexInv, TypeInv, TypeOK, Recovering, Mutex, HolderUp, Holding, Stages

\* Who has not begun, or has completed, holds no pending intent: what closing an
\* intent does to the set.
LEMMA CompletePending ==
  ASSUME TypeInv, NEW i \in Requests, CanComplete(i), Complete(i)
  PROVE  i \in Pending /\ Pending' = Pending \ {i}
<1>1. i \in Pending
  BY DEF CanComplete, Pending
<1>2. PICK n \in Numbers : n = intent[i].number
  BY <1>1 DEF TypeInv, PendingNumber
<1> QED
  BY <1>1, <1>2, Completed

\* The steps of a request.
LEMMA RequestMutex ==
  ASSUME MutexInv, NEW r \in Requests, Enter(r) \/ Work(r) \/ Fails(r)
  PROVE  MutexPart'
<1>0. TypeInv /\ OnePending /\ pc[r] \in Stages
  BY DEF MutexInv, TypeInv, TypeOK
<1>a. ASSUME UNCHANGED intent PROVE Pending' = Pending
  BY <1>a DEF Pending
<1>1. CASE Enter(r)
  <2>1. Pending' = Pending /\ phase = "up" /\ UNCHANGED phase
    BY <1>1, <1>a DEF Enter, rowVars
  <2>2. pc'[r] = "recover" /\ \A q \in Requests \ {r} : pc'[q] = pc[q] /\ pc[q] \in {"idle", "done"}
    BY <1>0, <1>1 DEF Enter, Goto, Holding, TypeInv, TypeOK
  <2> QED
    BY <1>0, <2>1, <2>2 DEF MutexPart, Mutex, HolderUp, Settled, Begun, OnePending, Holding
<1>2. CASE RecoverEnd(r)
  <2>1. r \in Holding /\ Pending' = {} /\ UNCHANGED phase
    BY <1>2, <1>a DEF RecoverEnd, rowVars, Holding
  <2>2. \E stage \in {"done", "ready"} : Goto(r, stage)
    BY <1>2 DEF RecoverEnd
  <2> QED
    BY <2>1, <2>2, HolderStep DEF Stages
<1>3. CASE OpenRead(r) \/ ReviseRead(r)
  <2>1. r \in Holding /\ Pending' = Pending /\ UNCHANGED phase /\ Goto(r, "read") /\ pc[r] = "ready"
    BY <1>3, <1>a DEF OpenRead, ReviseRead, rowVars, Holding
  <2>2. Pending' = {}
    BY <2>1 DEF MutexInv, Settled
  <2> QED
    BY <2>1, <2>2, HolderStep DEF Stages
<1>4. CASE OpenBegin(r) \/ ReviseBegin(r)
  <2>1. r \in Holding /\ UNCHANGED phase /\ Goto(r, "begun") /\ Pending = {}
    BY <1>4 DEF OpenBegin, ReviseBegin, Holding, MutexInv, Settled
  <2>2. \A j \in Requests \ {r} : intent'[j] = intent[j]
    BY <1>0, <1>4 DEF OpenBegin, ReviseBegin, TypeInv, TypeOK
  <2>3. intent'[r].state = "pending"
    BY <1>0, <1>4 DEF OpenBegin, ReviseBegin, TypeInv, TypeOK
  <2>4. Pending' = {r}
    BY <2>1, <2>2, <2>3 DEF Pending
  <2> QED
    BY <2>1, <2>4, HolderStep DEF Stages
<1>5. CASE ApplyRef(r) \/ ApplyRefFails(r)
  <2>1. r \in Holding /\ Pending' = Pending /\ UNCHANGED phase /\ pc[r] = "begun"
    BY <1>5, <1>a DEF ApplyRef, ApplyRefFails, rowVars, Holding
  <2>2. r \in Pending'
    BY <2>1 DEF MutexInv, Begun
  <2>3. \E stage \in {"applied", "unapplied"} : Goto(r, stage)
    BY <1>5 DEF ApplyRef, ApplyRefFails
  <2> QED
    BY <1>0, <2>1, <2>2, <2>3, HolderStep DEF Stages, OnePending
<1>6. CASE Unapplied(r) \/ Applied(r)
  <2>1. r \in Holding /\ UNCHANGED phase /\ Goto(r, "done")
    BY <1>6 DEF Unapplied, Applied, Holding
  <2>2. Pending' \subseteq Pending
    <3>1. CASE CanComplete(r) /\ Complete(r)
      BY <1>0, <3>1, CompletePending
    <3>2. CASE intent' = [intent EXCEPT ![r].state = "abandoned"]
      BY <1>0, <3>2, IntentClosed DEF TypeInv, TypeOK
    <3> QED
      BY <1>6, <3>1, <3>2 DEF Unapplied, Applied
  <2> QED
    BY <1>0, <2>1, <2>2, HolderStep DEF Stages, OnePending
<1>7. CASE Merge(r) \/ RequestFails(r) \/ FinishFails(r)
  <2>1. r \in Holding /\ Pending' = Pending /\ UNCHANGED phase /\ Goto(r, "done")
    BY <1>7, <1>a DEF Merge, RequestFails, FinishFails, rowVars, Holding
  <2> QED
    BY <1>0, <2>1, HolderStep DEF Stages, OnePending
<1> QED
  BY <1>1, <1>2, <1>3, <1>4, <1>5, <1>6, <1>7 DEF Work, Fails

\* Recovery, merge recovery, closing, pushes, stops and starts.
LEMMA AroundMutex ==
  ASSUME MutexInv,
         \/ Recover \/ MoveBranch \/ Stop \/ Start \/ StartEnd \/ UNCHANGED vars
         \/ \E n \in Numbers : MergeRecovered(n) \/ SetState(n)
  PROVE  MutexPart'
<1>0. TypeInv /\ OnePending
  BY DEF MutexInv
<1>a. ASSUME UNCHANGED intent PROVE Pending' = Pending
  BY <1>a DEF Pending
<1>b. ASSUME UNCHANGED <<pc, phase, intent>> PROVE MutexPart'
  BY <1>a, <1>b DEF MutexInv, MutexPart, Mutex, HolderUp, Settled, Begun, OnePending, Holding
<1>1. ASSUME NEW i \in Requests, RecoverWriteRef(i) PROVE MutexPart'
  BY <1>1, <1>b DEF RecoverWriteRef, rowVars, requestVars
<1>2. ASSUME NEW i \in Requests, RecoverComplete(i) PROVE MutexPart'
  <2>1. UNCHANGED <<pc, phase>> /\ CanComplete(i) /\ Complete(i) /\ Recovering
    BY <1>2 DEF RecoverComplete, requestVars
  <2>2. Pending' = Pending \ {i}
    BY <1>0, <2>1, CompletePending
  <2>3. \A r \in Requests : pc[r] \in {"idle", "done", "recover"}
    BY <2>1, RecoveringAlone
  <2> QED
    BY <2>1, <2>2, <2>3 DEF MutexInv, MutexPart, Mutex, HolderUp, Settled, Begun, OnePending, Holding
<1>3. ASSUME NEW i \in Requests, RecoverFails(i) PROVE MutexPart'
  <2>1. Recovering /\ Pending' = Pending
    BY <1>3, <1>a DEF RecoverFails, rowVars
  <2>2. \A r \in Requests : pc[r] \in {"idle", "done", "recover"}
    BY <2>1, RecoveringAlone
  <2>3. CASE phase = "recover"
    <3>1. phase' = "refused" /\ UNCHANGED pc
      BY <1>3, <2>3 DEF RecoverFails
    <3>2. Holding = {}
      BY <2>3 DEF MutexInv, HolderUp
    <3> QED
      BY <2>1, <2>2, <3>1, <3>2 DEF MutexInv, MutexPart, Mutex, HolderUp, Settled, Begun, OnePending, Holding
  <2>4. CASE phase # "recover"
    <3>1. pc' = [r \in Requests |-> IF pc[r] = "recover" THEN "done" ELSE pc[r]]
      BY <1>3, <2>4 DEF RecoverFails
    <3>2. \A r \in Requests : pc'[r] \in {"idle", "done"}
      BY <2>2, <3>1
    <3> QED
      BY <2>1, <3>2 DEF MutexInv, MutexPart, Mutex, HolderUp, Settled, Begun, OnePending, Holding
  <2> QED
    BY <2>3, <2>4
<1>4. ASSUME NEW n \in Numbers, MergeRecovered(n) \/ SetState(n) PROVE MutexPart'
  BY <1>4, <1>b DEF MergeRecovered, SetState, requestVars
<1>5. CASE MoveBranch \/ UNCHANGED vars
  BY <1>5, <1>b DEF MoveBranch, vars, rowVars, requestVars
<1>6. CASE Stop
  <2>1. pc' = [r \in Requests |-> IF pc[r] = "idle" THEN "idle" ELSE "done"] /\ Pending' = Pending
    BY <1>6, <1>a DEF Stop, rowVars
  <2>2. \A r \in Requests : pc'[r] \in {"idle", "done"}
    BY <2>1
  <2> QED
    BY <2>1, <2>2 DEF MutexInv, MutexPart, Mutex, HolderUp, Settled, Begun, OnePending, Holding
<1>7. CASE Start \/ StartEnd
  <2>1. UNCHANGED pc /\ Pending' = Pending /\ phase \in {"down", "recover"}
    BY <1>7, <1>a DEF Start, StartEnd, rowVars, requestVars
  <2>2. Holding = {}
    BY <2>1 DEF MutexInv, HolderUp
  <2> QED
    BY <2>1, <2>2 DEF MutexInv, MutexPart, Mutex, HolderUp, Settled, Begun, OnePending, Holding
<1> QED
  BY <1>1, <1>2, <1>3, <1>4, <1>5, <1>6, <1>7 DEF Recover

\* The mutex invariant of every reachable state.
THEOREM MutexInvariant == Spec => []MutexInv
<1>1. Init => MutexPart
  <2> SUFFICES ASSUME Init PROVE MutexPart
    OBVIOUS
  <2>1. NoIntent.state = "none"
    BY DEF NoIntent
  <2>2. Pending = {} /\ Holding = {}
    BY <2>1 DEF Init, Pending, Holding
  <2> QED
    BY <2>2 DEF Init, MutexPart, Mutex, HolderUp, Settled, Begun, OnePending
<1>2. MutexInv /\ [Next]_vars => MutexPart'
  BY RequestMutex, AroundMutex DEF Next
<1> QED
  BY <1>1, <1>2, PullRequestTypeInv, PTL DEF Spec, MutexInv, MutexPart

\* For any number of requests, failures, stops and restarts: an operation begins its
\* intent only when every other one is settled (recover_inner under git_operations).
THEOREM OnePendingTheorem == Spec => []OnePending
<1>1. MutexInv => OnePending
  BY DEF MutexInv
<1> QED
  BY <1>1, MutexInvariant, PTL

-----------------------------------------------------------------------------
(***************************************************************************)
(* The head in Git and in SQLite                                           *)
(***************************************************************************)
HeadPart == AppliedMoved /\ IntentTells /\ NothingYet /\ HeadRefMatches /\ RevisionsTell

\* A step that touches neither the ref, nor a row, nor an intent.
LEMMA HeadFrame ==
  ASSUME HeadInv, UNCHANGED <<ref, rowVars>>, \A r \in Requests : pc'[r] = "applied" => pc[r] = "applied"
  PROVE  HeadPart'
<1>1. Pending' = Pending /\ \A n : Latest(n)' = Latest(n)
  BY DEF Pending, Latest, rowVars
<1> QED
  BY <1>1 DEF HeadInv, HeadPart, AppliedMoved, IntentTells, NothingYet, HeadRefMatches, RevisionsTell, rowVars

\* Closing, reopening and merging: the row keeps its head and its revisions.
LEMMA HeadState ==
  ASSUME HeadInv, NEW n \in Numbers, NEW state \in PrStates \ {"none"}, pr[n].state # "none",
         pr' = [pr EXCEPT ![n].state = state],
         UNCHANGED <<ref, next, revisions, created, intent>>,
         \A r \in Requests : pc'[r] = "applied" => pc[r] = "applied"
  PROVE  HeadPart'
<1>1. Pending' = Pending /\ \A m : Latest(m)' = Latest(m)
  BY DEF Pending, Latest
<1>2. /\ pr'[n].state # "none"
      /\ \A m \in Numbers : /\ pr'[m].head = pr[m].head /\ pr'[m].base = pr[m].base
                            /\ pr'[m].state # "none" <=> pr[m].state # "none"
  BY StateChanged DEF HeadInv, MutexInv, TypeInv, TypeOK
<1>3. \A i \in Pending : intent[i].number \in Numbers
  BY DEF HeadInv, MutexInv, TypeInv, PendingNumber
<1>4. AppliedMoved' /\ NothingYet' /\ HeadRefMatches'
  BY <1>1, <1>2 DEF HeadInv, AppliedMoved, NothingYet, HeadRefMatches
<1>5. IntentTells'
  BY <1>1, <1>2, <1>3 DEF HeadInv, IntentTells
<1>6. RevisionsTell'
  BY <1>1, <1>2 DEF HeadInv, RevisionsTell
<1> QED
  BY <1>4, <1>5, <1>6 DEF HeadPart

\* The ref moves from the old head of a pending intent to the new one.
LEMMA HeadMoved ==
  ASSUME HeadInv, NEW i \in Pending,
         ref' = [ref EXCEPT ![intent[i].number] = intent[i].head], UNCHANGED rowVars,
         \A r \in Requests : pc'[r] = "applied" => r = i \/ pc[r] = "applied"
  PROVE  HeadPart'
<1>1. Pending' = Pending /\ \A m : Latest(m)' = Latest(m)
  BY DEF Pending, Latest, rowVars
<1>2. PICK n \in Numbers : n = intent[i].number
  BY DEF HeadInv, MutexInv, TypeInv, PendingNumber
<1>3. ref'[n] = intent[i].head /\ \A m \in Numbers \ {n} : ref'[m] = ref[m]
  BY <1>2 DEF HeadInv, MutexInv, TypeInv, TypeOK
<1>4. \A j \in Pending : j = i
  BY DEF HeadInv, MutexInv, OnePending
<1>5. \A r \in Requests : pc'[r] = "applied" => r = i
  BY <1>4 DEF HeadInv, MutexInv, Begun
<1>6. AppliedMoved'
  BY <1>2, <1>3, <1>5 DEF AppliedMoved, rowVars
<1>7. IntentTells'
  BY <1>1, <1>2, <1>3, <1>4 DEF HeadInv, IntentTells, rowVars
<1>8. HeadRefMatches'
  BY <1>1, <1>2, <1>3 DEF HeadInv, HeadRefMatches, rowVars
<1>9. NothingYet' /\ RevisionsTell'
  BY <1>1 DEF HeadInv, NothingYet, RevisionsTell, rowVars
<1> QED
  BY <1>6, <1>7, <1>8, <1>9 DEF HeadPart

\* complete_pull_request_ref_intent, with the ref at the new head.
LEMMA HeadCompleted ==
  ASSUME HeadInv, NEW i \in Requests, CanComplete(i), Complete(i), UNCHANGED <<next, ref>>,
         ref[intent[i].number] = intent[i].head,
         \A r \in Requests : pc'[r] # "applied"
  PROVE  HeadPart'
<1> DEFINE it == intent[i]
<1>1. TypeInv /\ i \in Pending /\ \A j \in Pending : j = i
  BY DEF HeadInv, MutexInv, CanComplete, Pending, OnePending
<1>2. PICK n \in Numbers : n = it.number
  BY <1>1 DEF TypeInv, PendingNumber
<1>3. PICK k : k = Latest(n)
  OBVIOUS
<1>4. /\ n < next /\ it.rev = k + 1 /\ k \in Nat
      /\ it.op = "open" <=> n \notin created
      /\ it.op \in {"open", "revise"}
  <2>1. it \in Intents
    BY DEF HeadInv, MutexInv, TypeInv, TypeOK
  <2> QED
    BY <1>1, <1>2, <1>3, <2>1, LatestNat DEF HeadInv, IntentTells, Intents
<1>5. /\ Pending' = {}
      /\ pr'[n].state = "open" /\ pr'[n].base = it.base /\ pr'[n].head = it.head
      /\ revisions'[n] = revisions[n] \cup {[number |-> it.rev, base |-> it.base, head |-> it.head]}
      /\ \A m \in Numbers \ {n} : pr'[m] = pr[m] /\ revisions'[m] = revisions[m]
      /\ created' = created \cup {n}
  BY <1>1, <1>2, <1>4, Completed
<1>6. AppliedMoved' /\ IntentTells'
  BY <1>5 DEF AppliedMoved, IntentTells
<1>7. NothingYet'
  BY <1>2, <1>4, <1>5 DEF HeadInv, NothingYet, MutexInv, TypeInv, TypeOK, Numbers
<1>8. HeadRefMatches'
  <2> SUFFICES ASSUME NEW m \in Numbers PROVE ref'[m] = pr'[m].head
    BY DEF HeadRefMatches
  <2>1. CASE m = n
    BY <1>2, <1>5, <2>1
  <2>2. CASE m # n
    <3>1. \A j \in Pending : intent[j].number # m
      BY <1>1, <1>2, <2>2
    <3> QED
      BY <1>5, <2>2, <3>1 DEF HeadInv, HeadRefMatches
  <2> QED
    BY <2>1, <2>2
<1>9. RevisionsTell'
  <2> DEFINE rev == [number |-> it.rev, base |-> it.base, head |-> it.head]
             Tells(m) == /\ {v.number : v \in revisions[m]} = 1..Latest(m)
                         /\ \A v, w \in revisions[m] : v.number = w.number => v = w
                         /\ pr[m].state # "none" <=> m \in created
                         /\ m \in created =>
                              [number |-> Latest(m), base |-> pr[m].base, head |-> pr[m].head] \in revisions[m]
  <2>1. \A m \in Numbers : Tells(m)
    BY DEF HeadInv, RevisionsTell
  <2>2. ASSUME NEW m \in Numbers \ {n} PROVE Tells(m)'
    <3>1. Latest(m)' = Latest(m)
      BY <1>5 DEF Latest
    <3> QED
      BY <1>5, <2>1, <3>1
  <2>3. Tells(n)'
    <3>1. rev.number = k + 1 /\ revisions'[n] = revisions[n] \cup {rev}
      BY <1>4, <1>5
    <3>2. {v.number : v \in revisions[n]} = 1..k
      BY <1>3, <2>1
    <3> HIDE DEF rev
    <3>3. {v.number : v \in revisions[n] \cup {rev}} = {v.number : v \in revisions[n]} \cup {rev.number}
      OBVIOUS
    <3>4. {v.number : v \in revisions'[n]} = 1..(k + 1)
      <4>1. (1..k) \cup {k + 1} = 1..(k + 1)
        BY <1>4
      <4> QED
        BY <3>1, <3>2, <3>3, <4>1
    <3>5. Latest(n)' = k + 1
      <4>1. {v.number : v \in revisions'[n]} \cup {0} = 0..(k + 1)
        BY <1>4, <3>4
      <4>2. IsMax(k + 1, 0..(k + 1)) /\ 0..(k + 1) \in SUBSET Nat
        BY <1>4 DEF IsMax
      <4>3. Max(0..(k + 1)) = k + 1
        BY <4>2, MaxIs
      <4> QED
        BY <4>1, <4>3 DEF Latest
    <3>6. \A v \in revisions[n] : v.number \in 1..k
      BY <3>2
    <3>7. \A v, w \in revisions'[n] : v.number = w.number => v = w
      <4>1. \A v, w \in revisions[n] : v.number = w.number => v = w
        BY <2>1
      <4>2. \A v \in revisions[n] : v.number # rev.number
        BY <1>4, <3>1, <3>6
      <4> QED
        BY <3>1, <4>1, <4>2, Zenon
    <3>8. [number |-> k + 1, base |-> pr'[n].base, head |-> pr'[n].head] \in revisions'[n]
      BY <1>4, <1>5
    <3> QED
      BY <1>5, <3>4, <3>5, <3>7, <3>8
  <2> QED
    BY <2>2, <2>3 DEF RevisionsTell
<1> QED
  BY <1>6, <1>7, <1>8, <1>9 DEF HeadPart

\* begin_pull_request_open and begin_pull_request_revision: the intent records what
\* the row and the ref say, because nothing else is pending.
LEMMA HeadBegun ==
  ASSUME HeadInv, NEW r \in Requests, OpenBegin(r) \/ ReviseBegin(r)
  PROVE  HeadPart'
<1> DEFINE Says(row, n) == /\ row.state = "pending" /\ row.number = n /\ row.old = pr[n].head
                           /\ row.rev = Latest(n) + 1
                           /\ row.op = "open" <=> n \notin created
<1>1. TypeInv /\ pc[r] = "read" /\ Pending = {} /\ next \in Nat
  BY DEF HeadInv, MutexInv, TypeInv, TypeOK, Settled, OpenBegin, ReviseBegin
<1>2. ASSUME NEW n \in Numbers, NEW row \in Intents, Says(row, n), intent' = [intent EXCEPT ![r] = row],
             next' \in Nat, n < next', next <= next', Goto(r, "begun"),
             UNCHANGED <<ref, pr, revisions, created>>
      PROVE  HeadPart'
  <2>1. /\ Pending' = {r} /\ intent'[r] = row
    BY <1>1, <1>2, IntentBegun DEF TypeInv, TypeOK
  <2>2. \A m : Latest(m)' = Latest(m)
    BY <1>2 DEF Latest
  <2>3. \A m \in Numbers : ref[m] = pr[m].head
    BY <1>1 DEF HeadInv, HeadRefMatches
  <2>4. \A q \in Requests : pc'[q] # "applied"
    <3>1. \A q \in Requests : pc[q] # "applied"
      BY <1>1 DEF HeadInv, MutexInv, Begun
    <3> QED
      BY <1>1, <1>2, <3>1 DEF Goto, TypeInv, TypeOK
  <2>5. IntentTells'
    BY <1>2, <2>1, <2>2, <2>3 DEF IntentTells
  <2>6. NothingYet'
    BY <1>1, <1>2 DEF HeadInv, NothingYet, Numbers
  <2>7. HeadRefMatches' /\ RevisionsTell'
    BY <1>2, <2>2, <2>3 DEF HeadInv, HeadRefMatches, RevisionsTell
  <2> QED
    BY <2>4, <2>5, <2>6, <2>7 DEF HeadPart, AppliedMoved
<1>3. CASE OpenBegin(r)
  <2>1. PICK n \in Numbers : n = next
    BY <1>3 DEF OpenBegin
  <2>2. seen[r] \in Seen
    BY <1>1 DEF TypeInv, TypeOK
  <2>3. PICK row \in Intents :
          row = [state |-> "pending", op |-> "open", number |-> n, rev |-> 1,
                 old |-> NoOid, base |-> seen[r].base, head |-> seen[r].head]
    BY <2>2 DEF Intents, Seen, Commits
  <2>4. n \notin created /\ pr[n].head = NoOid /\ revisions[n] = {}
    BY <1>1, <2>1 DEF HeadInv, NothingYet
  <2>5. Latest(n) = 0
    <3>1. IsMax(0, {0}) /\ {v.number : v \in revisions[n]} \cup {0} = {0}
      BY <2>4 DEF IsMax
    <3> QED
      BY <3>1, MaxIs DEF Latest
  <2>6. Says(row, n)
    BY <2>3, <2>4, <2>5
  <2>7. /\ intent' = [intent EXCEPT ![r] = row] /\ next' = next + 1 /\ Goto(r, "begun")
        /\ UNCHANGED <<ref, pr, revisions, created>>
    BY <1>3, <2>1, <2>3 DEF OpenBegin
  <2>8. next' \in Nat /\ n < next' /\ next <= next'
    BY <1>1, <2>1, <2>7
  <2> HIDE DEF Says
  <2> QED
    BY <1>2, <2>6, <2>7, <2>8
<1>4. CASE ReviseBegin(r)
  <2>1. PICK n \in Numbers : n = seen[r].number
    BY <1>1, <1>4 DEF ReviseBegin, TypeInv, SeenNumber
  <2>2. seen[r] \in Seen /\ pr[n] \in PrRows /\ Latest(n) + 1 \in Nat
    BY <1>1, LatestNat DEF TypeInv, TypeOK
  <2>3. PICK row \in Intents :
          row = [state |-> "pending", op |-> "revise", number |-> n, rev |-> Latest(n) + 1,
                 old |-> pr[n].head, base |-> seen[r].base, head |-> seen[r].head]
    BY <2>2 DEF Intents, Seen, PrRows
  <2>4. n \in created /\ n < next
    <3>1. n \in created
      BY <1>4, <2>1 DEF ReviseBegin, HeadInv, RevisionsTell
    <3> QED
      BY <1>1, <3>1 DEF HeadInv, NothingYet, Numbers
  <2>5. Says(row, n)
    BY <2>3, <2>4
  <2>6. /\ intent' = [intent EXCEPT ![r] = row] /\ next' = next /\ Goto(r, "begun")
        /\ UNCHANGED <<ref, pr, revisions, created>>
    BY <1>4, <2>1, <2>3 DEF ReviseBegin
  <2>7. next' \in Nat /\ n < next' /\ next <= next'
    BY <1>1, <2>4, <2>6
  <2> HIDE DEF Says
  <2> QED
    BY <1>2, <2>5, <2>6, <2>7
<1> QED
  BY <1>3, <1>4

\* The error path of apply_intent that abandons the intent: the ref is at the old
\* head, which the row still has.
LEMMA HeadAbandoned ==
  ASSUME HeadInv, NEW r \in Pending, ref[intent[r].number] = intent[r].old,
         intent' = [intent EXCEPT ![r].state = "abandoned"], Goto(r, "done"),
         UNCHANGED <<ref, next, pr, revisions, created>>
  PROVE  HeadPart'
<1>1. TypeInv /\ r \in Requests /\ \A j \in Pending : j = r
  BY DEF HeadInv, MutexInv, OnePending, Pending
<1>2. Pending' = {}
  BY <1>1, IntentClosed DEF TypeInv, TypeOK
<1>3. \A m \in Numbers : ref[m] = pr[m].head
  <2> TAKE m \in Numbers
  <2>1. CASE m = intent[r].number
    BY <1>1, <2>1 DEF HeadInv, IntentTells
  <2>2. CASE m # intent[r].number
    BY <1>1, <2>2 DEF HeadInv, HeadRefMatches
  <2> QED
    BY <2>1, <2>2
<1>4. \A m : Latest(m)' = Latest(m)
  BY DEF Latest
<1>5. \A q \in Requests : pc'[q] # "applied"
  <2>1. \A q \in Requests \ {r} : pc[q] # "applied"
    BY <1>1 DEF HeadInv, MutexInv, Begun
  <2> QED
    BY <1>1, <2>1 DEF Goto, TypeInv, TypeOK
<1> QED
  BY <1>2, <1>3, <1>4, <1>5
     DEF HeadInv, HeadPart, AppliedMoved, IntentTells, NothingYet, HeadRefMatches, RevisionsTell

\* The steps of a request.
LEMMA RequestHead ==
  ASSUME HeadInv, NEW r \in Requests, Enter(r) \/ Work(r) \/ Fails(r)
  PROVE  HeadPart'
<1>0. MutexInv /\ TypeInv /\ pc \in [Requests -> Stages]
  BY DEF HeadInv, MutexInv, TypeInv, TypeOK
<1>a. ASSUME NEW stage \in Stages \ {"applied"}, Goto(r, stage)
      PROVE  \A q \in Requests : pc'[q] = "applied" => q # r /\ pc[q] = "applied"
  BY <1>0, <1>a DEF Goto
<1>b. pc[r] \in {"applied", "unapplied"} => \A q \in Requests \ {r} : pc[q] # "applied"
  BY <1>0 DEF MutexInv, Mutex, Holding
<1>1. CASE Enter(r) \/ RecoverEnd(r) \/ OpenRead(r) \/ ReviseRead(r)
           \/ RequestFails(r) \/ ApplyRefFails(r) \/ FinishFails(r)
  <2>1. \E stage \in {"recover", "done", "ready", "read", "unapplied"} : Goto(r, stage)
    BY <1>1 DEF Enter, RecoverEnd, OpenRead, ReviseRead, RequestFails, ApplyRefFails, FinishFails
  <2>2. \A q \in Requests : pc'[q] = "applied" => pc[q] = "applied"
    BY <1>a, <2>1 DEF Stages
  <2>3. UNCHANGED <<ref, rowVars>>
    BY <1>1 DEF Enter, RecoverEnd, OpenRead, ReviseRead, RequestFails, ApplyRefFails, FinishFails
  <2> QED
    BY <2>2, <2>3, HeadFrame
<1>2. CASE OpenBegin(r) \/ ReviseBegin(r)
  BY <1>2, HeadBegun
<1>3. CASE ApplyRef(r)
  <2>1. r \in Pending
    BY <1>0, <1>3 DEF ApplyRef, MutexInv, Begun
  <2>2. \A q \in Requests : pc'[q] = "applied" => q = r \/ pc[q] = "applied"
    BY <1>0, <1>3 DEF ApplyRef, Goto
  <2>3. ref' = [ref EXCEPT ![intent[r].number] = intent[r].head] /\ UNCHANGED rowVars
    BY <1>3 DEF ApplyRef
  <2> QED
    BY <2>1, <2>2, <2>3, HeadMoved
<1>4. CASE Applied(r) \/ (Unapplied(r) /\ ref[intent[r].number] = intent[r].head)
  <2>1. /\ pc[r] \in {"applied", "unapplied"} /\ CanComplete(r) /\ Complete(r)
        /\ Goto(r, "done") /\ UNCHANGED <<next, ref>>
    BY <1>4 DEF Applied, Unapplied
  <2>2. ref[intent[r].number] = intent[r].head
    BY <1>4 DEF Applied, HeadInv, AppliedMoved
  <2>3. \A q \in Requests : pc'[q] # "applied"
    BY <1>a, <1>b, <2>1 DEF Stages
  <2> QED
    BY <2>1, <2>2, <2>3, HeadCompleted
<1>5. CASE Unapplied(r) /\ ref[intent[r].number] # intent[r].head
  <2>1. r \in Pending
    BY <1>0, <1>5 DEF Unapplied, MutexInv, Begun
  <2>2. /\ ref[intent[r].number] = intent[r].old
        /\ intent' = [intent EXCEPT ![r].state = "abandoned"] /\ Goto(r, "done")
        /\ UNCHANGED <<ref, next, pr, revisions, created>>
    BY <1>5 DEF Unapplied
  <2> QED
    BY <2>1, <2>2, HeadAbandoned
<1>6. CASE Merge(r)
  <2>1. PICK n \in Numbers :
          /\ pr[n].state = "open"
          /\ pr' = [pr EXCEPT ![n].state = "merged"] \/ UNCHANGED pr
    BY <1>6 DEF Merge
  <2>2. \A q \in Requests : pc'[q] = "applied" => pc[q] = "applied"
    BY <1>6, <1>a DEF Merge, Stages
  <2>3. UNCHANGED <<ref, next, revisions, created, intent>>
    BY <1>6 DEF Merge
  <2>4. CASE pr' = [pr EXCEPT ![n].state = "merged"]
    BY <2>1, <2>2, <2>3, <2>4, HeadState DEF PrStates
  <2>5. CASE UNCHANGED pr
    BY <2>2, <2>3, <2>5, HeadFrame DEF rowVars
  <2> QED
    BY <2>1, <2>4, <2>5
<1> QED
  BY <1>1, <1>2, <1>3, <1>4, <1>5, <1>6 DEF Work, Fails

\* Recovery, merge recovery, closing, pushes, stops and starts.
LEMMA AroundHead ==
  ASSUME HeadInv,
         \/ Recover \/ MoveBranch \/ Stop \/ Start \/ StartEnd \/ UNCHANGED vars
         \/ \E n \in Numbers : MergeRecovered(n) \/ SetState(n)
  PROVE  HeadPart'
<1>0. MutexInv /\ pr \in [Numbers -> PrRows]
  BY DEF HeadInv, MutexInv, TypeInv, TypeOK
<1>1. ASSUME NEW i \in Requests, RecoverWriteRef(i) PROVE HeadPart'
  <2>1. i \in Pending
    BY <1>1 DEF RecoverWriteRef, Pending
  <2>2. /\ ref' = [ref EXCEPT ![intent[i].number] = intent[i].head] /\ UNCHANGED rowVars
        /\ UNCHANGED pc
    BY <1>1 DEF RecoverWriteRef, requestVars
  <2> QED
    BY <2>1, <2>2, HeadMoved
<1>2. ASSUME NEW i \in Requests, RecoverComplete(i) PROVE HeadPart'
  <2>1. /\ CanComplete(i) /\ Complete(i) /\ UNCHANGED <<next, ref>> /\ Recovering
        /\ ref[intent[i].number] = intent[i].head /\ UNCHANGED pc
    BY <1>2 DEF RecoverComplete, requestVars
  <2>2. \A r \in Requests : pc'[r] # "applied"
    BY <1>0, <2>1, RecoveringAlone
  <2> QED
    BY <2>1, <2>2, HeadCompleted
<1>3. ASSUME NEW i \in Requests, RecoverFails(i) PROVE HeadPart'
  <2>1. UNCHANGED <<ref, rowVars>>
    BY <1>3 DEF RecoverFails
  <2>2. \A r \in Requests : pc'[r] = "applied" => pc[r] = "applied"
    BY <1>3 DEF RecoverFails
  <2> QED
    BY <2>1, <2>2, HeadFrame
<1>4. CASE MoveBranch \/ Stop \/ Start \/ StartEnd \/ UNCHANGED vars
  <2>1. UNCHANGED <<ref, rowVars>>
    BY <1>4 DEF MoveBranch, Stop, Start, StartEnd, vars
  <2>2. \A r \in Requests : pc'[r] = "applied" => pc[r] = "applied"
    BY <1>4 DEF MoveBranch, Stop, Start, StartEnd, vars, requestVars
  <2> QED
    BY <2>1, <2>2, HeadFrame
<1>5. ASSUME NEW n \in Numbers, MergeRecovered(n) \/ SetState(n) PROVE HeadPart'
  <2>1. UNCHANGED <<ref, next, revisions, created, intent, pc>>
    BY <1>5 DEF MergeRecovered, SetState, requestVars
  <2>2. \/ UNCHANGED pr
        \/ /\ pr[n].state # "none"
           /\ \E state \in PrStates \ {"none"} : pr' = [pr EXCEPT ![n].state = state]
    <3>1. CASE MergeRecovered(n)
      BY <3>1 DEF MergeRecovered, PrStates
    <3>2. CASE SetState(n)
      <4>1. PICK state \in {"open", "closed"} : state = IF pr[n].state = "open" THEN "closed" ELSE "open"
        OBVIOUS
      <4> QED
        BY <3>2, <4>1 DEF SetState, PrStates
    <3> QED
      BY <1>5, <3>1, <3>2
  <2>3. CASE UNCHANGED pr
    BY <2>1, <2>3, HeadFrame DEF rowVars
  <2> QED
    BY <2>1, <2>2, <2>3, HeadState
<1> QED
  BY <1>1, <1>2, <1>3, <1>4, <1>5 DEF Recover

\* The two copies of the head in every reachable state.
THEOREM HeadInvariant == Spec => []HeadInv
<1>1. Init => HeadPart
  <2> SUFFICES ASSUME Init PROVE HeadPart
    OBVIOUS
  <2>1. NoIntent.state = "none"
    BY DEF NoIntent
  <2>2. Pending = {} /\ created = {} /\ \A n \in Numbers : revisions[n] = {}
    BY <2>1 DEF Init, Pending
  <2>3. \A n \in Numbers : ref[n] = NoOid /\ pr[n].head = NoOid /\ pr[n].state = "none"
    BY DEF Init
  <2>4. AppliedMoved /\ IntentTells /\ NothingYet /\ HeadRefMatches
    BY <2>2, <2>3 DEF Init, AppliedMoved, IntentTells, NothingYet, HeadRefMatches
  <2>5. \A n \in Numbers : Latest(n) = 0
    <3>1. IsMax(0, {0})
      BY DEF IsMax
    <3>2. Max({0}) = 0
      BY <3>1, MaxIs
    <3>3. \A n \in Numbers : {v.number : v \in revisions[n]} \cup {0} = {0}
      BY <2>2
    <3> QED
      BY <3>2, <3>3 DEF Latest
  <2>6. RevisionsTell
    BY <2>2, <2>3, <2>5 DEF RevisionsTell
  <2> QED
    BY <2>4, <2>6 DEF HeadPart
<1>2. HeadInv /\ [Next]_vars => HeadPart'
  BY RequestHead, AroundHead DEF Next
<1> QED
  BY <1>1, <1>2, MutexInvariant, PTL DEF Spec, HeadInv, HeadPart

\* For any interleaving of operations, failures and restarts: refs/pull/N/head and
\* the row of N agree as soon as no intent of N is pending (apply_intent and
\* recover_intent move the ref before complete_pull_request_ref_intent).
THEOREM HeadRefTheorem == Spec => []HeadRefMatches
<1>1. HeadInv => HeadRefMatches
  BY DEF HeadInv
<1> QED
  BY <1>1, HeadInvariant, PTL

\* The revisions of a pull request are 1, 2, ... without gap or repetition, although
\* the number is allocated in one transaction and stored in another, and the last
\* one is what the row says.
THEOREM RevisionsTheorem == Spec => []RevisionsTell
<1>1. HeadInv => RevisionsTell
  BY DEF HeadInv
<1> QED
  BY <1>1, HeadInvariant, PTL

-----------------------------------------------------------------------------
(***************************************************************************)
(* A merge is final                                                        *)
(***************************************************************************)
Kept(n) == pr'[n] = pr[n] /\ revisions'[n] = revisions[n]

\* Completing an intent leaves a merged pull request alone: an opening is of a
\* number without a row, a revision of an open pull request.
LEMMA MergedCompleted ==
  ASSUME HeadInv, NEW i \in Requests, CanComplete(i), Complete(i),
         NEW n \in Numbers, pr[n].state = "merged"
  PROVE  Kept(n)
<1>1. TypeInv /\ i \in Pending
  BY DEF HeadInv, MutexInv, CanComplete, Pending
<1>2. PICK m \in Numbers : m = intent[i].number
  BY <1>1 DEF TypeInv, PendingNumber
<1>3. intent[i].op \in {"open", "revise"}
  BY <1>1 DEF TypeInv, TypeOK, Intents
<1>4. intent[i].op = "open" => pr[m].state = "none"
  BY <1>1, <1>2 DEF HeadInv, IntentTells, RevisionsTell
<1>5. m # n
  BY <1>2, <1>3, <1>4 DEF CanComplete
<1> QED
  BY <1>1, <1>2, <1>5, Completed DEF Kept

\* The state of another pull request, or of one that is not merged, changes.
LEMMA MergedState ==
  ASSUME HeadInv, NEW m \in Numbers, NEW state, pr[m].state # "merged",
         pr' = [pr EXCEPT ![m].state = state], UNCHANGED revisions,
         NEW n \in Numbers, pr[n].state = "merged"
  PROVE  Kept(n)
  BY DEF Kept, HeadInv, MutexInv, TypeInv, TypeOK

\* No step of the system (a recovered intent, a late revision, closing or reopening)
\* changes the row or the revisions of a merged pull request.
THEOREM MergedTheorem == Spec => MergedIsFinal
<1>1. ASSUME HeadInv, Next, NEW n \in Numbers, pr[n].state = "merged"
      PROVE  Kept(n)
  <2>1. ASSUME NEW i \in Requests, CanComplete(i) /\ Complete(i) PROVE Kept(n)
    BY <1>1, <2>1, MergedCompleted
  <2>2. ASSUME UNCHANGED <<pr, revisions>> PROVE Kept(n)
    BY <2>2 DEF Kept
  <2>3. ASSUME NEW r \in Requests, Enter(r) \/ Fails(r) PROVE Kept(n)
    BY <2>2, <2>3 DEF Enter, Fails, RequestFails, ApplyRefFails, FinishFails, rowVars
  <2>4. ASSUME NEW r \in Requests, RecoverEnd(r) \/ OpenRead(r) \/ OpenBegin(r) \/ ReviseRead(r)
                                   \/ ReviseBegin(r) \/ ApplyRef(r)
        PROVE  Kept(n)
    BY <2>2, <2>4 DEF RecoverEnd, OpenRead, OpenBegin, ReviseRead, ReviseBegin, ApplyRef, rowVars
  <2>5. ASSUME NEW r \in Requests, Unapplied(r) \/ Applied(r) PROVE Kept(n)
    <3>1. (CanComplete(r) /\ Complete(r)) \/ UNCHANGED <<pr, revisions>>
      BY <2>5 DEF Unapplied, Applied
    <3> QED
      BY <2>1, <2>2, <3>1
  <2>6. ASSUME NEW r \in Requests, Merge(r) PROVE Kept(n)
    <3>1. PICK m \in Numbers :
            /\ pr[m].state = "open"
            /\ pr' = [pr EXCEPT ![m].state = "merged"] \/ UNCHANGED pr
      BY <2>6 DEF Merge
    <3>2. UNCHANGED revisions
      BY <2>6 DEF Merge
    <3>3. CASE pr' = [pr EXCEPT ![m].state = "merged"]
      BY <1>1, <3>1, <3>2, <3>3, MergedState
    <3> QED
      BY <2>2, <3>1, <3>2, <3>3
  <2>7. ASSUME NEW m \in Numbers, MergeRecovered(m) PROVE Kept(n)
    <3>1. CASE pr[m].state = "open" /\ pr' = [pr EXCEPT ![m].state = "merged"]
      BY <1>1, <2>7, <3>1, MergedState DEF MergeRecovered
    <3> QED
      BY <2>2, <2>7, <3>1 DEF MergeRecovered
  <2>8. ASSUME NEW m \in Numbers, SetState(m) PROVE Kept(n)
    <3>1. PICK state : state = IF pr[m].state = "open" THEN "closed" ELSE "open"
      OBVIOUS
    <3>2. pr[m].state # "merged" /\ pr' = [pr EXCEPT ![m].state = state] /\ UNCHANGED revisions
      BY <2>8, <3>1 DEF SetState
    <3> QED
      BY <1>1, <3>2, MergedState
  <2>9. ASSUME NEW i \in Requests, RecoverWriteRef(i) \/ RecoverFails(i) PROVE Kept(n)
    BY <2>2, <2>9 DEF RecoverWriteRef, RecoverFails, rowVars
  <2>10. ASSUME NEW i \in Requests, RecoverComplete(i) PROVE Kept(n)
    BY <2>1, <2>10 DEF RecoverComplete
  <2>11. CASE MoveBranch \/ Stop \/ Start \/ StartEnd
    BY <2>2, <2>11 DEF MoveBranch, Stop, Start, StartEnd, rowVars
  <2> QED
    BY <1>1, <2>3, <2>4, <2>5, <2>6, <2>7, <2>8, <2>9, <2>10, <2>11 DEF Next, Work, Recover
<1>2. HeadInv /\ Next =>
        \A n \in Numbers : pr[n].state = "merged" => pr'[n] = pr[n] /\ revisions'[n] = revisions[n]
  BY <1>1 DEF Kept
<1>3. HeadInv /\ [Next]_vars =>
        [\A n \in Numbers : pr[n].state = "merged" => pr'[n] = pr[n] /\ revisions'[n] = revisions[n]]_vars
  BY <1>2
<1> QED
  BY <1>3, HeadInvariant, PTL DEF Spec, MergedIsFinal

=============================================================================
