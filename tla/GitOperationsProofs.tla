------------------------- MODULE GitOperationsProofs -------------------------
(***************************************************************************)
(* Theorems about GitOperations for every set of pushes, merges, pull      *)
(* requests, refs and commits, with crashes anywhere.                      *)
(***************************************************************************)
EXTENDS GitOperations, FiniteSetTheorems, TLAPS

-----------------------------------------------------------------------------
(***************************************************************************)
(* The inductive invariant.  Its parts say what the later steps of an      *)
(* operation or of a recovery rely on from the earlier ones.               *)
(***************************************************************************)

\* A merge that has not swapped its ref yet moves it forward.
PlansValid ==
  \A m \in Merges : pc[m] \in {"checked", "pending", "stored", "promoted"} =>
    \A r \in Touched(m) : <<old[m][r], new[m][r]>> \in Ancestry

\* A push past validation moves its refs forward or deletes other branches
\* than the default one.
PushesValid ==
  \A p \in Pushes : pc[p] \in {"stored", "promoted", "commit"} =>
    \A r \in Touched(p) :
      IF new[p][r] = NoOid THEN r # Default
        ELSE old[p][r] # NoOid => <<old[p][r], new[p][r]>> \in Ancestry

\* An operation that has not begun its intent has no row at all.
FreshOps == \A i \in Ops : pc[i] \in {"idle", "checked"} => intent[i] = "none"
FreshMerges == \A m \in Merges : intent[m] = "none" => mergeRow[m] = NoPr

\* Nothing that is in place goes unnoticed.
SeenInv == \A i \in Ops : Incomplete(i) /\ AtProposed(i) => i \in seen
AppliedInv == \A i \in Ops : pc[i] = "applied" /\ Incomplete(i) => i \in seen

\* A recovery works on rows that exist, and completes only what it saw.
RecoveryInv ==
  \A i \in Ops : /\ i \in todo => intent[i] # "none"
                 /\ verdict[i] # "unread" => recovering /\ i \in todo
                 /\ verdict[i] = "complete" /\ Incomplete(i) => i \in seen

IndInv ==
  /\ TypeOK /\ PlansValid /\ PushesValid
  /\ FreshOps /\ FreshMerges
  /\ SeenInv /\ AppliedInv /\ RecoveryInv
  /\ EventsAreReal /\ MergeRowsLive /\ MergedIsReal

-----------------------------------------------------------------------------
\* Setting the state of a pull-request row gives a row.
LEMMA PrStateTyped ==
  ASSUME NEW row \in PrRows, NEW s \in {"none", "open", "closed", "merged"}
  PROVE  [row EXCEPT !.state = s] \in PrRows
  BY DEF PrRows

\* The ancestry relates commits, never the null id.
LEMMA AncestryTyped ==
  ASSUME NEW a, NEW b, <<a, b>> \in Ancestry
  PROVE  a \in Oids /\ b \in Oids /\ b # NoOid
  BY OidAssumption

\* What a merge puts on its base contains the base.
LEMMA MergeTargetForward ==
  ASSUME NEW base, NEW head, NEW target \in MergeTarget(base, head)
  PROVE  <<base, target>> \in Ancestry /\ target \in Oids
  <1>1. CASE <<base, head>> \in Ancestry
    BY <1>1, OidAssumption DEF MergeTarget
  <1>2. CASE <<base, head>> \notin Ancestry
    <2>1. <<base, head, target>> \in MergeCommits
      BY <1>2 DEF MergeTarget
    <2> QED
      BY <2>1, MergeCommitAssumption
  <1> QED
    BY <1>1, <1>2

\* The initial state is well typed.
LEMMA InitTypeOK == Init => TypeOK
  <1> SUFFICES ASSUME Init PROVE TypeOK
    OBVIOUS
  <1>1. loose \in SUBSET Oids
    BY OidAssumption DEF Init, Closure
  <1>2. pr \in [PullRequests -> PrRows]
    BY RefAssumption DEF Init, PrRows, Targets
  <1>3. plan \in [Merges -> Plans]
    BY DEF Init, Plans, NoPlan, Targets
  <1> QED
    BY <1>1, <1>2, <1>3, RefAssumption
    DEF Init, TypeOK, Phases, Stages, IntentStates, Verdicts, Targets

\* Every step keeps the types.
LEMMA NextTypeOK == TypeOK /\ PlansValid /\ [Next]_vars => TypeOK'
  <1> SUFFICES ASSUME TypeOK, PlansValid, [Next]_vars PROVE TypeOK'
    OBVIOUS
  <1> USE DEF TypeOK, Phases, Stages, IntentStates, Verdicts, Ops
  <1> USE DEF vars, repoVars, journalVars, requestVars, recoveryVars, historyVars
  <1>1. ASSUME NEW p \in Pushes, PushCheck(p) PROVE TypeOK'
    BY <1>1, PackAssumption DEF PushCheck, Goto
  <1>2. ASSUME NEW p \in Pushes, PushBegin(p) PROVE TypeOK'
    BY <1>2 DEF PushBegin, Goto, BeginIntent, Observe
  <1>3. ASSUME NEW p \in Pushes, PushStore(p) PROVE TypeOK'
    BY <1>3 DEF PushStore, Goto
  <1>4. ASSUME NEW p \in Pushes, PushMark(p) PROVE TypeOK'
    BY <1>4 DEF PushMark, Goto, MarkPromoted
  <1>5. ASSUME NEW p \in Pushes, PushLock(p) PROVE TypeOK'
    BY <1>5 DEF PushLock, Goto
  <1>6. ASSUME NEW p \in Pushes, NEW r \in Refs, PushWriteRef(p, r) PROVE TypeOK'
    BY ZenonT(60), <1>6 DEF PushWriteRef, Goto, Observe
  <1>7. ASSUME NEW i \in Ops, Complete(i)
        PROVE  /\ intent' \in [Ops -> IntentStates] /\ events' \in SUBSET Ops
               /\ pr' \in [PullRequests -> PrRows]
               /\ packName' = packName /\ mergeRow' = mergeRow
    <2>1. CASE i \in Merges /\ mergeRow[i] # NoPr
      <3>1. mergeRow[i] \in PullRequests
        BY <2>1
      <3>2. pr' = [pr EXCEPT ![mergeRow[i]].state = "merged"]
        BY <1>7, <2>1 DEF Complete
      <3>a. [pr[mergeRow[i]] EXCEPT !.state = "merged"] \in PrRows
        BY <3>1, PrStateTyped
      <3>3. pr' \in [PullRequests -> PrRows]
        BY <3>1, <3>2, <3>a
      <3> QED
        BY <1>7, <3>3 DEF Complete
    <2>2. CASE ~(i \in Merges /\ mergeRow[i] # NoPr)
      BY <1>7, <2>2 DEF Complete
    <2> QED
      BY <2>1, <2>2
  <1>8. ASSUME NEW i \in Ops, Abandon(i)
        PROVE  /\ intent' \in [Ops -> IntentStates]
               /\ mergeRow' \in [Merges -> PullRequests \cup {NoPr}]
               /\ packName' = packName /\ events' = events /\ pr' = pr
    BY <1>8 DEF Abandon
  <1>9. ASSUME NEW p \in Pushes, PushComplete(p) PROVE TypeOK'
    BY <1>7, <1>9 DEF PushComplete, Goto
  <1>10. ASSUME NEW p \in Pushes, PushFail(p) PROVE TypeOK'
    BY <1>10 DEF PushFail, Goto
  <1>11. ASSUME NEW m \in Merges, NEW q \in PullRequests, MergePlan(m, q) PROVE TypeOK'
    <2>1. plan' \in [Merges -> Plans]
      BY <1>11 DEF MergePlan, Plans, PrRows
    <2>2. new' \in [Ops -> [Refs -> Targets]]
      BY <1>11, OidAssumption, MergeCommitAssumption DEF MergePlan, MergeTarget, PrRows, Targets
    <2> QED
      BY <1>11, <2>1, <2>2 DEF MergePlan, Goto
  <1>12. ASSUME NEW m \in Merges, MergeBegin(m) PROVE TypeOK'
    BY <1>12 DEF MergeBegin, Goto, BeginIntent, Observe, Plans
  <1>13. ASSUME NEW m \in Merges, MergeRefused(m) PROVE TypeOK'
    BY <1>13 DEF MergeRefused, Goto
  <1>14. ASSUME NEW m \in Merges, MergeWrite(m) PROVE TypeOK'
    <2>a. \A r \in Touched(m) : <<old[m][r], new[m][r]>> \in Ancestry
      BY <1>14 DEF MergeWrite, PlansValid
    <2>1. \A r \in Touched(m) : new[m][r] \in Oids
      BY <2>a, AncestryTyped
    <2>2. loose' \in SUBSET Oids
      BY <1>14, <2>1 DEF MergeWrite
    <2> QED
      BY <1>14, <2>2 DEF MergeWrite, Goto
  <1>15. ASSUME NEW m \in Merges, MergeMark(m) PROVE TypeOK'
    <2>1. pc' = pc \/ \E stage \in Stages : pc' = [pc EXCEPT ![m] = stage]
      BY <1>15 DEF MergeMark, Goto
    <2>2. \/ intent' = intent /\ packName' = packName
          \/ /\ intent' = [intent EXCEPT ![m] = "promoted"]
             /\ packName' = [packName EXCEPT ![m] = {}]
      BY <1>15 DEF MergeMark, MarkPromoted
    <2>3. pc' \in [Ops -> Stages]
      BY <2>1
    <2>4. intent' \in [Ops -> IntentStates] /\ packName' \in [Ops -> SUBSET Oids]
      BY <2>2
    <2> QED
      BY <1>15, <2>3, <2>4 DEF MergeMark
  <1>16. ASSUME NEW m \in Merges, MergeApply(m) PROVE TypeOK'
    BY <1>16 DEF MergeApply, Overtakes, Goto, Observe
  <1>17. ASSUME NEW m \in Merges, MergeApplyFails(m) PROVE TypeOK'
    BY <1>17 DEF MergeApplyFails, Goto
  <1>18. ASSUME NEW m \in Merges, MergeConflict(m) PROVE TypeOK'
    BY <1>7, <1>8, <1>18 DEF MergeConflict, Goto
  <1>19. ASSUME NEW m \in Merges, MergeComplete(m) PROVE TypeOK'
    BY <1>7, <1>19 DEF MergeComplete, Goto
  <1>20. ASSUME RecoverList PROVE TypeOK'
    BY <1>20 DEF RecoverList
  <1>21. ASSUME NEW i \in Ops, RecoverRead(i) PROVE TypeOK'
    BY <1>21 DEF RecoverRead, Decision
  <1>22. ASSUME NEW i \in Ops, RecoverDiscard(i) PROVE TypeOK'
    BY <1>22 DEF RecoverDiscard
  <1>23. ASSUME NEW i \in Ops, RecoverSettle(i) PROVE TypeOK'
    BY <1>7, <1>8, <1>23 DEF RecoverSettle
  <1>24. ASSUME NEW ok \in BOOLEAN, RecoverReturn(ok), stops' \in Nat PROVE TypeOK'
    <2>1. /\ pc' \in [Ops -> Stages] /\ verdict' \in [Ops -> Verdicts] /\ phase' \in Phases
      BY <1>24 DEF RecoverReturn
    <2>2. lapsed' \in BOOLEAN
      BY <1>24, Zenon DEF RecoverReturn
    <2> QED
      BY <1>24, <2>1, <2>2 DEF RecoverReturn
  <1>25. ASSUME NEW q \in PullRequests, OpenPr(q) PROVE TypeOK'
    BY <1>25 DEF OpenPr, PrRows
  <1>26. ASSUME NEW q \in PullRequests, RevisePr(q) PROVE TypeOK'
    BY <1>26 DEF RevisePr, PrRows
  <1>27. ASSUME NEW q \in PullRequests, NEW s \in {"open", "closed"}, SetPrState(q, s)
         PROVE TypeOK'
    BY ZenonT(40), <1>27 DEF SetPrState, PrRows
  <1>28. ASSUME Crash PROVE TypeOK'
    <2>1. /\ pc' \in [Ops -> Stages] /\ verdict' \in [Ops -> Verdicts] /\ stops' \in Nat
      BY <1>28 DEF Crash
    <2> QED
      BY <1>28, <2>1 DEF Crash
  <1>29. ASSUME Shutdown PROVE TypeOK'
    BY <1>29 DEF Shutdown
  <1>30. ASSUME Drained PROVE TypeOK'
    BY <1>30 DEF Drained
  <1>31. ASSUME Start PROVE TypeOK'
    BY <1>31 DEF Start
  <1>32. CASE UNCHANGED vars
    BY <1>32
  <1>33. ASSUME NEW p \in Pushes, PushRefused(p) PROVE TypeOK'
    BY <1>33 DEF PushRefused, Goto
  <1>34. ASSUME NEW m \in Merges, MergeWriteFails(m) PROVE TypeOK'
    BY <1>8, <1>34 DEF MergeWriteFails, Goto
  <1>35. ASSUME NEW m \in Merges, MergeError(m) PROVE TypeOK'
    BY <1>35 DEF MergeError, Goto
  <1>36. ASSUME RecoverEnd PROVE TypeOK'
    BY <1>24, <1>36 DEF RecoverEnd
  <1>37. ASSUME NEW i \in Ops, RecoverError(i) PROVE TypeOK'
    BY <1>24, <1>37 DEF RecoverError
  <1>38. ASSUME RecoverFails PROVE TypeOK'
    <2>1. stops' \in Nat
      BY <1>38 DEF RecoverFails
    <2> QED
      BY <1>24, <1>38, <2>1 DEF RecoverFails
  <1> QED
    BY <1>1, <1>2, <1>3, <1>4, <1>5, <1>6, <1>9, <1>10, <1>11, <1>12, <1>13, <1>14,
       <1>15, <1>16, <1>17, <1>18, <1>19, <1>20, <1>21, <1>22, <1>23, <1>25,
       <1>26, <1>27, <1>28, <1>29, <1>30, <1>31, <1>32, <1>33, <1>34, <1>35, <1>36, <1>37,
       <1>38
    DEF Next, PushStep, MergeStep, RecoverStep

\* The initial state satisfies the inductive invariant.
LEMMA InitIndInv == Init => IndInv
  <1> SUFFICES ASSUME Init PROVE IndInv
    OBVIOUS
  <1>1. TypeOK
    BY InitTypeOK
  <1>2. MergedIsReal /\ MergeRowsLive /\ EventsAreReal
    BY DEF Init, MergedIsReal, MergeRowsLive, EventsAreReal
  <1> QED
    BY <1>1, <1>2
    DEF Init, IndInv, PlansValid, PushesValid, FreshOps, FreshMerges, SeenInv, AppliedInv,
        RecoveryInv, Incomplete, Ops

\* Merged pull requests stay explained while their rows, the completed merges
\* and what was seen stay as they are.
LEMMA MergedFrame ==
  ASSUME MergedIsReal, seen \subseteq seen',
         \A q \in PullRequests : pr'[q].state = "merged" => pr'[q] = pr[q],
         \A m \in Merges : intent[m] = "completed" =>
           intent'[m] = intent[m] /\ mergeRow'[m] = mergeRow[m] /\ plan'[m] = plan[m]
  PROVE  MergedIsReal'
  <1> SUFFICES ASSUME NEW q \in PullRequests, pr'[q].state = "merged"
               PROVE  \E m \in Merges : /\ intent'[m] = "completed" /\ mergeRow'[m] = q
                                        /\ plan'[m].rev = pr'[q].rev
                                        /\ plan'[m].head = pr'[q].head /\ m \in seen'
    BY DEF MergedIsReal
  <1>1. pr'[q] = pr[q]
    OBVIOUS
  <1>2. PICK m \in Merges : /\ intent[m] = "completed" /\ mergeRow[m] = q
                            /\ plan[m].rev = pr[q].rev /\ plan[m].head = pr[q].head
                            /\ m \in seen
    BY <1>1 DEF MergedIsReal
  <1> QED
    BY <1>1, <1>2

\* The journal facts that a completion or an abandonment must keep.
JournalInv ==
  /\ FreshMerges /\ SeenInv /\ EventsAreReal /\ MergeRowsLive /\ MergedIsReal

\* Completing a promoted intent that was seen in place keeps the journal facts.
LEMMA CompleteKeepsJournal ==
  ASSUME TypeOK, TypeOK', JournalInv, NEW i \in Ops, CanComplete(i), Complete(i), i \in seen,
         UNCHANGED <<refs, old, new, plan, seen>>
  PROVE  JournalInv'
  <1> USE DEF Ops, JournalInv, CanComplete
  <1>1. /\ intent' = [intent EXCEPT ![i] = "completed"]
        /\ events' = events \cup {i} /\ mergeRow' = mergeRow
    BY DEF Complete
  <1>2. FreshMerges' /\ SeenInv' /\ EventsAreReal' /\ MergeRowsLive'
    BY <1>1 DEF TypeOK, FreshMerges, SeenInv, EventsAreReal, MergeRowsLive, Incomplete,
       AtProposed, Matches, Touched
  <1>3. CASE i \in Merges /\ mergeRow[i] # NoPr
    <2>1. /\ mergeRow[i] \in PullRequests
          /\ pr' = [pr EXCEPT ![mergeRow[i]].state = "merged"]
      BY <1>3 DEF TypeOK, Complete
    <2>2. pr[mergeRow[i]].head = plan[i].head /\ pr[mergeRow[i]].rev = plan[i].rev
      BY <1>3 DEF MergeStillValid
    <2>3. /\ pr[mergeRow[i]] \in PrRows
          /\ \A q \in PullRequests : q # mergeRow[i] => pr'[q] = pr[q]
      BY <2>1 DEF TypeOK
    <2>4. /\ pr'[mergeRow[i]].head = pr[mergeRow[i]].head
          /\ pr'[mergeRow[i]].rev = pr[mergeRow[i]].rev
      BY <2>1, <2>3 DEF TypeOK, PrRows
    <2>5. ASSUME NEW q \in PullRequests, pr'[q].state = "merged"
          PROVE  \E m \in Merges : /\ intent'[m] = "completed" /\ mergeRow'[m] = q
                                   /\ plan'[m].rev = pr'[q].rev
                                   /\ plan'[m].head = pr'[q].head /\ m \in seen'
      <3>1. CASE q = mergeRow[i]
        <4>1. intent'[i] = "completed"
          BY <1>1 DEF TypeOK
        <4> QED
          BY <1>1, <1>3, <2>2, <2>4, <3>1, <4>1
      <3>2. CASE q # mergeRow[i]
        <4>1. pr'[q] = pr[q]
          BY <2>3, <3>2
        <4>2. PICK m \in Merges : /\ intent[m] = "completed" /\ mergeRow[m] = q
                                  /\ plan[m].rev = pr[q].rev /\ plan[m].head = pr[q].head
                                  /\ m \in seen
          BY <2>5, <4>1 DEF MergedIsReal
        <4>3. intent'[m] = "completed"
          BY <1>1, <4>2 DEF TypeOK
        <4> QED
          BY <1>1, <4>1, <4>2, <4>3
      <3> QED
        BY <3>1, <3>2
    <2> QED
      BY <1>2, <2>5 DEF MergedIsReal
  <1>4. CASE ~(i \in Merges /\ mergeRow[i] # NoPr)
    <2>1. pr' = pr
      BY <1>4 DEF Complete
    <2> QED
      BY <1>1, <1>2, <2>1 DEF TypeOK, MergedIsReal
  <1> QED
    BY <1>3, <1>4

\* Abandoning an incomplete intent keeps the journal facts.
LEMMA AbandonKeepsJournal ==
  ASSUME TypeOK, TypeOK', JournalInv, NEW i \in Ops, CanAbandon(i), Abandon(i),
         UNCHANGED <<refs, old, new, plan, seen>>
  PROVE  JournalInv'
  <1> USE DEF Ops, JournalInv, CanAbandon, Abandon
  <1>1. FreshMerges' /\ SeenInv' /\ EventsAreReal' /\ MergeRowsLive'
    BY DEF TypeOK, FreshMerges, SeenInv, EventsAreReal, MergeRowsLive, Incomplete,
       AtProposed, Matches, Touched
  <1>2. MergedIsReal'
    BY DEF TypeOK, MergedIsReal, Incomplete
  <1> QED
    BY <1>1, <1>2

\* Every step preserves the inductive invariant.
LEMMA NextIndInv == IndInv /\ [Next]_vars => IndInv'
  <1> SUFFICES ASSUME IndInv, [Next]_vars PROVE IndInv'
    OBVIOUS
  <1>0. TypeOK /\ TypeOK'
    BY NextTypeOK DEF IndInv
  <1> USE <1>0
  <1> DEFINE Rest == /\ PlansValid /\ PushesValid /\ FreshOps /\ FreshMerges /\ SeenInv
                     /\ AppliedInv /\ RecoveryInv /\ EventsAreReal /\ MergeRowsLive
                     /\ MergedIsReal
  <1>a. Rest /\ JournalInv
    BY DEF IndInv, JournalInv
  <1>p. PlansValid /\ PushesValid
    BY <1>a
  <1>m. MergedIsReal
    BY <1>a
  <1>b. ASSUME UNCHANGED <<refs, pc, intent, old, new, plan, mergeRow, events, pr, seen,
                           recovering, todo, verdict>>
        PROVE  Rest'
    BY <1>a, <1>b DEF PlansValid, PushesValid, FreshOps, FreshMerges, SeenInv, AppliedInv,
      RecoveryInv, EventsAreReal, MergeRowsLive, MergedIsReal, Incomplete,
      AtProposed, Matches, Touched
  <1>c. ASSUME UNCHANGED vars PROVE Rest'
    BY <1>b, <1>c DEF vars, repoVars, journalVars, requestVars, recoveryVars, historyVars
  <1>d. ASSUME Shutdown \/ Drained \/ Start PROVE Rest'
    BY <1>b, <1>d DEF Shutdown, Drained, Start, repoVars, journalVars, requestVars,
      recoveryVars, historyVars
  <1> USE DEF TypeOK, PlansValid, PushesValid, FreshOps, FreshMerges, SeenInv, AppliedInv,
      RecoveryInv, EventsAreReal, MergeRowsLive, MergedIsReal, Incomplete,
      AtProposed, Matches, Touched, Ops
  <1> USE DEF vars, repoVars, journalVars, requestVars, recoveryVars, historyVars
  <1>1. ASSUME NEW p \in Pushes, PushCheck(p) PROVE Rest'
    <2>1. /\ pc[p] = "idle" /\ pc' = [pc EXCEPT ![p] = "checked"]
          /\ \A i \in Ops \ {p} : old'[i] = old[i] /\ new'[i] = new[i]
          /\ UNCHANGED <<refs, intent, mergeRow, events, pr, plan, seen, recovering, todo, verdict>>
      BY <1>1 DEF PushCheck, Goto
    <2>2. intent[p] = "none"
      BY <1>a, <2>1
    <2>3. PlansValid' /\ PushesValid'
      BY <1>p, <2>1, OpsAssumption
    <2>4. SeenInv' /\ AppliedInv'
      <3>1. ASSUME NEW i \in Ops, Incomplete(i)'
            PROVE  i # p /\ Incomplete(i) /\ pc'[i] = pc[i] /\ AtProposed(i)' = AtProposed(i)
        BY <2>1, <2>2, <3>1
      <3>2. SeenInv /\ AppliedInv
        BY <1>a
      <3> QED
        BY <2>1, <3>1, <3>2
    <2>5. FreshOps' /\ FreshMerges' /\ RecoveryInv' /\ EventsAreReal' /\ MergeRowsLive'
      BY <1>a, <2>1
    <2>6. MergedIsReal'
      BY <1>m, <2>1, MergedFrame
    <2> QED
      BY <2>3, <2>4, <2>5, <2>6
  <1>2. ASSUME NEW p \in Pushes, PushBegin(p) PROVE Rest'
    BY SMTT(30), <1>2, <1>a, OpsAssumption DEF PushBegin, Goto, BeginIntent, Observe
  <1>3. ASSUME NEW p \in Pushes, PushStore(p) PROVE Rest'
    BY <1>3, <1>a, OpsAssumption DEF PushStore, Goto, CommandAllowed
  <1>4. ASSUME NEW p \in Pushes, PushMark(p) PROVE Rest'
    BY <1>4, <1>a, OpsAssumption DEF PushMark, Goto, CanMark, MarkPromoted
  <1>5. ASSUME NEW p \in Pushes, PushLock(p) PROVE Rest'
    BY <1>5, <1>a, OpsAssumption DEF PushLock, Goto
  <1>6. ASSUME NEW p \in Pushes, NEW r \in Refs, PushWriteRef(p, r) PROVE Rest'
    <2>1. /\ refs' = [refs EXCEPT ![r] = new[p][r]]
          /\ UNCHANGED <<old, new, plan, intent, mergeRow, events, pr, recovering, todo, verdict>>
          /\ pc' \in {pc, [pc EXCEPT ![p] = "applied"]}
          /\ pc' # pc => Matches(refs', p, new[p])
          /\ Observe(refs', intent)
      BY <1>6 DEF PushWriteRef, Goto
    <2>2. PlansValid' /\ PushesValid' /\ FreshOps' /\ FreshMerges' /\ RecoveryInv'
          /\ EventsAreReal' /\ MergeRowsLive' /\ MergedIsReal'
      BY <1>6, <1>a, <2>1, OpsAssumption DEF PushWriteRef, Observe
    <2>3. SeenInv'
      BY <2>1 DEF Observe
    <2>4. AppliedInv'
      <3>1. ASSUME NEW i \in Ops, pc'[i] = "applied", Incomplete(i)' PROVE i \in seen'
        <4>1. CASE pc[i] = "applied"
          BY <1>a, <2>1, <3>1, <4>1 DEF Observe
        <4>2. CASE pc[i] # "applied"
          <5>1. i = p /\ Matches(refs', i, new[i])
            BY <2>1, <3>1, <4>2
          <5> QED
            BY <2>1, <3>1, <5>1 DEF Observe
        <4> QED
          BY <4>1, <4>2
      <3> QED
        BY <3>1
    <2> QED
      BY <2>2, <2>3, <2>4
  <1>7. ASSUME NEW p \in Pushes, PushComplete(p) PROVE Rest'
    <2>1. p \in seen /\ JournalInv'
      BY <1>7, <1>a, CompleteKeepsJournal DEF PushComplete, CanComplete
    <2>2. intent' = [intent EXCEPT ![p] = "completed"]
      BY <1>7 DEF PushComplete, Complete
    <2> QED
      BY <1>7, <1>a, <2>1, <2>2, OpsAssumption DEF PushComplete, Goto, JournalInv
  <1>8. ASSUME NEW p \in Pushes, PushFail(p) PROVE Rest'
    BY <1>8, <1>a, OpsAssumption DEF PushFail, Goto
  <1>9. ASSUME NEW m \in Merges, NEW q \in PullRequests, MergePlan(m, q) PROVE Rest'
    <2>1. PICK target \in MergeTarget(pr[q].base, pr[q].head) :
            new' = [new EXCEPT ![m] = [refs EXCEPT ![pr[q].base_ref] = target]]
      BY <1>9 DEF MergePlan
    <2>2. /\ pc[m] = "idle" /\ pc' = [pc EXCEPT ![m] = "checked"]
          /\ old' = [old EXCEPT ![m] = refs]
          /\ refs[pr[q].base_ref] = pr[q].base
          /\ \A n \in Merges \ {m} : plan'[n] = plan[n]
          /\ UNCHANGED <<refs, intent, mergeRow, events, pr, seen, recovering, todo, verdict>>
      BY <1>9 DEF MergePlan, Goto
    <2>3. intent[m] = "none"
      BY <1>a, <2>2
    <2>4. PlansValid'
      BY <1>p, <2>1, <2>2, MergeTargetForward
    <2>5. PushesValid' /\ FreshOps' /\ FreshMerges' /\ RecoveryInv'
      BY <1>a, <2>1, <2>2, OpsAssumption
    <2>6. SeenInv' /\ AppliedInv'
      <3>1. ASSUME NEW i \in Ops, Incomplete(i)'
            PROVE  i # m /\ Incomplete(i) /\ pc'[i] = pc[i] /\ AtProposed(i)' = AtProposed(i)
        BY <2>1, <2>2, <2>3, <3>1
      <3>2. SeenInv /\ AppliedInv
        BY <1>a
      <3> QED
        BY <2>2, <3>1, <3>2
    <2>7. EventsAreReal' /\ MergeRowsLive'
      BY <1>a, <2>2
    <2>8. MergedIsReal'
      BY <1>m, <2>2, <2>3, MergedFrame
    <2> QED
      BY <2>4, <2>5, <2>6, <2>7, <2>8
  <1>10. ASSUME NEW m \in Merges, MergeBegin(m) PROVE Rest'
    <2>1. /\ pc[m] = "checked" /\ pc' = [pc EXCEPT ![m] = "pending"]
          /\ intent' = [intent EXCEPT ![m] = "pending"]
          /\ mergeRow' = [mergeRow EXCEPT ![m] = plan[m].pr]
          /\ \A n \in Merges : mergeRow[n] # plan[m].pr
          /\ Observe(refs, intent')
          /\ UNCHANGED <<refs, old, new, plan, events, pr, recovering, todo, verdict>>
      BY <1>10 DEF MergeBegin, Goto, BeginIntent, PlanCurrent
    <2>2. intent[m] = "none"
      BY <1>a, <2>1
    <2>3. PlansValid' /\ PushesValid' /\ FreshOps' /\ FreshMerges'
      BY <1>a, <2>1, OpsAssumption
    <2>4. SeenInv' /\ AppliedInv' /\ RecoveryInv'
      BY <1>a, <2>1, <2>2 DEF Observe
    <2>5. EventsAreReal' /\ MergeRowsLive'
      BY <1>a, <2>1, <2>2 DEF Observe
    <2>6. MergedIsReal'
      BY <1>m, <2>1, <2>2 DEF Observe
    <2> QED
      BY <2>3, <2>4, <2>5, <2>6
  <1>11. ASSUME NEW m \in Merges, MergeRefused(m) PROVE Rest'
    BY <1>11, <1>a, OpsAssumption DEF MergeRefused, Goto
  <1>12. ASSUME NEW m \in Merges, MergeWrite(m) PROVE Rest'
    BY <1>12, <1>a, OpsAssumption DEF MergeWrite, Goto
  <1>13. ASSUME NEW m \in Merges, MergeMark(m) PROVE Rest'
    <2>1. /\ pc[m] = "stored"
          /\ UNCHANGED <<refs, old, new, plan, mergeRow, events, pr, seen, recovering, todo, verdict>>
      BY <1>13 DEF MergeMark
    <2>2. CASE CanMark(m)
      <3>1. /\ pc' = [pc EXCEPT ![m] = "promoted"]
            /\ intent[m] = "pending" /\ intent' = [intent EXCEPT ![m] = "promoted"]
        BY <1>13, <2>2 DEF MergeMark, Goto, CanMark, MarkPromoted
      <3>2. PlansValid' /\ PushesValid' /\ FreshOps' /\ FreshMerges'
        BY <1>a, <2>1, <3>1, OpsAssumption
      <3>3. SeenInv' /\ AppliedInv' /\ RecoveryInv'
        BY <1>a, <2>1, <3>1
      <3>4. EventsAreReal' /\ MergeRowsLive' /\ MergedIsReal'
        BY <1>a, <2>1, <3>1
      <3> QED
        BY <3>2, <3>3, <3>4
    <2>3. CASE ~CanMark(m)
      <3>1. pc' = [pc EXCEPT ![m] = "done"] /\ intent' = intent
        BY <1>13, <2>3 DEF MergeMark, Goto
      <3>2. PlansValid' /\ PushesValid' /\ FreshOps' /\ FreshMerges'
        BY <1>a, <2>1, <3>1, OpsAssumption
      <3> QED
        BY <1>a, <2>1, <3>1, <3>2
    <2> QED
      BY <2>2, <2>3
  <1>14. ASSUME NEW m \in Merges, MergeApply(m) PROVE Rest'
    <2>1. /\ refs' = [r \in Refs |-> IF r \in Touched(m) THEN new[m][r] ELSE refs[r]]
          /\ UNCHANGED <<old, new, plan, intent, mergeRow, events, pr, recovering, todo, verdict>>
          /\ pc[m] = "promoted" /\ pc' = [pc EXCEPT ![m] = "applied"]
          /\ Observe(refs', intent)
      BY <1>14 DEF MergeApply, Goto
    <2>2. PlansValid' /\ PushesValid' /\ FreshOps' /\ FreshMerges' /\ RecoveryInv'
          /\ EventsAreReal' /\ MergeRowsLive' /\ MergedIsReal'
      BY <1>a, <2>1, OpsAssumption DEF Observe
    <2>3. SeenInv'
      BY <2>1 DEF Observe
    <2>4. AppliedInv'
      <3>1. Matches(refs', m, new[m])
        BY <2>1
      <3> QED
        BY <1>a, <2>1, <3>1 DEF Observe
    <2> QED
      BY <2>2, <2>3, <2>4
  <1>15. ASSUME NEW m \in Merges, MergeApplyFails(m) PROVE Rest'
    BY <1>15, <1>a, OpsAssumption DEF MergeApplyFails, Goto
  <1>16. ASSUME NEW m \in Merges, MergeConflict(m) PROVE Rest'
    <2>1. pc' = [pc EXCEPT ![m] = "done"] /\ UNCHANGED <<refs, old, new, plan, seen, recovering, todo, verdict>>
      BY <1>16 DEF MergeConflict, Goto
    <2>2. CASE AtProposed(m) /\ CanComplete(m) /\ Complete(m)
      <3>1. m \in seen /\ JournalInv'
        BY <1>a, <2>1, <2>2, CompleteKeepsJournal DEF CanComplete
      <3>2. intent' = [intent EXCEPT ![m] = "completed"]
        BY <2>2 DEF Complete
      <3> QED
        BY <1>a, <2>1, <3>1, <3>2, OpsAssumption DEF JournalInv
    <2>3. CASE CanAbandon(m) /\ Abandon(m)
      <3>1. JournalInv'
        BY <1>a, <2>1, <2>3, AbandonKeepsJournal
      <3>2. intent' = [intent EXCEPT ![m] = "abandoned"]
        BY <2>3 DEF Abandon
      <3> QED
        BY <1>a, <2>1, <2>3, <3>1, <3>2, OpsAssumption DEF JournalInv, CanAbandon
    <2>4. CASE UNCHANGED journalVars
      BY <1>a, <2>1, <2>4, OpsAssumption
    <2> QED
      BY <1>16, <2>2, <2>3, <2>4 DEF MergeConflict
  <1>17. ASSUME NEW m \in Merges, MergeComplete(m) PROVE Rest'
    <2>1. /\ pc[m] = "applied" /\ pc' = [pc EXCEPT ![m] = "done"]
          /\ UNCHANGED <<refs, old, new, plan, seen, recovering, todo, verdict>>
      BY <1>17 DEF MergeComplete, Goto
    <2>2. CASE CanComplete(m)
      <3>1. Complete(m)
        BY <1>17, <2>2 DEF MergeComplete
      <3>2. m \in seen /\ JournalInv'
        BY <1>a, <2>1, <2>2, <3>1, CompleteKeepsJournal DEF CanComplete
      <3>3. intent' = [intent EXCEPT ![m] = "completed"]
        BY <3>1 DEF Complete
      <3> QED
        BY <1>a, <2>1, <3>2, <3>3, OpsAssumption DEF JournalInv
    <2>3. CASE ~CanComplete(m)
      <3>1. UNCHANGED journalVars
        BY <1>17, <2>3 DEF MergeComplete
      <3> QED
        BY <1>a, <2>1, <3>1, OpsAssumption
    <2> QED
      BY <2>2, <2>3
  <1>18. ASSUME RecoverList PROVE Rest'
    BY <1>18, <1>a DEF RecoverList
  <1>19. ASSUME NEW i \in Ops, RecoverRead(i) PROVE Rest'
    <2>1. Decision(i) = "complete" => AtProposed(i)
      BY DEF Decision
    <2>2. /\ recovering /\ i \in todo /\ verdict' = [verdict EXCEPT ![i] = Decision(i)]
          /\ UNCHANGED <<refs, pc, old, new, plan, seen, journalVars, recovering, todo>>
      BY <1>19 DEF RecoverRead
    <2> QED
      BY <1>a, <2>1, <2>2
  <1>20. ASSUME NEW i \in Ops, RecoverDiscard(i) PROVE Rest'
    BY <1>20, <1>a DEF RecoverDiscard
  <1>21. ASSUME NEW i \in Ops, RecoverSettle(i) PROVE Rest'
    <2>1. /\ todo' = todo \ {i} /\ verdict' = [verdict EXCEPT ![i] = "unread"]
          /\ recovering' = recovering
          /\ UNCHANGED <<refs, pc, old, new, plan, seen>>
      BY <1>21 DEF RecoverSettle
    <2>2. CASE verdict[i] = "complete" /\ CanComplete(i) /\ Complete(i)
      <3>1. i \in seen /\ JournalInv'
        BY <1>a, <2>1, <2>2, CompleteKeepsJournal DEF CanComplete
      <3>2. intent[i] = "promoted" /\ intent' = [intent EXCEPT ![i] = "completed"]
        BY <2>2 DEF Complete, CanComplete
      <3> QED
        BY <1>a, <2>1, <3>1, <3>2 DEF JournalInv
    <2>3. CASE CanAbandon(i) /\ Abandon(i)
      <3>1. JournalInv'
        BY <1>a, <2>1, <2>3, AbandonKeepsJournal
      <3>2. intent' = [intent EXCEPT ![i] = "abandoned"]
        BY <2>3 DEF Abandon
      <3> QED
        BY <1>a, <2>1, <2>3, <3>1, <3>2 DEF JournalInv, CanAbandon
    <2> QED
      BY <1>21, <2>2, <2>3 DEF RecoverSettle
  <1>22. ASSUME NEW ok \in BOOLEAN, RecoverReturn(ok) PROVE Rest'
    BY <1>22, <1>a DEF RecoverReturn, Failing
  <1>23. ASSUME NEW q \in PullRequests, OpenPr(q) PROVE Rest'
    BY <1>23, <1>a DEF OpenPr
  <1>24. ASSUME NEW q \in PullRequests, RevisePr(q) PROVE Rest'
    <2>1. /\ pr[q].state = "open" /\ pr[q] \in PrRows
          /\ UNCHANGED <<refs, pc, intent, old, new, plan, mergeRow, events, seen,
                         recovering, todo, verdict>>
      BY <1>24 DEF RevisePr
    <2>2. \A x \in PullRequests \ {q} : pr'[x] = pr[x]
      BY <1>24 DEF RevisePr
    <2>3. pr'[q].state = "open"
      BY <1>24, <2>1 DEF RevisePr, PrRows
    <2>4. MergedIsReal'
      BY <1>m, <2>1, <2>2, <2>3, MergedFrame
    <2> QED
      BY <1>a, <2>1, <2>4
  <1>25. ASSUME NEW q \in PullRequests, NEW s \in {"open", "closed"}, SetPrState(q, s)
         PROVE  Rest'
    <2>1. /\ pr[q].state # "merged" /\ pr[q] \in PrRows
          /\ UNCHANGED <<refs, pc, intent, old, new, plan, mergeRow, events, seen,
                         recovering, todo, verdict>>
      BY <1>25 DEF SetPrState
    <2>2. \A x \in PullRequests \ {q} : pr'[x] = pr[x]
      BY <1>25 DEF SetPrState
    <2>3. pr'[q].state = s
      BY <1>25, <2>1 DEF SetPrState, PrRows
    <2>4. MergedIsReal'
      BY <1>m, <2>1, <2>2, <2>3, MergedFrame
    <2> QED
      BY <1>a, <2>1, <2>4
  <1>26. ASSUME Crash PROVE Rest'
    BY <1>26, <1>a DEF Crash, Active
  <1>28. ASSUME NEW p \in Pushes, PushRefused(p) PROVE Rest'
    BY <1>28, <1>a, OpsAssumption DEF PushRefused, Goto
  <1>29. ASSUME NEW m \in Merges, MergeError(m) PROVE Rest'
    BY <1>29, <1>a, OpsAssumption DEF MergeError, Goto
  <1>30. ASSUME NEW m \in Merges, MergeWriteFails(m) PROVE Rest'
    <2>1. pc' = [pc EXCEPT ![m] = "done"] /\ UNCHANGED <<refs, old, new, plan, seen, recovering, todo, verdict>>
      BY <1>30 DEF MergeWriteFails, Goto
    <2>2. CASE CanAbandon(m)
      <3>1. Abandon(m)
        BY <1>30, <2>2 DEF MergeWriteFails
      <3>2. JournalInv'
        BY <1>a, <2>1, <2>2, <3>1, AbandonKeepsJournal
      <3>3. intent' = [intent EXCEPT ![m] = "abandoned"]
        BY <3>1 DEF Abandon
      <3> QED
        BY <1>a, <2>1, <2>2, <3>2, <3>3, OpsAssumption DEF JournalInv, CanAbandon
    <2>3. CASE ~CanAbandon(m)
      <3>1. UNCHANGED journalVars
        BY <1>30, <2>3 DEF MergeWriteFails
      <3> QED
        BY <1>a, <2>1, <3>1, OpsAssumption
    <2> QED
      BY <2>2, <2>3
  <1>31. Rest'
    BY <1>1, <1>2, <1>3, <1>4, <1>5, <1>6, <1>7, <1>8, <1>9, <1>10, <1>11, <1>12, <1>13,
       <1>14, <1>15, <1>16, <1>17, <1>18, <1>19, <1>20, <1>21, <1>22, <1>23, <1>24, <1>25,
       <1>26, <1>28, <1>29, <1>30, <1>c, <1>d
    DEF Next, PushStep, MergeStep, RecoverStep, RecoverEnd, RecoverError, RecoverFails
  <1> QED
    BY <1>31 DEF IndInv

\* The inductive invariant holds in every reachable state.
LEMMA Invariance == Spec => []IndInv
  BY InitIndInv, NextIndInv, PTL DEF Spec

\* Every reachable state of GitOperations is well typed, for every choice of
\* operations, refs and commits.
THEOREM TypeCorrect == Spec => []TypeOK
  <1>1. IndInv => TypeOK
    BY DEF IndInv
  <1> QED
    BY <1>1, Invariance, PTL

\* An event row is written only for an operation whose proposed refs were in
\* place after its intent was begun, by complete_git_intent and by nothing else.
THEOREM EventsReal == Spec => []EventsAreReal
  <1>1. IndInv => EventsAreReal
    BY DEF IndInv
  <1> QED
    BY <1>1, Invariance, PTL

\* A pull request is marked merged only with a completed merge of its latest
\* revision whose target was on the base branch.
THEOREM MergedReal == Spec => []MergedIsReal
  <1>1. IndInv => MergedIsReal
    BY DEF IndInv
  <1> QED
    BY <1>1, Invariance, PTL

\* abandon_git_intent always frees the pull request, and no pull request ever
\* has two merge rows.
THEOREM MergeRowsAlive == Spec => []MergeRowsLive
  <1>1. IndInv => MergeRowsLive
    BY DEF IndInv
  <1> QED
    BY <1>1, Invariance, PTL

-----------------------------------------------------------------------------
\* Only the ref transaction of a push and the swap of a merge change the refs.
LEMMA RefWriters ==
  ASSUME [Next]_vars
  PROVE  \/ refs' = refs
         \/ \E p \in Pushes, x \in Refs : PushWriteRef(p, x)
         \/ \E m \in Merges : MergeApply(m)
  BY DEF Next, vars, repoVars, PushStep, MergeStep, RecoverStep, PushCheck, PushBegin,
     PushRefused, PushStore, PushMark, PushLock, PushComplete, PushFail, MergePlan, MergeBegin,
     MergeRefused, MergeWrite, MergeWriteFails, MergeMark, MergeError, MergeApplyFails,
     MergeConflict, MergeComplete, RecoverList, RecoverRead, RecoverDiscard, RecoverSettle,
     RecoverReturn, RecoverEnd, RecoverError, RecoverFails, OpenPr, RevisePr, SetPrState, Crash, Shutdown,
     Drained, Start

\* What those two write: a descendant of what the ref pointed to, or nothing at
\* a branch that is not the default one.
LEMMA RefWrites ==
  ASSUME IndInv, [Next]_vars, NEW r \in Refs, refs[r] # NoOid
  PROVE  IF refs'[r] = NoOid THEN r # Default ELSE <<refs[r], refs'[r]>> \in Ancestry
  <1>0. TypeOK /\ PlansValid /\ PushesValid
    BY DEF IndInv
  <1>1. refs[r] \in Oids /\ <<refs[r], refs[r]>> \in Ancestry
    BY <1>0, OidAssumption DEF TypeOK, Targets
  <1>2. CASE refs'[r] = refs[r]
    BY <1>1, <1>2
  <1>3. ASSUME NEW p \in Pushes, NEW x \in Refs, PushWriteRef(p, x), refs'[r] # refs[r]
        PROVE  IF refs'[r] = NoOid THEN r # Default ELSE <<refs[r], refs'[r]>> \in Ancestry
    <2>1. /\ refs' = [refs EXCEPT ![x] = new[p][x]] /\ refs[x] = old[p][x]
          /\ pc[p] = "commit" /\ x \in Touched(p)
      BY <1>3 DEF PushWriteRef
    <2>2. r = x
      BY <1>0, <1>3, <2>1 DEF TypeOK
    <2>3. refs'[r] = new[p][r] /\ refs[r] = old[p][r] /\ r \in Touched(p)
      BY <1>0, <2>1, <2>2 DEF TypeOK
    <2> QED
      BY <1>0, <2>1, <2>3 DEF PushesValid
  <1>4. ASSUME NEW m \in Merges, MergeApply(m), refs'[r] # refs[r]
        PROVE  refs'[r] # NoOid /\ <<refs[r], refs'[r]>> \in Ancestry
    <2>1. /\ refs' = [x \in Refs |-> IF x \in Touched(m) THEN new[m][x] ELSE refs[x]]
          /\ pc[m] = "promoted" /\ \A x \in Touched(m) : refs[x] = old[m][x]
      BY <1>4 DEF MergeApply, AtInitial, Matches
    <2>2. r \in Touched(m) /\ refs'[r] = new[m][r] /\ refs[r] = old[m][r]
      BY <1>4, <2>1
    <2>3. <<refs[r], refs'[r]>> \in Ancestry
      BY <1>0, <2>1, <2>2 DEF PlansValid
    <2> QED
      BY <2>3, AncestryTyped
  <1> QED
    BY <1>2, <1>3, <1>4, RefWriters

\* The default branch is never removed: neither validated pushes, nor merges, nor
\* any recovery after a crash leave the repository without it.
THEOREM DefaultKept == Spec => DefaultBranchKept
  <1>1. ASSUME IndInv, [Next]_vars PROVE refs[Default] # NoOid => refs'[Default] # NoOid
    BY <1>1, RefWrites, RefAssumption
  <1>2. IndInv /\ [Next]_vars => [refs[Default] # NoOid => refs'[Default] # NoOid]_vars
    BY <1>1
  <1> QED
    BY <1>2, Invariance, PTL DEF Spec, DefaultBranchKept

\* Branches only move forward: the ancestry that a push or a merge checked long
\* before its ref transaction still holds when the ref is written.
THEOREM ForwardOnly == Spec => NoForceUpdate
  <1> DEFINE Forward == \A r \in Refs : refs[r] # NoOid /\ refs'[r] # NoOid =>
                                         <<refs[r], refs'[r]>> \in Ancestry
  <1>1. ASSUME IndInv, [Next]_vars PROVE Forward
    BY <1>1, RefWrites
  <1>2. IndInv /\ [Next]_vars => [Forward]_vars
    BY <1>1
  <1> QED
    BY <1>2, Invariance, PTL DEF Spec, NoForceUpdate

\* Both rules that a push is checked against hold of every step of every actor,
\* however long after the check the refs are written.
THEOREM RulesKept == Spec => RefRulesKept
  BY ForwardOnly, DefaultKept DEF RefRulesKept

-----------------------------------------------------------------------------
(***************************************************************************)
(* The object store.  Merges run beside pushes, and both beside the        *)
(* recovery of a failed push.  What a push relies on holds as long as no   *)
(* merge swaps a ref of that push before it is settled, whatever merges do *)
(* to other refs and other pushes; what all refs rely on holds as long as  *)
(* this has happened to no push.  Both end with a recovery that lapsed.    *)
(***************************************************************************)

\* The push permit: at most one push is in flight, none while the server is down
\* or starting, and a recovery runs at startup or inside the push that failed.
PermitInv ==
  /\ \A p, q \in Pushes : Active(p) /\ Active(q) => p = q
  /\ phase \in {"down", "refused", "recover", "web"} => \A p \in Pushes : ~Active(p)
  /\ phase \in {"down", "refused"} => ~recovering
  /\ recovering => /\ phase \in {"recover", "web"} \/ Failing # {}
                   /\ \A p \in Pushes : Active(p) => pc[p] = "failing"
  /\ \A i \in applied : pc[i] # "idle"

\* What is stored apart from one pack.
Without(name) == loose \cup UNION (packs \ {name})

\* One push at most is incomplete; while the server serves it is the one in flight.
OpenInv ==
  /\ phase = "up" => \A p \in Pushes : Incomplete(p) => Active(p)
  /\ \A p, q \in Pushes : Incomplete(p) /\ (Active(q) \/ Incomplete(q)) => p = q

\* What the stage of a push says about its refs and its intent.
StageInv(p) ==
  /\ pc[p] # "idle" => Touched(p) # {}
  /\ p \notin overtaken /\ pc[p] \in {"checked", "pending", "stored", "promoted"} => AtInitial(p)
  /\ pc[p] \in {"pending", "stored"} => intent[p] = "pending"
  /\ pc[p] \in {"promoted", "commit", "applied"} => intent[p] = "promoted"
  /\ intent[p] \in {"none", "pending"} => packName[p] = {}
  /\ p \in applied => pc[p] \in {"applied", "failing", "done"}

\* The refs of an incomplete push are where it put them or where it found them.
BetweenInv(p) ==
  Incomplete(p) /\ p \notin overtaken =>
    /\ \A r \in Touched(p) : refs[r] \in {old[p][r], new[p][r]}
    /\ p \in applied => AtProposed(p) /\ intent[p] = "promoted"

\* A push that will write its refs has the objects for them.
StoreInv(p) ==
  pc[p] \in {"stored", "promoted", "commit"} =>
    \A r \in Touched(p) : Closure(new[p][r]) \subseteq Objects

RecordedInv(p) == p \in applied \ overtaken => intent[p] \in {"promoted", "completed"}

PushFacts(p) == StageInv(p) /\ BetweenInv(p) /\ StoreInv(p) /\ RecordedInv(p)

\* A recovery has all incomplete pushes on its list, with their present states, and
\* gives up only pushes that moved nothing, or that a merge overtook.
JudgedInv ==
  \A p \in Pushes :
    /\ recovering => (p \in todo <=> Incomplete(p)) /\ (p \in todo => snap[p] = intent[p])
    /\ p \notin overtaken /\ verdict[p] \in {"discard", "abandon"} => p \notin applied
    /\ p \notin overtaken /\ verdict[p] = "discard" => AtInitial(p)

PushState == OpenInv /\ JudgedInv /\ \A p \in Pushes : PushFacts(p)

\* Stored commits that no recovery takes along when it gives up one of these pushes.
Spared(C, S) ==
  /\ C \subseteq Objects
  /\ \A p \in S : /\ Incomplete(p) => C \subseteq Without(packName[p])
                  /\ pc[p] = "stored" => C \subseteq Without(pack[p])

\* What a push put on its branches stays: no other push has it in its pack alone.
KeptInv ==
  \A p \in (applied \cap Pushes) \ overtaken :
    \A r \in Touched(p) : Spared(Closure(new[p][r]), Pushes \ {p})

\* Commits that stay whatever recovery gives up: only a push whose refs are where it
\* found them loses its pack.
Undone == {p \in Pushes : AtInitial(p)}
Safe(C) == Spared(C, Undone)

RefsSafe == \A r \in Refs : Safe(Closure(refs[r]))

\* What the target of a merge reaches, apart from the merge commit that it writes itself.
Written(m) == {new[m][r] : r \in Touched(m)} \ {plan[m].head}
Needed(m) ==
  {a \in Oids \ Written(m) : \E r \in Touched(m) : a \in Closure(new[m][r])}

\* What the target of a merge reaches is safe, and the merge commit is written before
\* the ref is swapped.
MergeFacts(m) ==
  /\ pc[m] \in {"checked", "pending", "stored", "promoted"} => Safe(Needed(m))
  /\ pc[m] \in {"stored", "promoted"} => Written(m) \subseteq loose

\* A merge has no pack.
NoMergePacks == \A m \in Merges : packName[m] = {}

\* While no push is overtaken, all that the refs reach and all that a merge is about to
\* put on them is safe.
SafeState == overtaken = {} => RefsSafe /\ \A m \in Merges : MergeFacts(m)

RepoState == PushState /\ KeptInv /\ NoMergePacks /\ SafeState

RepoInv == ~lapsed => RepoState

\* A step of a push in flight keeps what the permit gives.
LEMMA PermitStep ==
  ASSUME TypeOK, PermitInv, NEW p \in Pushes, NEW stage \in Stages, stage # "idle",
         Active(p), pc[p] # "failing",
         pc' = [pc EXCEPT ![p] = stage], applied' \subseteq applied \cup {p},
         UNCHANGED <<phase, recovering>>
  PROVE  PermitInv'
  <1>1. /\ \A q \in Pushes : q # p => pc'[q] = pc[q] /\ ~Active(q)
        /\ pc'[p] = stage /\ \A i \in Ops : i # p => pc'[i] = pc[i]
    BY DEF TypeOK, PermitInv, Ops
  <1>2. ~recovering /\ phase \notin {"down", "refused", "recover", "web"}
    BY DEF PermitInv
  <1>3. \A i \in applied' : pc'[i] # "idle"
    BY <1>1 DEF PermitInv, TypeOK
  <1> QED
    BY <1>1, <1>2, <1>3 DEF PermitInv, Active

\* A step of a merge does not touch it.
LEMMA PermitMerge ==
  ASSUME TypeOK, PermitInv, NEW m \in Merges, NEW stage \in Stages, stage # "idle",
         pc' = [pc EXCEPT ![m] = stage], applied' \subseteq applied \cup {m},
         UNCHANGED <<phase, recovering>>
  PROVE  PermitInv'
  <1>1. /\ \A q \in Pushes : pc'[q] = pc[q]
        /\ pc'[m] = stage /\ \A i \in Ops : i # m => pc'[i] = pc[i]
    BY OpsAssumption DEF TypeOK, Ops
  <1>2. \A i \in applied' : pc'[i] # "idle"
    BY <1>1 DEF PermitInv, TypeOK
  <1>3. Failing' = Failing
    BY <1>1 DEF Failing
  <1> QED
    BY <1>1, <1>2, <1>3 DEF PermitInv, Active

\* Every step keeps what the permit gives.
LEMMA NextPermit == TypeOK /\ PermitInv /\ [Next]_vars => PermitInv'
  <1> SUFFICES ASSUME TypeOK, PermitInv, [Next]_vars PROVE PermitInv'
    OBVIOUS
  <1> USE DEF vars, repoVars, journalVars, requestVars, recoveryVars, historyVars
  <1>0. ASSUME UNCHANGED <<pc, phase, recovering, applied>> PROVE PermitInv'
    BY <1>0 DEF PermitInv, Active, Failing
  <1>1. ASSUME NEW p \in Pushes, PushCheck(p) PROVE PermitInv'
    <2>1. /\ phase = "up" /\ pc[p] = "idle" /\ \A q \in Pushes : ~Active(q)
          /\ pc' = [pc EXCEPT ![p] = "checked"] /\ UNCHANGED <<phase, recovering, applied>>
      BY <1>1 DEF PushCheck, PushRunning, Goto
    <2>2. Failing = {}
      BY <2>1 DEF Failing, Active
    <2>3. ~recovering
      BY <2>1, <2>2 DEF PermitInv
    <2>4. /\ \A q \in Pushes : q # p => pc'[q] = pc[q]
          /\ \A i \in Ops : pc[i] # "idle" => pc'[i] # "idle"
      BY <2>1 DEF TypeOK, Ops
    <2> QED
      BY <2>1, <2>3, <2>4 DEF PermitInv, Active, TypeOK
  <1>2. ASSUME NEW p \in Pushes, PushStep(p) PROVE PermitInv'
    <2>1. /\ Active(p) /\ pc[p] # "failing" /\ applied' \subseteq applied \cup {p}
          /\ UNCHANGED <<phase, recovering>>
      BY <1>2 DEF PushStep, PushBegin, PushRefused, PushStore, PushMark, PushLock,
         PushWriteRef, PushComplete, PushFail, Active
    <2>2. \/ pc' = pc /\ applied' = applied
          \/ \E stage \in Stages \ {"idle"} : pc' = [pc EXCEPT ![p] = stage]
      BY <1>2 DEF PushStep, PushBegin, PushRefused, PushStore, PushMark, PushLock,
         PushWriteRef, PushComplete, PushFail, Goto, Stages
    <2> QED
      BY <1>0, <2>1, <2>2, PermitStep
  <1>3. ASSUME NEW m \in Merges, MergeStep(m) PROVE PermitInv'
    <2>1. applied' \subseteq applied \cup {m} /\ UNCHANGED <<phase, recovering>>
      BY <1>3 DEF MergeStep, MergeBegin, MergeRefused, MergeWrite, MergeWriteFails,
         MergeMark, MergeError, MergeApply, MergeApplyFails, MergeConflict, MergeComplete
    <2>2. \E stage \in Stages \ {"idle"} : pc' = [pc EXCEPT ![m] = stage]
      BY <1>3 DEF MergeStep, MergeBegin, MergeRefused, MergeWrite, MergeWriteFails,
         MergeMark, MergeError, MergeApply, MergeApplyFails, MergeConflict, MergeComplete,
         Goto, Stages
    <2> QED
      BY <2>1, <2>2, PermitMerge
  <1>4. ASSUME NEW m \in Merges, NEW q \in PullRequests, MergePlan(m, q) PROVE PermitInv'
    <2>1. /\ applied' \subseteq applied \cup {m} /\ UNCHANGED <<phase, recovering>>
          /\ pc' = [pc EXCEPT ![m] = "checked"] /\ "checked" \in Stages
      BY <1>4 DEF MergePlan, Goto, Stages
    <2> QED
      BY <2>1, PermitMerge
  <1>5. ASSUME RecoverList PROVE PermitInv'
    <2>1. /\ phase \in {"recover", "web"} \/ Failing # {}
          /\ UNCHANGED <<pc, phase, applied>>
      BY <1>5 DEF RecoverList
    <2>2. \A p \in Pushes : Active(p) => pc[p] = "failing"
      BY <2>1 DEF PermitInv, Active, Failing
    <2> QED
      BY <2>1, <2>2 DEF PermitInv, Active, Failing
  <1>6. ASSUME NEW ok \in BOOLEAN, RecoverReturn(ok),
               recovering \/ phase \in {"recover", "web"} \/ Failing # {}
        PROVE  PermitInv'
    <2>1. /\ recovering' = FALSE /\ applied' = applied
          /\ \A i \in Ops : pc'[i] = IF i \in Failing THEN "done" ELSE pc[i]
      BY <1>6 DEF RecoverReturn
    <2>2. \A i \in Ops : pc'[i] # "idle" <=> pc[i] # "idle"
      BY <2>1 DEF Failing
    <2>3. \A p \in Pushes : ~Active(p)'
      BY <1>6, <2>1 DEF PermitInv, Active, Failing, Ops
    <2> QED
      BY <2>1, <2>2, <2>3 DEF PermitInv, TypeOK
  <1>7. ASSUME NEW i \in Ops, RecoverRead(i) \/ RecoverDiscard(i) \/ RecoverSettle(i)
        PROVE  PermitInv'
    BY <1>0, <1>7 DEF RecoverRead, RecoverDiscard, RecoverSettle
  <1>8. ASSUME NEW q \in PullRequests,
               \/ OpenPr(q) \/ RevisePr(q) \/ \E s \in {"open", "closed"} : SetPrState(q, s)
        PROVE  PermitInv'
    BY <1>0, <1>8 DEF OpenPr, RevisePr, SetPrState
  <1>9. ASSUME Crash PROVE PermitInv'
    <2>1. /\ recovering' = FALSE /\ applied' = applied
          /\ \A i \in Ops : pc'[i] = IF Active(i) THEN "done" ELSE pc[i]
      BY <1>9 DEF Crash
    <2>2. /\ \A i \in Ops : pc'[i] # "idle" <=> pc[i] # "idle"
          /\ \A p \in Pushes : ~Active(p)'
      BY <2>1 DEF Active, Ops
    <2> QED
      BY <2>1, <2>2 DEF PermitInv, TypeOK
  <1>10. ASSUME Shutdown PROVE PermitInv'
    <2>1. phase = "up" /\ phase' = "stopping" /\ UNCHANGED <<pc, recovering, applied>>
      BY <1>10 DEF Shutdown
    <2> QED
      BY <2>1 DEF PermitInv, Active, Failing
  <1>11. ASSUME Drained PROVE PermitInv'
    BY <1>11 DEF Drained, PermitInv, Active, Failing, PushRunning
  <1>12. ASSUME Start PROVE PermitInv'
    BY <1>12 DEF Start, PermitInv, Active, Failing
  <1>13. ASSUME RecoverEnd \/ (\E i \in Ops : RecoverError(i)) \/ RecoverFails
         PROVE  PermitInv'
    BY <1>6, <1>13 DEF RecoverEnd, RecoverError, RecoverFails
  <1> QED
    BY <1>0, <1>1, <1>2, <1>3, <1>4, <1>5, <1>7, <1>8, <1>9, <1>10, <1>11, <1>12, <1>13
    DEF Next, RecoverStep

\* The permit's facts hold in every reachable state.
LEMMA PermitInvariant == Spec => []PermitInv
  <1>1. Init => PermitInv
    BY DEF Init, PermitInv, Active, Failing, Ops
  <1>2. IndInv /\ PermitInv /\ [Next]_vars => PermitInv'
    BY NextPermit DEF IndInv
  <1> QED
    BY <1>1, <1>2, Invariance, PTL DEF Spec

\* A store without the pack that is no pack is the whole store.
LEMMA WithoutNothing == Objects \subseteq Without({})
  BY DEF Objects, Without

\* The null id reaches nothing.
LEMMA NullClosure == Closure(NoOid) = {}
  BY OidAssumption DEF Closure

\* What the lemmas below assume of the state before a step.
Settled == IndInv /\ PermitInv /\ ~lapsed

\* Beside a push in flight there is no other, no incomplete one and no recovery.
LEMMA AloneInFlight ==
  ASSUME Settled, OpenInv, NEW p \in Pushes, Active(p), pc[p] # "failing"
  PROVE  /\ ~recovering /\ \A i \in Ops : verdict[i] = "unread"
         /\ \A q \in Pushes : q # p => pc[q] \in {"idle", "done"} /\ ~Incomplete(q)
  <1>1. ~recovering
    BY DEF Settled, PermitInv
  <1>2. \A i \in Ops : verdict[i] = "unread"
    BY <1>1 DEF Settled, IndInv, RecoveryInv
  <1>3. \A q \in Pushes : q # p => ~Active(q) /\ ~Incomplete(q)
    BY DEF Settled, PermitInv, OpenInv
  <1> QED
    BY <1>1, <1>2, <1>3 DEF Active

\* A push that is not in flight and not incomplete keeps its facts whatever the
\* others do to the repository.
LEMMA QuietKeepsFacts ==
  ASSUME NEW q \in Pushes, PushFacts(q), pc[q] \in {"idle", "done"}, ~Incomplete(q),
         pc'[q] = pc[q], intent'[q] = intent[q], old'[q] = old[q], new'[q] = new[q],
         packName'[q] = packName[q], q \in applied' => q \in applied,
         overtaken \subseteq overtaken'
  PROVE  PushFacts(q)'
  <1>1. StageInv(q)'
    BY DEF PushFacts, StageInv, Touched
  <1>2. BetweenInv(q)' /\ StoreInv(q)'
    BY DEF BetweenInv, StoreInv, Incomplete
  <1>3. RecordedInv(q)'
    BY DEF PushFacts, RecordedInv
  <1> QED
    BY <1>1, <1>2, <1>3 DEF PushFacts

\* A step of a push in flight has only its own facts to establish.
LEMMA OwnStep ==
  ASSUME Settled, PushState, TypeOK', NEW p \in Pushes, Active(p), pc[p] # "failing",
         \A q \in Pushes : q # p =>
           /\ pc'[q] = pc[q] /\ intent'[q] = intent[q] /\ old'[q] = old[q]
           /\ new'[q] = new[q] /\ packName'[q] = packName[q]
           /\ q \in applied' => q \in applied,
         Incomplete(p)' => Active(p)',
         UNCHANGED <<recovering, verdict, overtaken>>,
         PushFacts(p)'
  PROVE  PushState'
  <1>0. OpenInv /\ \A q \in Pushes : PushFacts(q)
    BY DEF PushState
  <1>1. /\ ~recovering /\ \A i \in Ops : verdict[i] = "unread"
        /\ \A q \in Pushes : q # p => pc[q] \in {"idle", "done"} /\ ~Incomplete(q)
    BY <1>0, AloneInFlight
  <1>2. \A q \in Pushes : q # p => ~Active(q)' /\ ~Incomplete(q)'
    BY <1>1 DEF Active, Incomplete
  <1>3. OpenInv'
    BY <1>2 DEF OpenInv
  <1>4. JudgedInv'
    BY <1>1 DEF JudgedInv, Ops
  <1>5. ASSUME NEW q \in Pushes, q # p PROVE PushFacts(q)'
    BY <1>0, <1>1, <1>5, QuietKeepsFacts
  <1> QED
    BY <1>3, <1>4, <1>5 DEF PushState

\* PushCheck: the refs that the push read are the ones it will compare with.
LEMMA CheckKeeps ==
  ASSUME Settled, PushState, TypeOK', NEW p \in Pushes, PushCheck(p)
  PROVE  PushState'
  <1> USE DEF repoVars, journalVars, requestVars, recoveryVars, historyVars
  <1>0. /\ TypeOK /\ FreshOps /\ RecoveryInv /\ PermitInv
        /\ OpenInv /\ JudgedInv /\ \A q \in Pushes : PushFacts(q)
    BY DEF Settled, IndInv, PushState
  <1>1. /\ phase = "up" /\ pc[p] = "idle" /\ \A q \in Pushes : ~Active(q)
        /\ pc' = [pc EXCEPT ![p] = "checked"]
        /\ UNCHANGED <<phase, refs, loose, packs, intent, packName, recovering, todo, snap,
                       verdict, applied, overtaken>>
    BY DEF PushCheck, PushRunning, Goto
  <1>2. PICK target \in [Refs -> Targets] :
          /\ Cardinality({r \in Refs : refs[r] # target[r]}) \in 1..MaxCommands
          /\ old' = [old EXCEPT ![p] = refs] /\ new' = [new EXCEPT ![p] = target]
    BY DEF PushCheck
  <1>3. {r \in Refs : refs[r] # target[r]} # {}
    BY <1>2, FS_EmptySet, BoundAssumption
  <1>4. /\ pc'[p] = "checked" /\ old'[p] = refs /\ new'[p] = target
        /\ \A q \in Pushes : q # p => pc'[q] = pc[q] /\ old'[q] = old[q] /\ new'[q] = new[q]
    BY <1>0, <1>1, <1>2 DEF TypeOK, Ops
  <1>5. intent[p] = "none" /\ \A q \in Pushes : ~Incomplete(q)
    BY <1>0, <1>1 DEF FreshOps, OpenInv, Ops
  <1>6. ~recovering /\ \A i \in Ops : verdict[i] = "unread"
    <2>1. Failing = {}
      BY <1>1 DEF Failing, Active
    <2> QED
      BY <1>0, <1>1, <2>1 DEF PermitInv, RecoveryInv
  <1>7. ASSUME NEW q \in Pushes PROVE PushFacts(q)'
    <2>1. CASE q # p
      BY <1>0, <1>1, <1>4, <1>5, <2>1, QuietKeepsFacts DEF Active
    <2>2. CASE q = p
      <3>1. p \notin applied /\ packName[p] = {}
        BY <1>0, <1>1, <1>5 DEF PushFacts, StageInv
      <3>2. Touched(p)' # {} /\ AtInitial(p)'
        BY <1>1, <1>3, <1>4 DEF Touched, AtInitial, Matches
      <3>3. StageInv(p)'
        BY <1>1, <1>4, <1>5, <3>1, <3>2 DEF StageInv
      <3>4. BetweenInv(p)' /\ StoreInv(p)' /\ RecordedInv(p)'
        BY <1>1, <1>4, <1>5, <3>1 DEF BetweenInv, StoreInv, RecordedInv, Incomplete
      <3> QED
        BY <2>2, <3>3, <3>4 DEF PushFacts
    <2> QED
      BY <2>1, <2>2
  <1>8. \A q \in Pushes : ~Incomplete(q)'
    BY <1>1, <1>5 DEF Incomplete
  <1>9. OpenInv' /\ JudgedInv'
    BY <1>0, <1>1, <1>6, <1>8 DEF OpenInv, JudgedInv, Ops
  <1> QED
    BY <1>7, <1>9 DEF PushState

\* PushBegin and PushRefused: the intent is written while the refs are still those
\* the push read, or not at all.
LEMMA BeginKeeps ==
  ASSUME Settled, PushState, TypeOK', NEW p \in Pushes, PushBegin(p) \/ PushRefused(p)
  PROVE  PushState'
  <1> USE DEF repoVars, journalVars, requestVars, recoveryVars, historyVars
  <1>0. TypeOK /\ FreshOps /\ PushFacts(p)
    BY DEF Settled, IndInv, PushState
  <1>1. /\ pc[p] = "checked" /\ refs' = refs /\ loose' = loose /\ packs' = packs
        /\ UNCHANGED <<old, new, packName, applied, recovering, verdict, overtaken>>
    BY DEF PushBegin, PushRefused
  <1>2. /\ intent[p] = "none" /\ packName[p] = {} /\ p \notin applied
        /\ Touched(p) # {} /\ (p \notin overtaken => AtInitial(p))
    BY <1>0, <1>1 DEF FreshOps, PushFacts, StageInv, Ops
  <1>3. Active(p) /\ pc[p] # "failing"
    BY <1>1 DEF Active
  <1>4. Touched(p)' = Touched(p) /\ (AtInitial(p)' <=> AtInitial(p))
    BY <1>1 DEF Touched, AtInitial, Matches
  <1>5. CASE PushBegin(p)
    <2>1. pc' = [pc EXCEPT ![p] = "pending"] /\ intent' = [intent EXCEPT ![p] = "pending"]
      BY <1>5 DEF PushBegin, Goto, BeginIntent
    <2>2. /\ pc'[p] = "pending" /\ intent'[p] = "pending"
          /\ \A q \in Pushes : q # p => pc'[q] = pc[q] /\ intent'[q] = intent[q]
      BY <1>0, <2>1 DEF TypeOK, Ops
    <2>3. StageInv(p)'
      BY <1>1, <1>2, <1>4, <2>2 DEF StageInv
    <2>4. BetweenInv(p)' /\ RecordedInv(p)' /\ StoreInv(p)'
      BY <1>1, <1>2, <1>4, <2>2 DEF BetweenInv, RecordedInv, StoreInv, AtInitial, Matches
    <2>5. PushFacts(p)' /\ Active(p)'
      BY <2>2, <2>3, <2>4 DEF PushFacts, Active
    <2> QED
      BY <1>1, <1>3, <2>2, <2>5, OwnStep
  <1>6. CASE PushRefused(p)
    <2>1. pc' = [pc EXCEPT ![p] = "done"] /\ intent' = intent
      BY <1>6 DEF PushRefused, Goto
    <2>2. /\ pc'[p] = "done" /\ \A q \in Pushes : q # p => pc'[q] = pc[q]
      BY <1>0, <2>1 DEF TypeOK, Ops
    <2>3. ~Incomplete(p)'
      BY <1>2, <2>1 DEF Incomplete
    <2>4. StageInv(p)'
      BY <1>1, <1>2, <1>4, <2>1, <2>2 DEF StageInv
    <2>5. BetweenInv(p)' /\ RecordedInv(p)' /\ StoreInv(p)'
      BY <1>1, <1>2, <2>2, <2>3 DEF BetweenInv, RecordedInv, StoreInv
    <2>6. PushFacts(p)'
      BY <2>4, <2>5 DEF PushFacts
    <2> QED
      BY <1>1, <1>3, <2>1, <2>2, <2>3, <2>6, OwnStep
  <1> QED
    BY <1>5, <1>6

\* PushStore: the new objects are there before the push moves on.
LEMMA StoreKeeps ==
  ASSUME Settled, PushState, TypeOK', NEW p \in Pushes, PushStore(p)
  PROVE  PushState'
  <1> USE DEF repoVars, journalVars, requestVars, recoveryVars, historyVars
  <1>0. TypeOK /\ PushFacts(p)
    BY DEF Settled, IndInv, PushState
  <1>1. /\ pc[p] = "pending" /\ pc' = [pc EXCEPT ![p] = "stored"]
        /\ \A r \in Touched(p) : CommandAllowed(p, r)
        /\ packs' = packs \cup ({pack[p]} \ {{}})
        /\ UNCHANGED <<refs, loose, old, new, intent, packName, applied, recovering, verdict,
                       overtaken>>
    BY DEF PushStore, Goto
  <1>2. /\ intent[p] = "pending" /\ packName[p] = {} /\ p \notin applied
        /\ Touched(p) # {} /\ (p \notin overtaken => AtInitial(p))
    BY <1>0, <1>1 DEF PushFacts, StageInv
  <1>3. /\ pc'[p] = "stored" /\ \A q \in Pushes : q # p => pc'[q] = pc[q]
    BY <1>0, <1>1 DEF TypeOK, Ops
  <1>4. Objects \subseteq Objects' /\ pack[p] \subseteq Objects'
    BY <1>1 DEF Objects
  <1>5. Touched(p)' = Touched(p) /\ (AtInitial(p)' <=> AtInitial(p))
    BY <1>1 DEF Touched, AtInitial, Matches
  <1>6. StageInv(p)'
    BY <1>1, <1>2, <1>3, <1>5 DEF StageInv
  <1>7. BetweenInv(p)' /\ RecordedInv(p)'
    BY <1>1, <1>2, <1>5 DEF BetweenInv, RecordedInv, AtInitial, Matches
  <1>8. ASSUME NEW r \in Touched(p) PROVE Closure(new[p][r]) \subseteq Objects'
    <2>1. CASE new[p][r] = NoOid
      BY <2>1, NullClosure
    <2>2. CASE new[p][r] # NoOid
      <3>1. Closure(new[p][r]) \subseteq Objects \cup pack[p]
        BY <1>1, <2>2 DEF CommandAllowed
      <3> QED
        BY <1>4, <3>1
    <2> QED
      BY <2>1, <2>2
  <1>9. StoreInv(p)'
    BY <1>1, <1>5, <1>8 DEF StoreInv, Closure
  <1>10. PushFacts(p)' /\ Active(p)' /\ Active(p) /\ pc[p] # "failing"
    BY <1>1, <1>3, <1>6, <1>7, <1>9 DEF PushFacts, Active
  <1> QED
    BY <1>1, <1>3, <1>10, OwnStep

\* PushMark, PushLock and PushFail: the journal and the stage move, the refs do not.
LEMMA MarkKeeps ==
  ASSUME Settled, PushState, TypeOK', NEW p \in Pushes, PushMark(p)
  PROVE  PushState'
  <1> USE DEF repoVars, journalVars, requestVars, recoveryVars, historyVars
  <1>0. TypeOK /\ PushFacts(p)
    BY DEF Settled, IndInv, PushState
  <1>1. /\ pc[p] = "stored" /\ pc' = [pc EXCEPT ![p] = "promoted"]
        /\ intent' = [intent EXCEPT ![p] = "promoted"]
        /\ packName' = [packName EXCEPT ![p] = pack[p]]
        /\ UNCHANGED <<refs, loose, packs, old, new, applied, recovering, verdict, overtaken>>
    BY DEF PushMark, Goto, MarkPromoted
  <1>2. /\ p \notin applied /\ Touched(p) # {} /\ (p \notin overtaken => AtInitial(p))
        /\ \A r \in Touched(p) : Closure(new[p][r]) \subseteq Objects
    BY <1>0, <1>1 DEF PushFacts, StageInv, StoreInv
  <1>3. /\ pc'[p] = "promoted" /\ intent'[p] = "promoted"
        /\ \A q \in Pushes : q # p => /\ pc'[q] = pc[q] /\ intent'[q] = intent[q]
                                      /\ packName'[q] = packName[q]
    BY <1>0, <1>1 DEF TypeOK, Ops
  <1>4. Touched(p)' = Touched(p) /\ (AtInitial(p)' <=> AtInitial(p))
    BY <1>1 DEF Touched, AtInitial, Matches
  <1>5. StageInv(p)'
    BY <1>1, <1>2, <1>3, <1>4 DEF StageInv
  <1>6. BetweenInv(p)' /\ RecordedInv(p)'
    BY <1>1, <1>2, <1>4 DEF BetweenInv, RecordedInv, AtInitial, Matches
  <1>7. StoreInv(p)'
    BY <1>1, <1>2, <1>4 DEF StoreInv, Objects, Closure
  <1>8. PushFacts(p)' /\ Active(p)' /\ Active(p) /\ pc[p] # "failing"
    BY <1>1, <1>3, <1>5, <1>6, <1>7 DEF PushFacts, Active
  <1> QED
    BY <1>1, <1>3, <1>8, OwnStep

LEMMA LockOrFailKeeps ==
  ASSUME Settled, PushState, TypeOK', NEW p \in Pushes, PushLock(p) \/ PushFail(p)
  PROVE  PushState'
  <1> USE DEF repoVars, journalVars, requestVars, recoveryVars, historyVars
  <1>0. TypeOK /\ PushFacts(p)
    BY DEF Settled, IndInv, PushState
  <1>1. PICK stage \in {"commit", "failing"} :
          /\ pc' = [pc EXCEPT ![p] = stage]
          /\ stage = "commit" => pc[p] = "promoted"
    BY DEF PushLock, PushFail, Goto
  <1>2. /\ pc[p] \in {"pending", "stored", "promoted", "commit", "applied"}
        /\ UNCHANGED <<refs, loose, packs, old, new, pack, intent, packName, applied,
                       recovering, verdict, overtaken>>
    BY DEF PushLock, PushFail
  <1>3. pc'[p] = stage /\ \A q \in Pushes : q # p => pc'[q] = pc[q]
    BY <1>0, <1>1 DEF TypeOK, Ops
  <1>4. StageInv(p)'
    BY <1>0, <1>1, <1>2, <1>3 DEF PushFacts, StageInv, Touched
  <1>5. BetweenInv(p)' /\ RecordedInv(p)'
    BY <1>0, <1>2 DEF PushFacts, BetweenInv, RecordedInv, Incomplete, AtProposed, Matches, Touched
  <1>6. StoreInv(p)'
    BY <1>0, <1>1, <1>2, <1>3 DEF PushFacts, StoreInv, Objects, Touched, Closure
  <1>7. PushFacts(p)' /\ Active(p)' /\ Active(p) /\ pc[p] # "failing"
    BY <1>2, <1>3, <1>4, <1>5, <1>6 DEF PushFacts, Active
  <1> QED
    BY <1>2, <1>3, <1>7, OwnStep

\* PushWriteRef: the ref goes from where the push found it to where it puts it.
LEMMA WriteRefKeeps ==
  ASSUME Settled, PushState, TypeOK', NEW p \in Pushes, NEW x \in Refs, PushWriteRef(p, x)
  PROVE  PushState'
  <1> USE DEF repoVars, journalVars, requestVars, recoveryVars, historyVars
  <1>0. TypeOK /\ PushFacts(p)
    BY DEF Settled, IndInv, PushState
  <1>1. /\ pc[p] = "commit" /\ x \in Touched(p)
        /\ refs' = [refs EXCEPT ![x] = new[p][x]]
        /\ UNCHANGED <<loose, packs, old, new, pack, intent, packName, recovering, verdict, overtaken>>
    BY DEF PushWriteRef
  <1>2. /\ intent[p] = "promoted" /\ p \notin applied /\ Touched(p) # {}
        /\ p \notin overtaken => \A r \in Touched(p) : refs[r] \in {old[p][r], new[p][r]}
        /\ \A r \in Touched(p) : Closure(new[p][r]) \subseteq Objects
    BY <1>0, <1>1 DEF PushFacts, StageInv, BetweenInv, StoreInv, Incomplete
  <1>3. \A r \in Refs : refs'[r] = IF r = x THEN new[p][x] ELSE refs[r]
    BY <1>0, <1>1 DEF TypeOK
  <1>4. \/ pc' = [pc EXCEPT ![p] = "applied"] /\ applied' = applied \cup {p}
           /\ Matches(refs', p, new[p])
        \/ pc' = pc /\ applied' = applied
    BY DEF PushWriteRef, Goto
  <1>5. /\ \A q \in Pushes : q # p => pc'[q] = pc[q] /\ (q \in applied' => q \in applied)
        /\ \/ pc'[p] = "applied" /\ Matches(refs', p, new[p])
           \/ pc'[p] = "commit" /\ p \notin applied'
    BY <1>0, <1>1, <1>2, <1>4 DEF TypeOK, Ops
  <1>6. StageInv(p)'
    BY <1>1, <1>2, <1>5 DEF StageInv, Touched
  <1>7. BetweenInv(p)' /\ RecordedInv(p)'
    <2>1. p \in applied' => AtProposed(p)'
      BY <1>1, <1>5 DEF AtProposed, Matches, Touched
    <2>2. p \notin overtaken => \A r \in Touched(p) : refs'[r] \in {old[p][r], new[p][r]}
      BY <1>2, <1>3 DEF Touched
    <2>3. Touched(p)' = Touched(p)
      BY <1>1 DEF Touched
    <2> QED
      BY <1>1, <1>2, <2>1, <2>2, <2>3 DEF BetweenInv, RecordedInv
  <1>8. StoreInv(p)'
    BY <1>1, <1>2, <1>5 DEF StoreInv, Objects, Touched, Closure
  <1>9. PushFacts(p)' /\ Active(p)' /\ Active(p) /\ pc[p] # "failing"
    BY <1>1, <1>5, <1>6, <1>7, <1>8 DEF PushFacts, Active
  <1> QED
    BY <1>1, <1>5, <1>9, OwnStep

\* PushComplete: the event closes the intent.
LEMMA CompleteKeeps ==
  ASSUME Settled, PushState, TypeOK', NEW p \in Pushes, PushComplete(p)
  PROVE  PushState'
  <1> USE DEF repoVars, journalVars, requestVars, recoveryVars, historyVars
  <1>0. TypeOK /\ PushFacts(p)
    BY DEF Settled, IndInv, PushState
  <1>1. /\ pc[p] = "applied" /\ pc' = [pc EXCEPT ![p] = "done"]
        /\ intent' = [intent EXCEPT ![p] = "completed"]
        /\ UNCHANGED <<refs, loose, packs, old, new, pack, packName, applied, recovering, verdict,
                       overtaken>>
    BY DEF PushComplete, Goto, Complete
  <1>2. /\ pc'[p] = "done" /\ intent'[p] = "completed"
        /\ \A q \in Pushes : q # p => pc'[q] = pc[q] /\ intent'[q] = intent[q]
    BY <1>0, <1>1 DEF TypeOK, Ops
  <1>3. StageInv(p)'
    BY <1>0, <1>1, <1>2 DEF PushFacts, StageInv, Touched
  <1>4. ~Incomplete(p)'
    BY <1>2 DEF Incomplete
  <1>5. BetweenInv(p)' /\ StoreInv(p)' /\ RecordedInv(p)'
    BY <1>2, <1>4 DEF BetweenInv, StoreInv, RecordedInv
  <1>6. PushFacts(p)' /\ Active(p) /\ pc[p] # "failing"
    BY <1>1, <1>3, <1>5 DEF PushFacts, Active
  <1> QED
    BY <1>1, <1>2, <1>4, <1>6, OwnStep

\* The pushes a recovery works on are incomplete.
LEMMA RecoveredPush ==
  ASSUME JudgedInv, NEW i \in Pushes, i \in todo, recovering
  PROVE  Incomplete(i) /\ snap[i] = intent[i]
  BY DEF JudgedInv

\* Facts that only read the push and the repository, while both stay as they are.
LEMMA SameKeepsFacts ==
  ASSUME NEW q \in Pushes, PushFacts(q),
         pc'[q] \in {pc[q], "done"}, pc'[q] = "done" => pc[q] # "idle",
         pc'[q] # pc[q] => Active(q),
         UNCHANGED <<refs, loose, packs, intent, old, new, pack, packName, applied, overtaken>>
  PROVE  PushFacts(q)'
  <1>1. StageInv(q)'
    BY DEF PushFacts, StageInv, Touched, AtInitial, Matches
  <1>2. BetweenInv(q)' /\ RecordedInv(q)'
    BY DEF PushFacts, BetweenInv, RecordedInv, Incomplete, AtProposed, Matches, Touched
  <1>3. StoreInv(q)'
    BY DEF PushFacts, StoreInv, Objects, Touched, Closure
  <1> QED
    BY <1>1, <1>2, <1>3 DEF PushFacts

\* RecoverList: one query finds every incomplete push.
LEMMA ListKeeps ==
  ASSUME Settled, PushState, RecoverList
  PROVE  PushState'
  <1> USE DEF repoVars, journalVars, requestVars, recoveryVars, historyVars
  <1>0. TypeOK /\ OpenInv /\ JudgedInv /\ \A q \in Pushes : PushFacts(q)
    BY DEF Settled, IndInv, PushState
  <1>1. /\ todo' = {i \in Ops : Incomplete(i)} /\ snap' = intent
        /\ UNCHANGED <<phase, refs, loose, packs, pc, old, new, pack, intent, packName,
                       verdict, applied, overtaken>>
    BY DEF RecoverList
  <1>2. \A q \in Pushes : PushFacts(q)'
    BY <1>0, <1>1, SameKeepsFacts
  <1>3. OpenInv'
    BY <1>0, <1>1 DEF OpenInv, Active, Incomplete
  <1>4. JudgedInv'
    BY <1>0, <1>1 DEF JudgedInv, Incomplete, AtInitial, Matches, Touched, Ops
  <1> QED
    BY <1>2, <1>3, <1>4 DEF PushState

\* RecoverRead: a push that no merge overtook is given up only if none of its refs moved.
LEMMA ReadKeeps ==
  ASSUME Settled, PushState, NEW i \in Pushes, RecoverRead(i)
  PROVE  PushState'
  <1> USE DEF repoVars, journalVars, requestVars, recoveryVars, historyVars
  <1>0. TypeOK /\ OpenInv /\ JudgedInv /\ \A q \in Pushes : PushFacts(q)
    BY DEF Settled, IndInv, PushState
  <1>1. /\ recovering /\ i \in todo /\ Decision(i) # "mixed"
        /\ verdict' = [verdict EXCEPT ![i] = Decision(i)]
        /\ UNCHANGED <<phase, refs, loose, packs, pc, old, new, pack, intent, packName,
                       applied, recovering, todo, snap, overtaken>>
    BY DEF RecoverRead
  <1>2. i \in Ops /\ Incomplete(i) /\ snap[i] = intent[i]
    BY <1>0, <1>1, RecoveredPush DEF Ops
  <1>3. /\ verdict'[i] = Decision(i) /\ \A q \in Pushes : q # i => verdict'[q] = verdict[q]
    BY <1>0, <1>1 DEF TypeOK, Ops
  <1>4. pc[i] # "idle" /\ Touched(i) # {}
    BY <1>0, <1>2 DEF PushFacts, StageInv, Settled, IndInv, FreshOps, Incomplete, Ops
  <1>5. ASSUME Decision(i) \in {"discard", "abandon"}, i \notin overtaken
        PROVE  AtInitial(i) /\ i \notin applied
    <2>1. AtInitial(i) \/ (~AtProposed(i) /\ SingleRef(i))
      BY <1>5 DEF Decision
    <2>2. AtInitial(i)
      <3>1. CASE ~AtProposed(i) /\ SingleRef(i)
        <4>1. PICK x \in Refs : Touched(i) = {x}
          BY <3>1 DEF SingleRef
        <4>2. refs[x] # new[i][x]
          BY <3>1, <4>1 DEF AtProposed, Matches
        <4>3. refs[x] = old[i][x]
          BY <1>0, <1>2, <1>5, <4>1, <4>2 DEF PushFacts, BetweenInv
        <4> QED
          BY <4>1, <4>3 DEF AtInitial, Matches
      <3> QED
        BY <2>1, <3>1
    <2>3. ~AtProposed(i)
      BY <1>4, <2>2 DEF AtInitial, AtProposed, Matches, Touched
    <2> QED
      BY <1>0, <1>2, <1>5, <2>2, <2>3 DEF PushFacts, BetweenInv
  <1>6. AtInitial(i)' <=> AtInitial(i)
    BY <1>1 DEF AtInitial, Matches, Touched
  <1>7. JudgedInv'
    BY <1>0, <1>1, <1>3, <1>5, <1>6 DEF JudgedInv, Incomplete, AtInitial, Matches, Touched
  <1>8. \A q \in Pushes : PushFacts(q)'
    BY <1>0, <1>1, SameKeepsFacts
  <1>9. OpenInv'
    BY <1>0, <1>1 DEF OpenInv, Active, Incomplete
  <1> QED
    BY <1>7, <1>8, <1>9 DEF PushState

\* RecoverDiscard: no push is about to write its refs when the pack goes.
LEMMA DiscardKeeps ==
  ASSUME Settled, PushState, NEW i \in Pushes, RecoverDiscard(i)
  PROVE  PushState'
  <1> USE DEF repoVars, journalVars, requestVars, recoveryVars, historyVars
  <1>0. /\ TypeOK /\ OpenInv /\ JudgedInv /\ \A q \in Pushes : PushFacts(q)
        /\ RecoveryInv /\ PermitInv
    BY DEF Settled, IndInv, PushState
  <1>1. /\ recovering /\ verdict[i] = "discard"
        /\ verdict' = [verdict EXCEPT ![i] = "abandon"]
        /\ UNCHANGED <<phase, refs, loose, pc, old, new, pack, intent, packName,
                       applied, recovering, todo, snap, overtaken>>
    BY DEF RecoverDiscard
  <1>2. ASSUME NEW q \in Pushes PROVE PushFacts(q)'
    <2>1. pc[q] \in {"idle", "done", "failing"}
      BY <1>0, <1>1 DEF PermitInv, Active
    <2>2. StageInv(q)'
      BY <1>0, <1>1, <2>1 DEF PushFacts, StageInv, Touched
    <2>3. BetweenInv(q)' /\ RecordedInv(q)'
      BY <1>0, <1>1 DEF PushFacts, BetweenInv, RecordedInv, Incomplete, AtProposed, Matches,
         Touched
    <2>4. StoreInv(q)'
      BY <1>1, <2>1 DEF StoreInv
    <2> QED
      BY <2>2, <2>3, <2>4 DEF PushFacts
  <1>3. JudgedInv'
    <2>1. /\ verdict'[i] = "abandon" /\ \A q \in Pushes : q # i => verdict'[q] = verdict[q]
      BY <1>0, <1>1 DEF TypeOK, Ops
    <2> QED
      BY <1>0, <1>1, <2>1 DEF JudgedInv, Incomplete, AtInitial, Matches, Touched
  <1>4. OpenInv'
    BY <1>0, <1>1 DEF OpenInv, Active, Incomplete
  <1> QED
    BY <1>2, <1>3, <1>4 DEF PushState

\* RecoverSettle: an applied push is completed, never abandoned.
LEMMA SettleKeeps ==
  ASSUME Settled, PushState, NEW i \in Pushes, RecoverSettle(i)
  PROVE  PushState'
  <1> USE DEF repoVars, journalVars, requestVars, recoveryVars, historyVars
  <1>0. /\ TypeOK /\ OpenInv /\ JudgedInv /\ \A q \in Pushes : PushFacts(q)
        /\ RecoveryInv /\ PermitInv
    BY DEF Settled, IndInv, PushState
  <1>1. /\ recovering /\ verdict[i] \in {"abandon", "complete"}
        /\ todo' = todo \ {i} /\ verdict' = [verdict EXCEPT ![i] = "unread"]
        /\ UNCHANGED <<phase, refs, loose, packs, pc, old, new, pack, packName,
                       applied, recovering, snap, overtaken>>
    BY DEF RecoverSettle, Abandon, Complete
  <1>2. i \in todo /\ i \in Ops
    BY <1>0, <1>1 DEF RecoveryInv, Ops
  <1>3. Incomplete(i)
    BY <1>0, <1>1, <1>2, RecoveredPush
  <1>4. PICK state \in {"abandoned", "completed"} :
          /\ intent' = [intent EXCEPT ![i] = state]
          /\ state = "abandoned" => verdict[i] = "abandon"
    BY DEF RecoverSettle, Abandon, Complete
  <1>5. /\ intent'[i] = state /\ verdict'[i] = "unread"
        /\ \A q \in Pushes : q # i => intent'[q] = intent[q] /\ verdict'[q] = verdict[q]
    BY <1>0, <1>1, <1>4 DEF TypeOK, Ops
  <1>6. ~Incomplete(i)' /\ \A q \in Pushes : q # i => (Incomplete(q)' <=> Incomplete(q))
    BY <1>5 DEF Incomplete
  <1>7. ASSUME NEW q \in Pushes PROVE PushFacts(q)'
    <2>1. pc'[q] = pc[q] /\ pc[q] \in {"idle", "done", "failing"}
      BY <1>0, <1>1 DEF PermitInv, Active
    <2>2. CASE q = i
      <3>1. StageInv(i)'
        BY <1>0, <1>1, <1>3, <1>5, <2>1, <2>2 DEF PushFacts, StageInv, Touched
      <3>2. BetweenInv(i)' /\ StoreInv(i)'
        BY <1>1, <1>6, <2>1, <2>2 DEF BetweenInv, StoreInv
      <3>3. RecordedInv(i)'
        BY <1>0, <1>1, <1>3, <1>4, <1>5 DEF RecordedInv, JudgedInv
      <3> QED
        BY <2>2, <3>1, <3>2, <3>3 DEF PushFacts
    <2>3. CASE q # i
      <3>1. intent'[q] = intent[q] /\ ~Incomplete(q)
        BY <1>0, <1>3, <1>5, <2>3 DEF OpenInv
      <3>2. StageInv(q)'
        BY <1>0, <1>1, <2>1, <3>1 DEF PushFacts, StageInv, Touched
      <3>3. BetweenInv(q)' /\ StoreInv(q)' /\ RecordedInv(q)'
        BY <1>0, <1>1, <2>1, <3>1 DEF PushFacts, BetweenInv, StoreInv, RecordedInv, Incomplete
      <3> QED
        BY <3>2, <3>3 DEF PushFacts
    <2> QED
      BY <2>2, <2>3
  <1>8. OpenInv'
    BY <1>0, <1>1, <1>6 DEF OpenInv, Active
  <1>9. JudgedInv'
    BY <1>0, <1>1, <1>3, <1>5, <1>6 DEF JudgedInv, AtInitial, Matches, Touched
  <1> QED
    BY <1>7, <1>8, <1>9 DEF PushState

\* RecoverReturn: a server that goes on has no incomplete push left.
LEMMA ReturnKeeps ==
  ASSUME Settled, PushState, NEW ok \in BOOLEAN, RecoverReturn(ok), ~lapsed',
         ok => recovering /\ todo = {}
  PROVE  PushState'
  <1> USE DEF repoVars, journalVars, requestVars, recoveryVars, historyVars
  <1>0. TypeOK /\ OpenInv /\ JudgedInv /\ \A q \in Pushes : PushFacts(q)
    BY DEF Settled, IndInv, PushState
  <1>1. /\ recovering' = FALSE
        /\ \A i \in Ops : verdict'[i] = "unread"
        /\ \A i \in Ops : pc'[i] = IF i \in Failing THEN "done" ELSE pc[i]
        /\ UNCHANGED <<refs, loose, packs, old, new, pack, intent, packName, applied, overtaken>>
    BY DEF RecoverReturn
  <1>2. \A q \in Pushes : pc'[q] = IF pc[q] = "failing" THEN "done" ELSE pc[q]
    BY <1>1 DEF Failing, Ops
  <1>3. \A q \in Pushes : PushFacts(q)'
    BY <1>0, <1>1, <1>2, SameKeepsFacts DEF Active
  <1>4. phase' = "up" => \A q \in Pushes : ~Incomplete(q)
    <2>1. CASE ok
      BY <1>0, <2>1 DEF JudgedInv
    <2>2. CASE ~ok
      <3>1. phase' = "up" => phase = "up"
        BY <1>0, <2>2 DEF RecoverReturn, TypeOK, Phases
      <3>2. phase = "up" => \A i \in Ops : ~Incomplete(i)
        BY <2>2 DEF RecoverReturn
      <3> QED
        BY <3>1, <3>2 DEF Ops
    <2> QED
      BY <2>1, <2>2
  <1>5. OpenInv'
    BY <1>0, <1>1, <1>2, <1>4 DEF OpenInv, Active, Incomplete
  <1>6. JudgedInv'
    BY <1>0, <1>1 DEF JudgedInv, Ops
  <1> QED
    BY <1>3, <1>5, <1>6 DEF PushState

\* The process: a kill ends the push in flight and leaves what it wrote.
LEMMA ProcessKeeps ==
  ASSUME Settled, PushState, Crash \/ Shutdown \/ Drained \/ Start
  PROVE  PushState'
  <1> USE DEF repoVars, journalVars, requestVars, recoveryVars, historyVars
  <1>0. TypeOK /\ OpenInv /\ JudgedInv /\ \A q \in Pushes : PushFacts(q)
    BY DEF Settled, IndInv, PushState
  <1>1. /\ phase' # "up"
        /\ UNCHANGED <<refs, loose, packs, old, new, pack, intent, packName, applied, snap, overtaken>>
    BY DEF Crash, Shutdown, Drained, Start
  <1>2. \A q \in Pushes : pc'[q] = pc[q] \/ (Active(q) /\ pc'[q] = "done")
    BY DEF Crash, Shutdown, Drained, Start, Ops
  <1>3. \A q \in Pushes : PushFacts(q)'
    BY <1>0, <1>1, <1>2, SameKeepsFacts DEF Active
  <1>4. OpenInv'
    BY <1>0, <1>1, <1>2 DEF OpenInv, Active, Incomplete
  <1>5. \/ recovering' = FALSE /\ \A i \in Ops : verdict'[i] = "unread"
        \/ UNCHANGED <<recovering, todo, verdict>>
    BY DEF Crash, Shutdown, Drained, Start
  <1>6. JudgedInv'
    BY <1>0, <1>1, <1>5 DEF JudgedInv, Incomplete, AtInitial, Matches, Touched, Ops
  <1> QED
    BY <1>3, <1>4, <1>6 DEF PushState

\* A push keeps its facts beside a step that takes nothing from the store and moves none
\* of its refs, unless that step overtakes it.
LEMMA OtherKeepsFacts ==
  ASSUME NEW q \in Pushes, PushFacts(q),
         pc'[q] = pc[q], intent'[q] = intent[q], old'[q] = old[q], new'[q] = new[q],
         packName'[q] = packName[q], q \in applied' <=> q \in applied,
         overtaken \subseteq overtaken', Objects \subseteq Objects',
         q \notin overtaken' /\ (Active(q) \/ Incomplete(q)) =>
           \A r \in Touched(q) : refs'[r] = refs[r]
  PROVE  PushFacts(q)'
  <1>1. Touched(q)' = Touched(q) /\ (Incomplete(q)' <=> Incomplete(q))
    BY DEF Touched, Incomplete
  <1>2. q \notin overtaken' /\ (Active(q) \/ Incomplete(q)) =>
          (AtInitial(q)' <=> AtInitial(q)) /\ (AtProposed(q)' <=> AtProposed(q))
    BY <1>1 DEF AtInitial, AtProposed, Matches
  <1>3. StageInv(q)'
    BY <1>1, <1>2 DEF PushFacts, StageInv, Active
  <1>4. BetweenInv(q)' /\ RecordedInv(q)'
    BY <1>1, <1>2 DEF PushFacts, BetweenInv, RecordedInv
  <1>5. StoreInv(q)'
    BY <1>1 DEF PushFacts, StoreInv, Closure
  <1> QED
    BY <1>3, <1>4, <1>5 DEF PushFacts

LEMMA AsideKeeps ==
  ASSUME Settled, PushState, UNCHANGED <<phase, recovering>>,
         \A q \in Pushes :
           /\ pc'[q] = pc[q] /\ intent'[q] = intent[q] /\ old'[q] = old[q] /\ new'[q] = new[q]
           /\ packName'[q] = packName[q] /\ (q \in applied' <=> q \in applied)
           /\ verdict'[q] = verdict[q] /\ snap'[q] = snap[q]
           /\ q \in todo' <=> q \in todo
           /\ q \notin overtaken' /\ (Active(q) \/ Incomplete(q)) =>
                \A r \in Touched(q) : refs'[r] = refs[r],
         overtaken \subseteq overtaken', Objects \subseteq Objects'
  PROVE  PushState'
  <1>0. OpenInv /\ JudgedInv /\ \A q \in Pushes : PushFacts(q)
    BY DEF PushState
  <1>1. \A q \in Pushes : PushFacts(q)'
    BY <1>0, OtherKeepsFacts
  <1>2. OpenInv'
    BY <1>0 DEF OpenInv, Active, Incomplete
  <1>3. ASSUME NEW q \in Pushes, q \notin overtaken', verdict'[q] = "discard" PROVE AtInitial(q)'
    <2>1. verdict[q] = "discard" /\ AtInitial(q)
      BY <1>0, <1>3 DEF JudgedInv
    <2>2. recovering /\ q \in todo
      BY <2>1 DEF Settled, IndInv, RecoveryInv, Ops
    <2>3. Incomplete(q)
      BY <1>0, <2>2, RecoveredPush
    <2> QED
      BY <1>3, <2>1, <2>3 DEF AtInitial, Matches, Touched
  <1>4. JudgedInv'
    BY <1>0, <1>3 DEF JudgedInv, Incomplete
  <1> QED
    BY <1>1, <1>2, <1>4 DEF PushState

\* A merge writes its own rows and, once, a loose commit; when it swaps its ref it
\* overtakes the pushes that are not settled and have the ref too.
LEMMA MergeAside ==
  ASSUME Settled, PushState, NEW m \in Merges,
         MergeStep(m) \/ \E q \in PullRequests : MergePlan(m, q)
  PROVE  PushState'
  <1> USE DEF repoVars, journalVars, requestVars, recoveryVars, historyVars
  <1>0. TypeOK
    BY DEF Settled, IndInv
  <1>1. /\ UNCHANGED <<phase, packs, recovering, todo, snap, verdict>>
        /\ loose \subseteq loose' /\ applied \subseteq applied' /\ applied' \subseteq applied \cup {m}
        /\ overtaken \subseteq overtaken'
    BY DEF MergeStep, MergeBegin, MergeRefused, MergeWrite, MergeWriteFails,
       MergeMark, MergeError, MergeApply, MergeApplyFails, MergeConflict, MergeComplete, MergePlan
  <1>2. \E stage : pc' = [pc EXCEPT ![m] = stage]
    BY DEF MergeStep, MergeBegin, MergeRefused, MergeWrite, MergeWriteFails,
       MergeMark, MergeError, MergeApply, MergeApplyFails, MergeConflict, MergeComplete, MergePlan,
       Goto
  <1>3. /\ intent' = intent \/ \E state : intent' = [intent EXCEPT ![m] = state]
        /\ packName' = packName \/ \E name : packName' = [packName EXCEPT ![m] = name]
    BY DEF MergeStep, MergeBegin, MergeRefused, MergeWrite, MergeWriteFails,
       MergeMark, MergeError, MergeApply, MergeApplyFails, MergeConflict, MergeComplete, MergePlan,
       BeginIntent, MarkPromoted, Abandon, Complete
  <1>4. /\ old' = old \/ \E f : old' = [old EXCEPT ![m] = f]
        /\ new' = new \/ \E f : new' = [new EXCEPT ![m] = f]
    BY DEF MergeStep, MergeBegin, MergeRefused, MergeWrite, MergeWriteFails,
       MergeMark, MergeError, MergeApply, MergeApplyFails, MergeConflict, MergeComplete, MergePlan
  <1>5. ASSUME NEW q \in Pushes
        PROVE  /\ pc'[q] = pc[q] /\ intent'[q] = intent[q] /\ packName'[q] = packName[q]
               /\ old'[q] = old[q] /\ new'[q] = new[q] /\ (q \in applied' <=> q \in applied)
    <2>1. q # m /\ q \in Ops
      BY OpsAssumption DEF Ops
    <2> QED
      BY <1>0, <1>1, <1>2, <1>3, <1>4, <2>1 DEF TypeOK
  <1>6. \/ refs' = refs
        \/ /\ refs' = [r \in Refs |-> IF r \in Touched(m) THEN new[m][r] ELSE refs[r]]
           /\ overtaken' = overtaken \cup Overtakes(m)
    BY DEF MergeStep, MergeBegin, MergeRefused, MergeWrite, MergeWriteFails,
       MergeMark, MergeError, MergeApply, MergeApplyFails, MergeConflict, MergeComplete, MergePlan
  <1>7. ASSUME NEW q \in Pushes, q \notin overtaken', Active(q) \/ Incomplete(q),
               NEW r \in Touched(q)
        PROVE  refs'[r] = refs[r]
    BY <1>6, <1>7 DEF Overtakes, Touched
  <1>8. Objects \subseteq Objects'
    BY <1>1 DEF Objects
  <1> QED
    BY <1>1, <1>5, <1>7, <1>8, AsideKeeps

\* A recovery that works on the row of a merge leaves the pushes alone, and has no pack
\* to remove.
LEMMA RecoverMergeAside ==
  ASSUME Settled, PushState, NEW m \in Merges, packName[m] = {},
         RecoverRead(m) \/ RecoverDiscard(m) \/ RecoverSettle(m)
  PROVE  PushState'
  <1> USE DEF repoVars, journalVars, requestVars, recoveryVars, historyVars
  <1>0. TypeOK
    BY DEF Settled, IndInv
  <1>1. /\ UNCHANGED <<phase, refs, loose, pc, old, new, packName, recovering, snap, applied,
                       overtaken>>
        /\ packs' = packs \/ packs' = packs \ {{}}
        /\ todo' = todo \/ todo' = todo \ {m}
    BY DEF RecoverRead, RecoverDiscard, RecoverSettle, Abandon, Complete
  <1>2. /\ intent' = intent \/ \E state : intent' = [intent EXCEPT ![m] = state]
        /\ \E v : verdict' = [verdict EXCEPT ![m] = v]
    BY DEF RecoverRead, RecoverDiscard, RecoverSettle, Abandon, Complete
  <1>3. ASSUME NEW q \in Pushes
        PROVE  /\ intent'[q] = intent[q] /\ verdict'[q] = verdict[q]
               /\ q \in todo' <=> q \in todo
    <2>1. q # m /\ q \in Ops
      BY OpsAssumption DEF Ops
    <2> QED
      BY <1>0, <1>1, <1>2, <2>1 DEF TypeOK
  <1>4. Objects \subseteq Objects'
    BY <1>1 DEF Objects
  <1> QED
    BY <1>1, <1>3, <1>4, AsideKeeps

\* Every step preserves the facts about pushes.
LEMMA NextPush ==
  ASSUME Settled, PushState, NoMergePacks, Next, ~lapsed'
  PROVE  PushState'
  <1> USE DEF vars, repoVars, journalVars, requestVars, recoveryVars, historyVars
  <1>0. TypeOK /\ TypeOK'
    BY NextTypeOK DEF Settled, IndInv
  <1>1. ASSUME UNCHANGED <<phase, refs, loose, packs, pc, old, new, pack, intent, packName,
                           recovering, todo, snap, verdict, applied, overtaken>>
        PROVE  PushState'
    BY <1>1, AsideKeeps DEF Objects
  <1>2. ASSUME NEW p \in Pushes, PushCheck(p) \/ PushStep(p) PROVE PushState'
    BY <1>0, <1>2, CheckKeeps, BeginKeeps, StoreKeeps, MarkKeeps, LockOrFailKeeps,
       WriteRefKeeps, CompleteKeeps DEF PushStep
  <1>3. ASSUME NEW m \in Merges, MergeStep(m) \/ \E q \in PullRequests : MergePlan(m, q)
        PROVE  PushState'
    BY <1>3, MergeAside
  <1>4. ASSUME NEW i \in Ops, RecoverRead(i) \/ RecoverDiscard(i) \/ RecoverSettle(i)
        PROVE  PushState'
    <2>1. CASE i \in Pushes
      BY <1>4, <2>1, ReadKeeps, DiscardKeeps, SettleKeeps
    <2>2. CASE i \in Merges
      BY <1>4, <2>2, RecoverMergeAside DEF NoMergePacks
    <2> QED
      BY <2>1, <2>2 DEF Ops
  <1>5. ASSUME RecoverEnd \/ (\E i \in Ops : RecoverError(i)) \/ RecoverFails
        PROVE  PushState'
    BY <1>5, ReturnKeeps DEF RecoverEnd, RecoverError, RecoverFails
  <1>6. ASSUME RecoverStep PROVE PushState'
    BY <1>4, <1>5, <1>6, ListKeeps DEF RecoverStep
  <1>7. ASSUME NEW q \in PullRequests,
               \/ OpenPr(q) \/ RevisePr(q) \/ \E s \in {"open", "closed"} : SetPrState(q, s)
        PROVE  PushState'
    BY <1>1, <1>7 DEF OpenPr, RevisePr, SetPrState
  <1>8. ASSUME Crash \/ Shutdown \/ Drained \/ Start PROVE PushState'
    BY <1>8, ProcessKeeps
  <1> QED
    BY <1>2, <1>3, <1>5, <1>6, <1>7, <1>8 DEF Next

-----------------------------------------------------------------------------
(***************************************************************************)
(* What is spared stays spared.                                            *)
(***************************************************************************)

\* The steps that leave the pushes and their packs alone.
LEMMA SparedBeside ==
  ASSUME NEW S, S \subseteq Pushes, NEW C, Spared(C, S),
         \A q \in Pushes :
           /\ Incomplete(q)' => Incomplete(q) /\ packName'[q] = packName[q]
           /\ pc'[q] = "stored" => pc[q] = "stored" /\ pack'[q] = pack[q],
         Objects \subseteq Objects', \A name : Without(name) \subseteq Without(name)'
  PROVE  Spared(C, S)'
  <1>1. ASSUME NEW q \in S
        PROVE  /\ Incomplete(q)' => C \subseteq Without(packName[q])'
               /\ pc'[q] = "stored" => C \subseteq Without(pack[q])'
    <2>1. /\ Incomplete(q)' => C \subseteq Without(packName[q]) /\ packName'[q] = packName[q]
          /\ pc'[q] = "stored" => C \subseteq Without(pack[q]) /\ pack'[q] = pack[q]
      BY DEF Spared
    <2>2. /\ packName'[q] = packName[q] => Without(packName[q]) \subseteq Without(packName[q])'
          /\ pack'[q] = pack[q] => Without(pack[q]) \subseteq Without(pack[q])'
      BY DEF Without
    <2> QED
      BY <2>1, <2>2
  <1> QED
    BY <1>1 DEF Spared

\* The steps of a push: what was there before its pack does not need the pack.
LEMMA SparedPush ==
  ASSUME Settled, PushState, NEW p \in Pushes, PushCheck(p) \/ PushStep(p),
         NEW S, S \subseteq Pushes, NEW C, Spared(C, S)
  PROVE  Spared(C, S)'
  <1> USE DEF repoVars, journalVars, requestVars, recoveryVars, historyVars
  <1>0. TypeOK /\ FreshOps /\ OpenInv /\ \A q \in Pushes : PushFacts(q)
    BY DEF Settled, IndInv, PushState
  <1>1. /\ pc[p] # "failing" /\ (Active(p) \/ (PushCheck(p) /\ ~PushRunning /\ phase = "up"))
        /\ loose' = loose /\ packs \subseteq packs'
    BY DEF PushStep, PushCheck, PushBegin, PushRefused, PushStore, PushMark, PushLock,
       PushWriteRef, PushComplete, PushFail, Active
  <1>2. \A q \in Pushes : q # p => pc[q] \in {"idle", "done"} /\ ~Incomplete(q)
    <2>1. CASE Active(p)
      BY <1>0, <1>1, <2>1, AloneInFlight
    <2>2. CASE ~Active(p)
      BY <1>0, <1>1, <2>2 DEF PushRunning, Active, OpenInv
    <2> QED
      BY <2>1, <2>2
  <1>3. /\ \E stage : pc' = [pc EXCEPT ![p] = stage]
        /\ intent' = intent \/ \E state : intent' = [intent EXCEPT ![p] = state]
    <2>1. pc' = pc => pc' = [pc EXCEPT ![p] = pc[p]]
      BY <1>0 DEF TypeOK
    <2> QED
      BY <2>1 DEF PushStep, PushCheck, PushBegin, PushRefused, PushStore, PushMark, PushLock,
         PushWriteRef, PushComplete, PushFail, Goto, BeginIntent, MarkPromoted, Complete
  <1>4. \A q \in Pushes : q # p => pc'[q] = pc[q] /\ intent'[q] = intent[q]
    BY <1>0, <1>3 DEF TypeOK, Ops
  <1>5. C \subseteq Objects /\ Objects \subseteq Objects'
    BY <1>1 DEF Spared, Objects
  <1>6. SUFFICES ASSUME p \in S
                 PROVE  /\ Incomplete(p)' => C \subseteq Without(packName[p])'
                        /\ pc'[p] = "stored" => C \subseteq Without(pack[p])'
    BY <1>2, <1>4, <1>5 DEF Spared, Incomplete
  <1>7. CASE PushCheck(p) \/ PushRefused(p)
    <2>1. intent[p] = "none" /\ intent' = intent
      BY <1>0, <1>7 DEF PushCheck, PushRefused, FreshOps, Ops
    <2>2. pc'[p] \in {"checked", "done"}
      BY <1>0, <1>7 DEF PushCheck, PushRefused, Goto, TypeOK, Ops
    <2> QED
      BY <2>1, <2>2 DEF Incomplete
  <1>8. CASE PushBegin(p)
    <2>1. packName'[p] = {} /\ loose' = loose /\ packs' = packs
      BY <1>0, <1>8 DEF PushBegin, FreshOps, PushFacts, StageInv, Ops
    <2>2. C \subseteq Without(packName[p])'
      BY <1>5, <2>1, WithoutNothing DEF Without
    <2>3. pc'[p] = "pending"
      BY <1>0, <1>8 DEF PushBegin, Goto, TypeOK, Ops
    <2> QED
      BY <2>2, <2>3
  <1>9. CASE PushStore(p)
    <2>1. /\ pc[p] = "pending" /\ packName'[p] = packName[p]
          /\ packs' = packs \cup ({pack[p]} \ {{}})
          /\ pack' = [pack EXCEPT ![p] = IF pack[p] \in packs THEN {} ELSE pack[p]]
      BY <1>9 DEF PushStore
    <2>2. packName'[p] = {}
      BY <1>0, <2>1 DEF PushFacts, StageInv
    <2>3. pack'[p] = IF pack[p] \in packs THEN {} ELSE pack[p]
      BY <1>0, <2>1 DEF TypeOK, Ops
    <2>4. C \subseteq Without(packName[p])'
      BY <1>1, <1>5, <2>2 DEF Without, Objects
    <2>5. ASSUME NEW x \in C PROVE x \in loose' \cup UNION (packs' \ {pack'[p]})
      <3>1. CASE x \in loose
        BY <1>1, <3>1
      <3>2. CASE x \notin loose
        <4>1. PICK K \in packs : x \in K
          BY <1>5, <3>2 DEF Objects
        <4>2. K # pack'[p]
          BY <2>3, <4>1
        <4> QED
          BY <2>1, <4>1, <4>2
      <3> QED
        BY <3>1, <3>2
    <2>6. C \subseteq Without(pack[p])'
      BY <2>5 DEF Without
    <2> QED
      BY <2>4, <2>6
  <1>10. CASE PushMark(p)
    <2>1. /\ pc[p] = "stored" /\ packs' = packs /\ loose' = loose
          /\ packName' = [packName EXCEPT ![p] = pack[p]] /\ pc' = [pc EXCEPT ![p] = "promoted"]
      BY <1>10 DEF PushMark, MarkPromoted, Goto
    <2>2. packName'[p] = pack[p] /\ pc'[p] = "promoted"
      BY <1>0, <2>1 DEF TypeOK, Ops
    <2>3. C \subseteq Without(pack[p])
      BY <1>6, <2>1 DEF Spared
    <2> QED
      BY <2>1, <2>2, <2>3 DEF Without
  <1>11. ASSUME UNCHANGED <<loose, packs, packName, intent>>, pc'[p] # "stored"
         PROVE  /\ Incomplete(p)' => C \subseteq Without(packName[p])'
                /\ pc'[p] = "stored" => C \subseteq Without(pack[p])'
    BY <1>6, <1>11 DEF Spared, Incomplete, Without
  <1>12. CASE PushLock(p) \/ PushFail(p)
    <2>1. UNCHANGED <<loose, packs, packName, intent>>
      BY <1>12 DEF PushLock, PushFail
    <2>2. pc'[p] \in {"commit", "failing"}
      BY <1>0, <1>12 DEF PushLock, PushFail, Goto, TypeOK, Ops
    <2> QED
      BY <1>11, <2>1, <2>2
  <1>13. CASE \E x \in Refs : PushWriteRef(p, x)
    <2>1. /\ UNCHANGED <<loose, packs, packName, intent>>
          /\ pc[p] = "commit" /\ (pc' = pc \/ pc' = [pc EXCEPT ![p] = "applied"])
      BY <1>13 DEF PushWriteRef, Goto
    <2>2. pc'[p] # "stored"
      BY <1>0, <2>1 DEF TypeOK, Ops
    <2> QED
      BY <1>11, <2>1, <2>2
  <1>14. CASE PushComplete(p)
    <2>1. /\ intent' = [intent EXCEPT ![p] = "completed"] /\ pc' = [pc EXCEPT ![p] = "done"]
      BY <1>14 DEF PushComplete, Complete, Goto
    <2>2. intent'[p] = "completed" /\ pc'[p] = "done"
      BY <1>0, <2>1 DEF TypeOK, Ops
    <2> QED
      BY <2>2 DEF Incomplete
  <1> QED
    BY <1>7, <1>8, <1>9, <1>10, <1>12, <1>13, <1>14 DEF PushStep

\* The steps of a recovery: what is spared by the push given up does not need its pack.
LEMMA SparedRecover ==
  ASSUME Settled, PushState, NoMergePacks,
         NEW i \in Ops, RecoverRead(i) \/ RecoverDiscard(i) \/ RecoverSettle(i),
         NEW S, S \subseteq Pushes, \A p \in Pushes : verdict[p] = "discard" => p \in S,
         NEW C, Spared(C, S)
  PROVE  Spared(C, S)'
  <1> USE DEF repoVars, journalVars, requestVars, recoveryVars, historyVars
  <1>0. TypeOK /\ OpenInv /\ JudgedInv /\ RecoveryInv /\ PermitInv
    BY DEF Settled, IndInv, PushState
  <1>1. /\ UNCHANGED <<loose, pc, pack, packName>> /\ recovering
        /\ (verdict[i] = "discard" /\ packs' = packs \ {packName[i]}) \/ packs' = packs
        /\ intent' = intent \/ \E state \in {"abandoned", "completed"} : intent' = [intent EXCEPT ![i] = state]
    BY DEF RecoverRead, RecoverDiscard, RecoverSettle, Abandon, Complete
  <1>2. \A q \in Pushes : Incomplete(q)' => Incomplete(q)
    BY <1>0, <1>1 DEF Incomplete, TypeOK, Ops
  <1>3. \A q \in Pushes : pc[q] # "stored"
    BY <1>0, <1>1 DEF PermitInv, Active
  <1>4. CASE packs' = packs \/ i \in Merges
    <2>1. packs' = packs \/ packs' = packs \ {{}}
      BY <1>1, <1>4 DEF NoMergePacks
    <2>2. Objects \subseteq Objects' /\ \A name : Without(name) \subseteq Without(name)'
      BY <1>1, <2>1 DEF Objects, Without
    <2> QED
      BY <1>1, <1>2, <1>3, <2>2, SparedBeside
  <1>5. CASE verdict[i] = "discard" /\ packs' = packs \ {packName[i]} /\ i \in Pushes
    <2>1. i \in todo /\ i \in S
      BY <1>0, <1>5 DEF RecoveryInv
    <2>2. Incomplete(i)
      BY <1>0, <1>1, <1>5, <2>1, RecoveredPush
    <2>3. C \subseteq Without(packName[i])
      BY <2>1, <2>2 DEF Spared
    <2>4. /\ Without(packName[i]) \subseteq Objects'
          /\ Without(packName[i]) \subseteq Without(packName[i])'
      BY <1>1, <1>5 DEF Without, Objects
    <2>5. \A q \in Pushes : Incomplete(q)' => q = i
      BY <1>0, <1>2, <1>5, <2>2 DEF OpenInv
    <2> QED
      BY <1>1, <1>3, <2>3, <2>4, <2>5 DEF Spared
  <1> QED
    BY <1>1, <1>4, <1>5 DEF Ops

\* Every step keeps what is spared by all the pushes it may give up.
LEMMA SparedStays ==
  ASSUME Settled, PushState, NoMergePacks, Next,
         NEW S, S \subseteq Pushes, \A p \in Pushes : verdict[p] = "discard" => p \in S,
         NEW C, Spared(C, S)
  PROVE  Spared(C, S)'
  <1> USE DEF repoVars, journalVars, requestVars, recoveryVars, historyVars
  <1>0. TypeOK
    BY DEF Settled, IndInv
  <1>1. ASSUME NEW p \in Pushes, PushCheck(p) \/ PushStep(p) PROVE Spared(C, S)'
    BY <1>1, SparedPush
  <1>2. ASSUME NEW m \in Merges, MergeStep(m) \/ \E q \in PullRequests : MergePlan(m, q)
        PROVE  Spared(C, S)'
    <2>1. /\ UNCHANGED <<packs, pack>> /\ loose \subseteq loose'
          /\ \E stage : pc' = [pc EXCEPT ![m] = stage]
          /\ intent' = intent \/ \E state : intent' = [intent EXCEPT ![m] = state]
          /\ packName' = packName \/ \E name : packName' = [packName EXCEPT ![m] = name]
      BY <1>2 DEF MergeStep, MergeBegin, MergeRefused, MergeWrite, MergeWriteFails,
         MergeMark, MergeError, MergeApply, MergeApplyFails, MergeConflict, MergeComplete, MergePlan,
         Goto, BeginIntent, MarkPromoted, Abandon, Complete
    <2>2. ASSUME NEW q \in Pushes
          PROVE  pc'[q] = pc[q] /\ intent'[q] = intent[q] /\ packName'[q] = packName[q]
      <3>1. q # m /\ q \in Ops
        BY OpsAssumption DEF Ops
      <3> QED
        BY <1>0, <2>1, <3>1 DEF TypeOK
    <2>3. Objects \subseteq Objects' /\ \A name : Without(name) \subseteq Without(name)'
      BY <2>1 DEF Objects, Without
    <2> QED
      BY <2>1, <2>2, <2>3, SparedBeside DEF Incomplete
  <1>3. ASSUME NEW i \in Ops, RecoverRead(i) \/ RecoverDiscard(i) \/ RecoverSettle(i)
        PROVE  Spared(C, S)'
    BY <1>3, SparedRecover
  <1>4. ASSUME UNCHANGED <<loose, packs, pack, packName, intent>>,
               \A q \in Pushes : pc'[q] = "stored" => pc[q] = "stored"
        PROVE  Spared(C, S)'
    <2>1. Objects \subseteq Objects' /\ \A name : Without(name) \subseteq Without(name)'
      BY <1>4 DEF Objects, Without
    <2> QED
      BY <1>4, <2>1, SparedBeside DEF Incomplete
  <1>5. ASSUME NEW ok \in BOOLEAN, RecoverReturn(ok) PROVE Spared(C, S)'
    BY <1>4, <1>5 DEF RecoverReturn, Ops
  <1>6. ASSUME NEW q \in PullRequests,
               \/ OpenPr(q) \/ RevisePr(q) \/ \E s \in {"open", "closed"} : SetPrState(q, s)
        PROVE  Spared(C, S)'
    BY <1>4, <1>6 DEF OpenPr, RevisePr, SetPrState
  <1>7. ASSUME Crash \/ Shutdown \/ Drained \/ Start \/ RecoverList PROVE Spared(C, S)'
    BY <1>4, <1>7 DEF Crash, Shutdown, Drained, Start, RecoverList, Ops
  <1> QED
    BY <1>1, <1>2, <1>3, <1>5, <1>6, <1>7
    DEF Next, RecoverStep, RecoverEnd, RecoverError, RecoverFails

-----------------------------------------------------------------------------
\* The commands of a push are read once, and a push is applied by its own last write.
LEMMA PushFrame ==
  ASSUME TypeOK, Next, NEW p \in Pushes
  PROVE  /\ pc[p] # "idle" => old'[p] = old[p] /\ new'[p] = new[p]
         /\ p \in applied' => p \in applied \/ \E x \in Refs : PushWriteRef(p, x)
  <1> USE DEF vars, repoVars, journalVars, requestVars, recoveryVars, historyVars
  <1> DEFINE Same == /\ pc[p] # "idle" => old'[p] = old[p] /\ new'[p] = new[p]
                     /\ p \in applied' => p \in applied \/ \E x \in Refs : PushWriteRef(p, x)
  <1>1. ASSUME NEW q \in Pushes, PushCheck(q) PROVE Same
    <2>1. /\ pc[q] = "idle" /\ applied' = applied
          /\ \E f : old' = [old EXCEPT ![q] = f]
          /\ \E f : new' = [new EXCEPT ![q] = f]
      BY <1>1 DEF PushCheck
    <2> QED
      BY <2>1 DEF TypeOK, Ops
  <1>2. ASSUME NEW q \in Pushes, PushStep(q) PROVE Same
    <2>1. UNCHANGED <<old, new>>
      BY <1>2 DEF PushStep, PushBegin, PushRefused, PushStore, PushMark, PushLock,
         PushWriteRef, PushComplete, PushFail
    <2>2. applied' = applied \/ \E x \in Refs : PushWriteRef(q, x) /\ applied' = applied \cup {q}
      BY <1>2 DEF PushStep, PushBegin, PushRefused, PushStore, PushMark, PushLock,
         PushWriteRef, PushComplete, PushFail
    <2> QED
      BY <2>1, <2>2
  <1>3. ASSUME NEW m \in Merges, MergeStep(m) \/ \E q \in PullRequests : MergePlan(m, q)
        PROVE  Same
    <2>1. /\ applied' \subseteq applied \cup {m}
          /\ old' = old \/ \E f : old' = [old EXCEPT ![m] = f]
          /\ new' = new \/ \E f : new' = [new EXCEPT ![m] = f]
      BY <1>3 DEF MergeStep, MergeBegin, MergeRefused, MergeWrite, MergeWriteFails,
         MergeMark, MergeError, MergeApply, MergeApplyFails, MergeConflict, MergeComplete,
         MergePlan
    <2>2. p # m
      BY OpsAssumption
    <2> QED
      BY <2>1, <2>2 DEF TypeOK, Ops
  <1>4. ASSUME UNCHANGED <<old, new, applied>> PROVE Same
    BY <1>4
  <1>5. ASSUME NEW ok \in BOOLEAN, RecoverReturn(ok) PROVE UNCHANGED <<old, new, applied>>
    BY <1>5 DEF RecoverReturn
  <1>6. ASSUME NEW i \in Ops, RecoverRead(i) \/ RecoverDiscard(i) \/ RecoverSettle(i)
        PROVE  UNCHANGED <<old, new, applied>>
    BY <1>6 DEF RecoverRead, RecoverDiscard, RecoverSettle
  <1>7. ASSUME NEW q \in PullRequests,
               \/ OpenPr(q) \/ RevisePr(q) \/ \E s \in {"open", "closed"} : SetPrState(q, s)
        PROVE  UNCHANGED <<old, new, applied>>
    BY <1>7 DEF OpenPr, RevisePr, SetPrState
  <1>8. ASSUME Crash \/ Shutdown \/ Drained \/ Start \/ RecoverList
        PROVE  UNCHANGED <<old, new, applied>>
    BY <1>8 DEF Crash, Shutdown, Drained, Start, RecoverList
  <1> HIDE DEF Same
  <1>9. Same
    BY <1>1, <1>2, <1>3, <1>4, <1>5, <1>6, <1>7, <1>8
    DEF Next, RecoverStep, RecoverEnd, RecoverError, RecoverFails
  <1> QED
    BY <1>9 DEF Same

\* What was overtaken or lapsed stays so.
LEMMA HistoryStays ==
  ASSUME Next
  PROVE  overtaken \subseteq overtaken' /\ (~lapsed' => ~lapsed)
  <1> USE DEF vars, repoVars, journalVars, requestVars, recoveryVars, historyVars
  <1> DEFINE Grows == overtaken \subseteq overtaken' /\ (~lapsed' => ~lapsed)
  <1>1. ASSUME NEW p \in Pushes, PushCheck(p) \/ PushStep(p) PROVE Grows
    BY <1>1 DEF PushStep, PushCheck, PushBegin, PushRefused, PushStore, PushMark, PushLock,
       PushWriteRef, PushComplete, PushFail
  <1>2. ASSUME NEW m \in Merges, MergeStep(m) \/ \E q \in PullRequests : MergePlan(m, q)
        PROVE  Grows
    BY <1>2 DEF MergeStep, MergeBegin, MergeRefused, MergeWrite, MergeWriteFails,
       MergeMark, MergeError, MergeApply, MergeApplyFails, MergeConflict, MergeComplete, MergePlan
  <1>3. ASSUME NEW ok \in BOOLEAN, RecoverReturn(ok)
        PROVE  Grows
    BY <1>3 DEF RecoverReturn
  <1>4. ASSUME NEW i \in Ops, RecoverRead(i) \/ RecoverDiscard(i) \/ RecoverSettle(i) PROVE Grows
    BY <1>4 DEF RecoverRead, RecoverDiscard, RecoverSettle
  <1>5. ASSUME NEW q \in PullRequests,
               \/ OpenPr(q) \/ RevisePr(q) \/ \E s \in {"open", "closed"} : SetPrState(q, s)
        PROVE  Grows
    BY <1>5 DEF OpenPr, RevisePr, SetPrState
  <1>6. ASSUME Crash \/ Shutdown \/ Drained \/ Start \/ RecoverList PROVE Grows
    BY <1>6 DEF Crash, Shutdown, Drained, Start, RecoverList
  <1> HIDE DEF Grows
  <1>7. Grows
    BY <1>1, <1>2, <1>3, <1>4, <1>5, <1>6
    DEF Next, RecoverStep, RecoverEnd, RecoverError, RecoverFails
  <1> QED
    BY <1>7 DEF Grows

\* Every step keeps what pushes have put on their branches.
LEMMA KeptStays ==
  ASSUME Settled, PushState, KeptInv, NoMergePacks, Next
  PROVE  KeptInv'
  <1> USE DEF repoVars, journalVars, requestVars, recoveryVars, historyVars
  <1>0. /\ TypeOK /\ PermitInv /\ OpenInv /\ JudgedInv /\ \A q \in Pushes : PushFacts(q)
        /\ overtaken \subseteq overtaken'
    BY HistoryStays DEF Settled, IndInv, PushState
  <1> SUFFICES ASSUME NEW p \in Pushes, p \in applied', p \notin overtaken',
                      NEW r, r \in Touched(p)'
               PROVE  Spared(Closure(new[p][r]), Pushes \ {p})'
    BY DEF KeptInv
  <1>1. ASSUME NEW x \in Refs, PushWriteRef(p, x)
        PROVE  Spared(Closure(new[p][r]), Pushes \ {p})'
    <2>1. /\ pc[p] = "commit" /\ UNCHANGED <<loose, packs, old, new, intent>>
          /\ pc' = pc \/ pc' = [pc EXCEPT ![p] = "applied"]
      BY <1>1 DEF PushWriteRef, Goto
    <2>2. Closure(new[p][r]) \subseteq Objects
      BY <1>0, <2>1 DEF PushFacts, StoreInv, Touched
    <2>3. \A q \in Pushes : q # p => pc[q] \in {"idle", "done"} /\ ~Incomplete(q)
      BY <1>0, <2>1, AloneInFlight DEF Active
    <2>4. \A q \in Pushes : q # p => ~Incomplete(q)' /\ pc'[q] # "stored"
      BY <1>0, <2>1, <2>3 DEF Incomplete, TypeOK, Ops
    <2> QED
      BY <2>1, <2>2, <2>4 DEF Spared, Objects, Closure
  <1>2. ASSUME p \in applied PROVE Spared(Closure(new[p][r]), Pushes \ {p})'
    <2>1. old'[p] = old[p] /\ new'[p] = new[p]
      BY <1>0, <1>2, PushFrame DEF PermitInv
    <2>2. PICK C : C = Closure(new[p][r])
      OBVIOUS
    <2>3. Spared(C, Pushes \ {p})
      BY <1>0, <1>2, <2>1, <2>2 DEF KeptInv, Touched
    <2>4. \A q \in Pushes : verdict[q] = "discard" => q \in Pushes \ {p}
      BY <1>0, <1>2 DEF JudgedInv
    <2>5. Spared(C, Pushes \ {p})'
      BY <2>3, <2>4, SparedStays
    <2>6. Closure(new[p][r])' = C
      BY <2>1, <2>2 DEF Closure
    <2> QED
      BY <2>5, <2>6 DEF Spared
  <1>3. p \in applied \/ \E x \in Refs : PushWriteRef(p, x)
    BY <1>0, PushFrame
  <1> QED
    BY <1>1, <1>2, <1>3

\* While no push is overtaken, the refs of an incomplete push are its own.
LEMMA UndoneStays ==
  ASSUME Settled, PushState, Next, overtaken' = {}, NEW p \in Pushes,
         AtInitial(p)', Incomplete(p) \/ pc[p] = "stored"
  PROVE  AtInitial(p)
  <1> USE DEF repoVars, journalVars, requestVars, recoveryVars, historyVars
  <1>0. TypeOK /\ FreshOps /\ OpenInv /\ PushFacts(p)
    BY DEF Settled, IndInv, PushState
  <1>1. Incomplete(p) /\ pc[p] # "idle"
    BY <1>0 DEF PushFacts, StageInv, Incomplete, FreshOps, Ops
  <1>2. old'[p] = old[p] /\ new'[p] = new[p] /\ Touched(p)' = Touched(p)
    BY <1>0, <1>1, PushFrame DEF Touched
  <1>3. CASE refs' = refs
    BY <1>2, <1>3 DEF AtInitial, Matches
  <1>4. ASSUME NEW q \in Pushes, NEW x \in Refs, PushWriteRef(q, x) PROVE FALSE
    <2>1. /\ pc[q] = "commit" /\ x \in Touched(q) /\ refs' = [refs EXCEPT ![x] = new[q][x]]
      BY <1>4 DEF PushWriteRef
    <2>2. q = p
      BY <1>0, <1>1, <2>1, AloneInFlight DEF Active
    <2>3. refs'[x] = new[p][x] /\ new[p][x] # old[p][x]
      BY <1>0, <2>1, <2>2 DEF TypeOK, Touched
    <2> QED
      BY <1>2, <2>1, <2>2, <2>3 DEF AtInitial, Matches
  <1>5. ASSUME NEW m \in Merges, MergeApply(m) PROVE AtInitial(p)
    <2>1. /\ refs' = [r \in Refs |-> IF r \in Touched(m) THEN new[m][r] ELSE refs[r]]
          /\ p \notin Overtakes(m)
      BY <1>5 DEF MergeApply
    <2>2. \A r \in Touched(p) : r \in Refs /\ r \notin Touched(m)
      BY <1>1, <2>1 DEF Overtakes, Touched
    <2> QED
      BY <1>2, <2>1, <2>2 DEF AtInitial, Matches
  <1> QED
    BY <1>3, <1>4, <1>5, RefWriters DEF vars

\* As long as no push is overtaken every step keeps what is safe.
LEMMA SafeStays ==
  ASSUME Settled, PushState, NoMergePacks, Next, overtaken' = {}, NEW C, Safe(C)
  PROVE  Safe(C)'
  <1>0. overtaken = {} /\ JudgedInv
    BY HistoryStays DEF PushState
  <1>1. PICK S : S = {p \in Pushes : AtInitial(p) \/ ~(Incomplete(p) \/ pc[p] = "stored")}
    OBVIOUS
  <1>2. S \subseteq Pushes /\ Spared(C, S)
    BY <1>1 DEF Safe, Spared, Undone
  <1>3. \A p \in Pushes : verdict[p] = "discard" => p \in S
    BY <1>0, <1>1 DEF JudgedInv
  <1>4. Spared(C, S)'
    BY <1>2, <1>3, SparedStays
  <1>5. \A p \in Pushes : AtInitial(p)' => p \in S
    BY <1>1, UndoneStays
  <1> QED
    BY <1>4, <1>5 DEF Safe, Spared, Undone

LEMMA PartsSafe ==
  ASSUME NEW A, NEW B, Safe(A), Safe(B), NEW C, C \subseteq A \cup B
  PROVE  Safe(C)
  BY DEF Safe, Spared

\* Loose objects are always safe.
LEMMA LooseSafe == \A C : C \subseteq loose => Safe(C)
  BY DEF Safe, Spared, Objects, Without

\* What a step does to a merge: it plans it, it is a step of its own, or it ends it at most.
LEMMA MergeFrame ==
  ASSUME TypeOK, TypeOK', Next, NEW m \in Merges
  PROVE  \/ \E q \in PullRequests : MergePlan(m, q)
         \/ MergeStep(m)
         \/ /\ old'[m] = old[m] /\ new'[m] = new[m] /\ plan'[m] = plan[m]
            /\ packName'[m] = packName[m] /\ pc'[m] \in {pc[m], "done"} /\ loose \subseteq loose'
  <1> USE DEF repoVars, journalVars, requestVars, recoveryVars, historyVars
  <1> DEFINE Same == /\ old'[m] = old[m] /\ new'[m] = new[m] /\ plan'[m] = plan[m]
                     /\ packName'[m] = packName[m] /\ pc'[m] \in {pc[m], "done"}
                     /\ loose \subseteq loose'
  <1>1. ASSUME NEW p \in Pushes, PushCheck(p) \/ PushStep(p) PROVE Same
    <2>1. /\ loose' = loose /\ plan' = plan
          /\ pc' = pc \/ \E stage : pc' = [pc EXCEPT ![p] = stage]
          /\ packName' = packName \/ \E name : packName' = [packName EXCEPT ![p] = name]
          /\ old' = old \/ \E f : old' = [old EXCEPT ![p] = f]
          /\ new' = new \/ \E f : new' = [new EXCEPT ![p] = f]
      BY <1>1 DEF PushStep, PushCheck, PushBegin, PushRefused, PushStore, PushMark, PushLock,
         PushWriteRef, PushComplete, PushFail, Goto, MarkPromoted, Complete
    <2>2. p # m /\ m \in Ops
      BY OpsAssumption DEF Ops
    <2> QED
      BY <2>1, <2>2 DEF TypeOK
  <1>2. ASSUME NEW n \in Merges, MergeStep(n) \/ \E q \in PullRequests : MergePlan(n, q), n # m
        PROVE  Same
    <2>1. /\ loose \subseteq loose'
          /\ \E stage : pc' = [pc EXCEPT ![n] = stage]
          /\ packName' = packName \/ \E name : packName' = [packName EXCEPT ![n] = name]
          /\ plan' = plan \/ \E f : plan' = [plan EXCEPT ![n] = f]
      BY <1>2 DEF MergeStep, MergeBegin, MergeRefused, MergeWrite, MergeWriteFails,
         MergeMark, MergeError, MergeApply, MergeApplyFails, MergeConflict, MergeComplete, MergePlan,
         Goto, MarkPromoted, Abandon, Complete
    <2>2. /\ old' = old \/ \E f : old' = [old EXCEPT ![n] = f]
          /\ new' = new \/ \E f : new' = [new EXCEPT ![n] = f]
      BY <1>2 DEF MergeStep, MergeBegin, MergeRefused, MergeWrite, MergeWriteFails,
         MergeMark, MergeError, MergeApply, MergeApplyFails, MergeConflict, MergeComplete, MergePlan
    <2>3. m \in Ops
      BY DEF Ops
    <2> QED
      BY <1>2, <2>1, <2>2, <2>3 DEF TypeOK
  <1>3. ASSUME UNCHANGED <<old, new, plan, packName, loose>>, pc'[m] \in {pc[m], "done"}
        PROVE  Same
    BY <1>3
  <1>4. ASSUME NEW ok \in BOOLEAN, RecoverReturn(ok) PROVE Same
    BY <1>3, <1>4 DEF RecoverReturn, Ops
  <1>5. ASSUME NEW i \in Ops, RecoverRead(i) \/ RecoverDiscard(i) \/ RecoverSettle(i) PROVE Same
    BY <1>3, <1>5 DEF RecoverRead, RecoverDiscard, RecoverSettle, Abandon, Complete
  <1>6. ASSUME NEW q \in PullRequests,
               \/ OpenPr(q) \/ RevisePr(q) \/ \E s \in {"open", "closed"} : SetPrState(q, s)
        PROVE  Same
    BY <1>3, <1>6 DEF OpenPr, RevisePr, SetPrState
  <1>7. ASSUME Crash \/ Shutdown \/ Drained \/ Start \/ RecoverList PROVE Same
    BY <1>3, <1>7 DEF Crash, Shutdown, Drained, Start, RecoverList, Ops
  <1> HIDE DEF Same
  <1>8. \/ \E q \in PullRequests : MergePlan(m, q)
        \/ MergeStep(m)
        \/ Same
    BY <1>1, <1>2, <1>4, <1>5, <1>6, <1>7
    DEF Next, RecoverStep, RecoverEnd, RecoverError, RecoverFails
  <1> QED
    BY <1>8 DEF Same

\* What a merge plans to put on its base is reached by the refs it read, or is its own.
LEMMA PlanSafe ==
  ASSUME Settled, RefsSafe, TypeOK', NEW m \in Merges, NEW q \in PullRequests, MergePlan(m, q)
  PROVE  \E C : Safe(C) /\ Needed(m)' \subseteq C
  <1> USE DEF repoVars, journalVars, requestVars, recoveryVars, historyVars
  <1>0. TypeOK
    BY DEF Settled, IndInv
  <1> DEFINE b == pr[q].base_ref
             h == pr[q].head_ref
  <1>1. b \in Refs /\ h \in Refs /\ m \in Ops
    BY <1>0 DEF TypeOK, PrRows, Ops
  <1>2. PICK target \in MergeTarget(refs[b], refs[h]) :
          new' = [new EXCEPT ![m] = [refs EXCEPT ![b] = target]]
    BY DEF MergePlan
  <1>3. old' = [old EXCEPT ![m] = refs] /\ plan'[m].head = refs[h]
    BY <1>0 DEF MergePlan, TypeOK
  <1>4. /\ old'[m] = refs /\ new'[m] = [refs EXCEPT ![b] = target]
    BY <1>0, <1>1, <1>2, <1>3 DEF TypeOK
  <1>5. \A r \in Touched(m)' : r = b /\ new'[m][r] = target
    BY <1>0, <1>1, <1>4 DEF Touched, TypeOK
  <1>6. /\ refs[b] \in Oids /\ refs[h] \in Oids
        /\ \/ target = refs[h]
           \/ Closure(target) \subseteq Closure(refs[b]) \cup Closure(refs[h]) \cup {target}
    <2>1. CASE <<refs[b], refs[h]>> \in Ancestry
      <3>1. target = refs[h]
        BY <1>2, <2>1 DEF MergeTarget
      <3> QED
        BY <2>1, <3>1, AncestryTyped
    <2>2. CASE <<refs[b], refs[h]>> \notin Ancestry
      <3>1. <<refs[b], refs[h], target>> \in MergeCommits
        BY <1>2, <2>2 DEF MergeTarget
      <3> DEFINE t == <<refs[b], refs[h], target>>
      <3>2. t \in Oids \X Oids \X Oids
            /\ Closure(t[3]) \subseteq Closure(t[1]) \cup Closure(t[2]) \cup {t[3]}
        BY <3>1, MergeCommitAssumption
      <3> QED
        BY <3>2
    <2> QED
      BY <2>1, <2>2
  <1>7. Safe(Closure(refs[b])) /\ Safe(Closure(refs[h]))
    BY <1>1 DEF RefsSafe
  <1>8. Safe(Closure(refs[b]) \cup Closure(refs[h]))
    BY <1>7, PartsSafe
  <1>9. ASSUME NEW x \in Needed(m)' PROVE x \in Closure(refs[b]) \cup Closure(refs[h])
    <2>1. PICK r \in Touched(m)' : x \in Closure(new'[m][r])
      BY <1>9 DEF Needed
    <2>2. x \in Closure(target) /\ new'[m][r] = target
      BY <1>5, <2>1
    <2>3. x \notin Written(m)'
      BY <1>9 DEF Needed
    <2>4. target # refs[h] => target \in Written(m)'
      BY <1>3, <2>1, <2>2 DEF Written
    <2> QED
      BY <1>6, <2>2, <2>3, <2>4
  <1> QED
    BY <1>8, <1>9

\* Every step keeps what the swap of a merge relies on.
LEMMA MergeFactsKept ==
  ASSUME Settled, PushState, TypeOK', NoMergePacks, RefsSafe, Next, overtaken' = {},
         NEW m \in Merges, MergeFacts(m)
  PROVE  MergeFacts(m)'
  <1> USE DEF repoVars, journalVars, requestVars, recoveryVars, historyVars
  <1>0. TypeOK /\ m \in Ops
    BY DEF Settled, IndInv, Ops
  <1>1. \A C : Safe(C) => Safe(C)'
    BY SafeStays
  <1>2. ASSUME old'[m] = old[m], new'[m] = new[m], plan'[m] = plan[m],
               pc'[m] \in {"checked", "pending", "stored", "promoted"} =>
                 pc[m] \in {"checked", "pending", "stored", "promoted"}
        PROVE  /\ Needed(m)' = Needed(m) /\ Written(m)' = Written(m)
               /\ pc'[m] \in {"checked", "pending", "stored", "promoted"} => Safe(Needed(m))'
    <2>1. Touched(m)' = Touched(m)
      BY <1>2 DEF Touched
    <2>2. Written(m)' = Written(m)
      BY <1>2, <2>1 DEF Written
    <2>3. Needed(m)' = Needed(m)
      BY <1>2, <2>1, <2>2 DEF Needed
    <2>4. ASSUME pc'[m] \in {"checked", "pending", "stored", "promoted"} PROVE Safe(Needed(m))'
      <3>1. PICK C : C = Needed(m)
        OBVIOUS
      <3>2. Safe(C)
        BY <1>2, <2>4, <3>1 DEF MergeFacts
      <3>3. Safe(C)'
        BY <1>1, <3>2
      <3> QED
        BY <2>3, <3>1, <3>3 DEF Safe, Spared
    <2> QED
      BY <2>2, <2>3, <2>4
  <1>3. CASE \E q \in PullRequests : MergePlan(m, q)
    <2>1. PICK q \in PullRequests : MergePlan(m, q)
      BY <1>3
    <2>2. PICK C : Safe(C) /\ Needed(m)' \subseteq C
      BY <2>1, PlanSafe
    <2>3. Safe(C)'
      BY <1>1, <2>2
    <2>4. Safe(Needed(m))'
      BY <2>2, <2>3 DEF Safe, Spared
    <2>5. pc'[m] = "checked"
      BY <1>0, <2>1 DEF MergePlan, Goto, TypeOK
    <2> QED
      BY <1>0, <2>4, <2>5 DEF MergeFacts
  <1>4. CASE MergeStep(m)
    <2>1. UNCHANGED <<old, new, plan>> /\ loose \subseteq loose'
      BY <1>4 DEF MergeStep, MergeBegin, MergeRefused, MergeWrite, MergeWriteFails,
         MergeMark, MergeError, MergeApply, MergeApplyFails, MergeConflict, MergeComplete
    <2>2. \/ pc[m] = "checked" /\ pc' = [pc EXCEPT ![m] = "pending"]
          \/ MergeWrite(m)
          \/ pc[m] = "stored" /\ pc' = [pc EXCEPT ![m] = "promoted"]
          \/ \E stage \in {"done", "conflict", "applied"} : pc' = [pc EXCEPT ![m] = stage]
      BY <1>4 DEF MergeStep, MergeBegin, MergeRefused, MergeWriteFails,
         MergeMark, MergeError, MergeApply, MergeApplyFails, MergeConflict, MergeComplete,
         Goto
    <2>3. CASE MergeWrite(m)
      <3>1. /\ pc[m] = "pending" /\ pc' = [pc EXCEPT ![m] = "stored"]
            /\ loose' = loose \cup Written(m)
        BY <2>3 DEF MergeWrite, Goto, Written
      <3>2. pc'[m] = "stored"
        BY <1>0, <3>1 DEF TypeOK
      <3> QED
        BY <1>0, <1>2, <2>1, <3>1, <3>2 DEF MergeFacts
    <2>4. CASE ~MergeWrite(m)
      <3>1. /\ pc'[m] \in {"checked", "pending", "stored", "promoted"} =>
                 pc[m] \in {"checked", "pending", "stored", "promoted"}
            /\ pc'[m] \in {"stored", "promoted"} => pc[m] \in {"stored", "promoted"}
        BY <1>0, <2>2, <2>4 DEF TypeOK
      <3> QED
        BY <1>0, <1>2, <2>1, <3>1 DEF MergeFacts
    <2> QED
      BY <2>3, <2>4
  <1>5. CASE /\ old'[m] = old[m] /\ new'[m] = new[m] /\ plan'[m] = plan[m]
             /\ packName'[m] = packName[m] /\ pc'[m] \in {pc[m], "done"} /\ loose \subseteq loose'
    BY <1>0, <1>2, <1>5 DEF MergeFacts
  <1> QED
    BY <1>0, <1>3, <1>4, <1>5, MergeFrame

\* A merge has no pack at any time.
LEMMA MergePacksStay ==
  ASSUME TypeOK, TypeOK', NoMergePacks, Next
  PROVE  NoMergePacks'
  <1> USE DEF repoVars, journalVars, requestVars, recoveryVars, historyVars
  <1> SUFFICES ASSUME NEW m \in Merges PROVE packName'[m] = {}
    BY DEF NoMergePacks
  <1>1. packName[m] = {} /\ m \in Ops
    BY DEF NoMergePacks, Ops
  <1>2. CASE MergeStep(m) \/ \E q \in PullRequests : MergePlan(m, q)
    <2>1. packName' = packName \/ packName' = [packName EXCEPT ![m] = {}]
      BY <1>2 DEF MergeStep, MergeBegin, MergeRefused, MergeWrite, MergeWriteFails,
         MergeMark, MergeError, MergeApply, MergeApplyFails, MergeConflict, MergeComplete, MergePlan,
         MarkPromoted, Abandon, Complete
    <2> QED
      BY <1>1, <2>1 DEF TypeOK
  <1> QED
    BY <1>1, <1>2, MergeFrame

\* What the refs reach is safe after every step.
LEMMA RefsStaySafe ==
  ASSUME Settled, PushState, NoMergePacks, RefsSafe, \A m \in Merges : MergeFacts(m), Next,
         overtaken' = {}
  PROVE  RefsSafe'
  <1> USE DEF repoVars, journalVars, requestVars, recoveryVars, historyVars
  <1>0. TypeOK /\ OpenInv /\ \A q \in Pushes : PushFacts(q)
    BY DEF Settled, IndInv, PushState
  <1>1. \A C : Safe(C) => Safe(C)'
    BY SafeStays
  <1> SUFFICES ASSUME NEW r \in Refs PROVE Safe(Closure(refs[r]))'
    BY DEF RefsSafe
  <1>2. ASSUME NEW C, C = Closure(refs'[r]), Safe(C)' PROVE Safe(Closure(refs[r]))'
    BY <1>2 DEF Safe, Spared, Closure
  <1>3. CASE refs'[r] = refs[r]
    <2>1. PICK C : C = Closure(refs[r])
      OBVIOUS
    <2>2. Safe(C)
      BY <2>1 DEF RefsSafe
    <2> QED
      BY <1>1, <1>2, <1>3, <2>1, <2>2
  <1>4. ASSUME NEW p \in Pushes, NEW x \in Refs, PushWriteRef(p, x), refs'[r] # refs[r]
        PROVE  Safe(Closure(refs[r]))'
    <2>1. /\ pc[p] = "commit" /\ x \in Touched(p) /\ refs' = [refs EXCEPT ![x] = new[p][x]]
          /\ UNCHANGED <<loose, packs, old, new, intent>>
          /\ pc' = pc \/ pc' = [pc EXCEPT ![p] = "applied"]
      BY <1>4 DEF PushWriteRef, Goto
    <2>2. refs'[r] = new[p][r] /\ r \in Touched(p) /\ new[p][r] # old[p][r]
      BY <1>0, <1>4, <2>1 DEF TypeOK, Touched
    <2>3. Closure(refs'[r]) \subseteq Objects
      BY <1>0, <2>1, <2>2 DEF PushFacts, StoreInv
    <2>4. \A q \in Pushes : q # p => pc[q] \in {"idle", "done"} /\ ~Incomplete(q)
      BY <1>0, <2>1, AloneInFlight DEF Active
    <2>5. /\ \A q \in Pushes : q # p => ~Incomplete(q)'
          /\ \A q \in Pushes : pc'[q] # "stored"
      BY <1>0, <2>1, <2>4 DEF Incomplete, TypeOK, Ops
    <2>6. p \notin Undone'
      BY <2>1, <2>2 DEF Undone, AtInitial, Matches, Touched
    <2> QED
      BY <2>1, <2>3, <2>5, <2>6 DEF Safe, Spared, Undone, Objects, Closure
  <1>5. ASSUME NEW m \in Merges, MergeApply(m), refs'[r] # refs[r]
        PROVE  Safe(Closure(refs[r]))'
    <2>1. /\ pc[m] = "promoted"
          /\ refs' = [x \in Refs |-> IF x \in Touched(m) THEN new[m][x] ELSE refs[x]]
      BY <1>5 DEF MergeApply
    <2>2. r \in Touched(m) /\ refs'[r] = new[m][r]
      BY <1>5, <2>1
    <2>3. Safe(Needed(m)) /\ Safe(Written(m))
      BY <2>1, LooseSafe DEF MergeFacts
    <2>4. Closure(refs'[r]) \subseteq Needed(m) \cup Written(m)
      BY <2>2 DEF Needed, Closure
    <2>5. PICK C : C = Closure(refs'[r])
      OBVIOUS
    <2>6. Safe(C)
      BY <2>3, <2>4, <2>5, PartsSafe
    <2> QED
      BY <1>1, <1>2, <2>5, <2>6
  <1> QED
    BY <1>3, <1>4, <1>5, RefWriters DEF vars

-----------------------------------------------------------------------------
\* Every step keeps the state of the repository.
LEMMA NextRepo ==
  ASSUME IndInv, PermitInv, RepoState, Next, ~lapsed'
  PROVE  RepoState'
  <1>1. Settled /\ TypeOK /\ TypeOK' /\ overtaken \subseteq overtaken'
    BY HistoryStays, NextTypeOK DEF Settled, IndInv
  <1>2. PushState /\ KeptInv /\ NoMergePacks /\ SafeState
    BY DEF RepoState
  <1>3. PushState'
    BY <1>1, <1>2, NextPush
  <1>4. KeptInv' /\ NoMergePacks'
    BY <1>1, <1>2, KeptStays, MergePacksStay
  <1>5. ASSUME overtaken' = {} PROVE RefsSafe' /\ \A m \in Merges : MergeFacts(m)'
    <2>1. RefsSafe /\ \A m \in Merges : MergeFacts(m)
      BY <1>1, <1>2, <1>5 DEF SafeState
    <2> QED
      BY <1>1, <1>2, <1>5, <2>1, RefsStaySafe, MergeFactsKept
  <1> QED
    BY <1>3, <1>4, <1>5 DEF RepoState, SafeState

\* A step that changes nothing keeps it.
LEMMA SameRepo == ASSUME RepoState, UNCHANGED vars PROVE RepoState'
  <1> USE DEF vars, repoVars, journalVars, requestVars, recoveryVars, historyVars
  <1>1. \A q \in Pushes : PushFacts(q)'
    BY DEF RepoState, PushState, PushFacts, StageInv, BetweenInv, StoreInv, RecordedInv,
       Touched, Incomplete, AtInitial, AtProposed, Matches, Objects, Closure
  <1>2. OpenInv' /\ JudgedInv' /\ NoMergePacks'
    BY DEF RepoState, PushState, OpenInv, JudgedInv, NoMergePacks, Active, Incomplete, AtInitial,
       Matches, Touched
  <1>3. \A C, S : Spared(C, S) => Spared(C, S)'
    BY DEF Spared, Objects, Without, Incomplete
  <1>4. KeptInv'
    BY <1>3 DEF RepoState, KeptInv, Touched, Closure, Spared, Objects, Without, Incomplete
  <1>5. SafeState'
    BY DEF RepoState, SafeState, RefsSafe, MergeFacts, Needed, Written, Safe, Undone, Spared,
       AtInitial, Matches, Touched, Closure, Objects, Without, Incomplete
  <1> QED
    BY <1>1, <1>2, <1>4, <1>5 DEF RepoState, PushState

\* It holds at the start.
LEMMA InitRepo == Init => RepoState
  <1> SUFFICES ASSUME Init PROVE RepoState
    OBVIOUS
  <1>1. \A p \in Pushes : /\ pc[p] = "idle" /\ intent[p] = "none" /\ packName[p] = {}
                          /\ verdict[p] = "unread"
    BY DEF Init, Ops
  <1>2. OpenInv /\ JudgedInv
    BY <1>1 DEF Init, OpenInv, JudgedInv, Incomplete
  <1>3. \A p \in Pushes : PushFacts(p)
    BY <1>1 DEF Init, PushFacts, StageInv, BetweenInv, StoreInv, RecordedInv, Incomplete
  <1>4. KeptInv /\ NoMergePacks
    BY DEF Init, KeptInv, NoMergePacks, Ops
  <1>5. ASSUME NEW r \in Refs PROVE Safe(Closure(refs[r]))
    <2>1. CASE refs[r] = NoOid
      BY <2>1, NullClosure, LooseSafe
    <2>2. CASE refs[r] # NoOid
      <3>1. Closure(refs[r]) \subseteq loose
        BY <2>2 DEF Init
      <3> QED
        BY <3>1, LooseSafe
    <2> QED
      BY <2>1, <2>2
  <1>6. \A m \in Merges : MergeFacts(m)
    BY DEF Init, MergeFacts, Ops
  <1> QED
    BY <1>2, <1>3, <1>4, <1>5, <1>6 DEF RepoState, PushState, SafeState, RefsSafe

\* It holds until a recovery lapses.
LEMMA RepoInvariant == Spec => []RepoInv
  <1>1. IndInv /\ PermitInv /\ RepoInv /\ [Next]_vars => RepoInv'
    <2> SUFFICES ASSUME IndInv, PermitInv, RepoInv, [Next]_vars, ~lapsed'
                 PROVE  RepoState'
      BY DEF RepoInv
    <2>1. CASE UNCHANGED vars
      <3>1. ~lapsed
        BY <2>1 DEF vars, historyVars
      <3> QED
        BY <2>1, <3>1, SameRepo DEF RepoInv
    <2>2. CASE Next
      BY <2>2, HistoryStays, NextRepo DEF RepoInv
    <2> QED
      BY <2>1, <2>2
  <1>2. Init => RepoInv
    BY InitRepo DEF RepoInv
  <1> QED
    BY <1>1, <1>2, Invariance, PermitInvariant, PTL DEF Spec

\* No recovery of a failed or killed push takes a commit from under a branch:
\* remove_promoted_pack removes only packs that no ref needs, and merges beside the push
\* do not change that as long as none swaps a ref of a push that is not settled.
THEOREM ObjectsTheorem == Spec => []RefsHaveObjects
  <1>1. RepoInv => RefsHaveObjects
    BY DEF RepoInv, RepoState, SafeState, RefsSafe, Safe, Spared, RefsHaveObjects, RefsReadable
  <1> QED
    BY <1>1, RepoInvariant, PTL

\* A push whose refs all moved keeps what it moved, with merges, recoveries and other
\* pushes at any moment beside it: its event is written or still due
\* (complete_git_intent), and the commits it put on its branches stay in the store.  Only
\* a merge that moves one of the refs of this very push before its event is written can
\* take that from it, as the run git_merge_race shows.
THEOREM PushesKept == Spec => []KeptUnlessOvertaken
  <1>1. RepoInv => KeptUnlessOvertaken
    <2> SUFFICES ASSUME RepoState, NEW p \in (applied \cap Pushes) \ overtaken
                 PROVE  /\ intent[p] \in {"promoted", "completed"}
                        /\ \A r \in Touched(p) : Closure(new[p][r]) \subseteq Objects
      BY DEF RepoInv, KeptUnlessOvertaken
    <2>1. intent[p] \in {"promoted", "completed"}
      BY DEF RepoState, PushState, PushFacts, RecordedInv
    <2>2. \A r \in Touched(p) : Closure(new[p][r]) \subseteq Objects
      BY DEF RepoState, KeptInv, Spared
    <2> QED
      BY <2>1, <2>2
  <1> QED
    BY <1>1, RepoInvariant, PTL
=============================================================================
