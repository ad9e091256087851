------------------------- MODULE DefaultBranchProofs -------------------------
(***************************************************************************)
(* The safety properties of DefaultBranch for any branches, any number of  *)
(* changes and pushes and any number of stops.                             *)
(***************************************************************************)
EXTENDS DefaultBranch, TLAPS

\* A new or imported repository satisfies the inductive invariant.
LEMMA InitInv == Init => IndInv
  BY BranchAssumption, ChangeAssumption, StopAssumption
     DEF Init, IndInv, TypeOK, HeadIsStored, RowDescribesHead, AuditIsReal, OneChange,
         StagesTell, RowTells, Stages

\* Every step keeps the types.
LEMMA NextTyped == TypeOK /\ [Next]_vars => TypeOK'
<1> SUFFICES ASSUME TypeOK, [Next]_vars PROVE TypeOK'
  OBVIOUS
<1> USE BranchAssumption, ChangeAssumption, StopAssumption DEF TypeOK, Stages
<1>1. ASSUME NEW c \in Changes,
             ChangeRead(c) \/ ChangeBegin(c) \/ ChangeRefused(c) \/ ChangeSetHead(c)
      PROVE TypeOK'
  BY <1>1 DEF ChangeRead, ChangeBegin, ChangeRefused, ChangeSetHead, Goto, changeVars, pushVars
<1>2. ASSUME NEW c \in Changes,
             ChangeSetHeadFails(c) \/ ChangeAbandon(c) \/ ChangeComplete(c) \/ ChangeError(c)
      PROVE TypeOK'
  BY <1>2 DEF ChangeSetHeadFails, ChangeAbandon, ChangeComplete, ChangeError, Abandon,
              Complete, Goto, changeVars, pushVars
<1>3. ASSUME NEW p \in Pushes,
             PushCreate(p) \/ PushAuthorize(p) \/ PushDelete(p) \/ PushFails(p)
      PROVE TypeOK'
  BY <1>3 DEF PushCreate, PushAuthorize, PushDelete, PushFails, changeVars, pushVars
<1>4. CASE Stop
  BY <1>4 DEF Stop
<1>5. CASE Start \/ RecoverEnd
  BY <1>5 DEF Start, RecoverEnd, changeVars, pushVars
<1>6. CASE Recover
  BY <1>6 DEF Recover, Abandon, Complete, changeVars, pushVars
<1>7. CASE UNCHANGED vars
  BY <1>7 DEF vars, changeVars, pushVars
<1> QED
  BY <1>1, <1>2, <1>3, <1>4, <1>5, <1>6, <1>7 DEF Next

\* Every step keeps the inductive invariant: the actions of a change move its
\* row, HEAD and its stage together, the others leave them alone, and recovery
\* runs when no change does.
LEMMA NextInv == IndInv /\ [Next]_vars => IndInv'
<1> SUFFICES ASSUME IndInv, [Next]_vars PROVE IndInv'
  OBVIOUS
<1>0. TypeOK'
  BY NextTyped DEF IndInv
<1> DEFINE Rest == HeadIsStored /\ RowDescribesHead /\ AuditIsReal
                   /\ OneChange /\ StagesTell /\ RowTells
<1> SUFFICES Rest'
  BY <1>0 DEF IndInv
<1> USE ChangeAssumption
    DEF IndInv, TypeOK, Stages, HeadIsStored, RowDescribesHead, AuditIsReal, OneChange,
        StagesTell, RowTells
<1>1. ASSUME NEW c \in Changes, ChangeRead(c) PROVE Rest'
  BY <1>1 DEF ChangeRead, Changing, Goto
<1>2. ASSUME NEW c \in Changes, ChangeBegin(c) PROVE Rest'
  BY <1>2 DEF ChangeBegin, Goto
<1>3. ASSUME NEW c \in Changes, ChangeRefused(c) PROVE Rest'
  BY <1>3 DEF ChangeRefused, Goto
<1>4. ASSUME NEW c \in Changes, ChangeSetHead(c) PROVE Rest'
  BY <1>4 DEF ChangeSetHead, Goto
<1>5. ASSUME NEW c \in Changes, ChangeSetHeadFails(c) PROVE Rest'
  BY <1>5 DEF ChangeSetHeadFails, Goto
<1>6. ASSUME NEW c \in Changes, ChangeAbandon(c) PROVE Rest'
  BY <1>6 DEF ChangeAbandon, Abandon, Goto
<1>7. ASSUME NEW c \in Changes, ChangeComplete(c) PROVE Rest'
  BY <1>7 DEF ChangeComplete, Complete, Goto
<1>8. ASSUME NEW c \in Changes, ChangeError(c) PROVE Rest'
  BY <1>8 DEF ChangeError, Goto
<1>9. ASSUME NEW p \in Pushes,
             PushCreate(p) \/ PushAuthorize(p) \/ PushDelete(p) \/ PushFails(p)
      PROVE Rest'
  BY <1>9 DEF PushCreate, PushAuthorize, PushDelete, PushFails, changeVars
<1>10. CASE Stop
  BY <1>10 DEF Stop
<1>11. CASE Start \/ RecoverEnd
  BY <1>11 DEF Start, RecoverEnd, changeVars
<1>12. CASE Recover
  <2>1. \A c \in Changes : pc[c] \in {"idle", "done"}
    BY <1>12 DEF Recover
  <2>2. CASE head = prev[row]
    BY <1>12, <2>1, <2>2 DEF Recover, Abandon, changeVars
  <2>3. CASE head # prev[row]
    BY <1>12, <2>1, <2>3 DEF Recover, Complete, changeVars
  <2> QED
    BY <2>2, <2>3
<1>13. CASE UNCHANGED vars
  BY <1>13 DEF vars, changeVars
<1> QED
  BY <1>1, <1>2, <1>3, <1>4, <1>5, <1>6, <1>7, <1>8, <1>9, <1>10, <1>11, <1>12, <1>13
     DEF Next

\* The inductive invariant holds in every reachable state.
LEMMA Inductive == Spec => []IndInv
  BY InitInv, NextInv, PTL DEF Spec

\* HEAD and the stored default branch agree whenever no intent row is open,
\* through failures of every write and any number of kills.
THEOREM HeadAgrees == Spec => []HeadIsStored
<1>1. IndInv => HeadIsStored
  BY DEF IndInv
<1> QED
  BY <1>1, Inductive, PTL

\* Startup recovery always finds HEAD at one of the two branches of the row, so
\* it never refuses to start the server.
THEOREM RowTellsHead == Spec => []RowDescribesHead
<1>1. IndInv => RowDescribesHead
  BY DEF IndInv
<1> QED
  BY <1>1, Inductive, PTL

\* At every moment the database accounts for HEAD, with or without a row.
THEOREM HeadExplained == Spec => []HeadIsExplained
<1>1. IndInv => HeadIsExplained
  BY DEF IndInv, HeadIsExplained
<1> QED
  BY <1>1, Inductive, PTL

\* The audit history has a success event for exactly the changes that moved HEAD.
THEOREM AuditTrue == Spec => []AuditIsReal
<1>1. IndInv => AuditIsReal
  BY DEF IndInv
<1> QED
  BY <1>1, Inductive, PTL
=============================================================================
