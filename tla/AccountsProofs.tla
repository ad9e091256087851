--------------------------- MODULE AccountsProofs ---------------------------
(***************************************************************************)
(* The safety properties of Accounts for any accounts, keys, secrets,      *)
(* account jobs and Web requests and any number of stops and recoveries.   *)
(***************************************************************************)
EXTENDS Accounts, FiniteSetTheorems, TLAPS

\* The state in which the administrator has logged in and the server starts.
LEMMA InitInv == Init => IndInv
<1> SUFFICES ASSUME Init PROVE IndInv
  OBVIOUS
<1> USE FirstAssumption, NullAssumption DEF Init, NoRow, Over, Closed, NoToken
<1>1. TypeOK
  BY DEF TypeOK, TicketRow, SessionRow, Kinds
<1>2. RowsTell /\ TicketsTell /\ OpenIsActive /\ RequestsTell
  BY DEF RowsTell, TicketsTell, OpenIsActive, RequestsTell
<1>3. CacheTells /\ ReloadTells
  BY DEF CacheTells, ReloadTells, ActiveKeys
<1>4. TicketsOnce /\ EveryAccountHasKey /\ RecoveryReplacesAll
  BY DEF TicketsOnce, EveryAccountHasKey, RecoveryReplacesAll, KeysOf
<1> QED
  BY <1>1, <1>2, <1>3, <1>4 DEF IndInv

\* The rows that steps write are of the right shape.
LEMMA RowShapes ==
  ASSUME TypeOK
  PROVE  /\ Over \in TicketRow
         /\ \A a \in Accounts \cup {NoAccount} : Ended(a) \in [Tickets -> SessionRow]
         /\ \A s \in Tickets : EndedRow(s) \in SessionRow
  BY DEF TypeOK, Over, NoRow, TicketRow, SessionRow, Kinds, Closed, Ended, EndedRow

\* Using a ticket up keeps the types of tickets and of their counts.
LEMMA UseTyped ==
  ASSUME TypeOK, NEW t \in Tickets, Use(t)
  PROVE  ticket' \in [Tickets -> TicketRow] /\ uses' \in [Tickets -> Nat]
  BY RowShapes DEF TypeOK, Use

\* So does opening a session.
LEMMA SessionTyped ==
  ASSUME TypeOK, NEW a \in Accounts, NEW k \in Keys
  PROVE  [state |-> "live", account |-> a, key |-> k, stamp |-> recovered[a]] \in SessionRow
  BY DEF TypeOK, SessionRow

\* Every step keeps the types.
LEMMA NextTyped == IndInv /\ [Next]_vars => TypeOK'
<1> SUFFICES ASSUME IndInv, [Next]_vars PROVE TypeOK'
  OBVIOUS
<1>0. TypeOK /\ RowsTell /\ TicketsTell /\ RequestsTell
  BY DEF IndInv
<1>a. /\ Over \in TicketRow
      /\ \A a \in Accounts \cup {NoAccount} : Ended(a) \in [Tickets -> SessionRow]
      /\ \A s \in Tickets : EndedRow(s) \in SessionRow
  BY <1>0, RowShapes
<1> USE <1>0, <1>a, NullAssumption DEF TypeOK, NoToken
<1>1. ASSUME NEW t \in Tickets, Invite(t) PROVE TypeOK'
  BY <1>1 DEF Invite, Issue, procs, TicketRow, NoRow, Kinds
<1>2. ASSUME NEW t \in Tickets, NEW a \in Accounts, Challenge(t, a) PROVE TypeOK'
  BY <1>2 DEF Challenge, Issue, procs, TicketRow, NoRow, Kinds
<1>3. ASSUME NEW t \in Tickets, RequestLogin(t) PROVE TypeOK'
  BY <1>3 DEF RequestLogin, Issue, procs, TicketRow, NoRow, Kinds
<1>4. ASSUME NEW t \in Tickets, Expire(t) PROVE TypeOK'
  BY <1>4 DEF Expire, procs
<1>5. ASSUME NEW t \in Tickets, SshApprove(t) PROVE TypeOK'
  <2>1. ticket' = [ticket EXCEPT ![t] = [ticket[t] EXCEPT !.state = "approved", !.account = owner[ssh], !.key = ssh]]
    BY <1>5 DEF SshApprove, TicketRow
  <2>2. [ticket[t] EXCEPT !.state = "approved", !.account = owner[ssh], !.key = ssh] \in TicketRow
    BY ZenonT(40), <1>5 DEF SshApprove, ActiveKeys, TicketRow
  <2> QED
    BY <1>5, <2>1, <2>2 DEF SshApprove
<1>6. ASSUME NEW t \in Tickets, CompleteLogin(t) PROVE TypeOK'
  <2>1. ticket[t].key \in Keys /\ ticket[t].account \in Accounts
    BY <1>6 DEF CompleteLogin, TicketsTell
  <2> QED
    BY <1>6, <2>1, UseTyped, SessionTyped DEF CompleteLogin, OpenSession, procs
<1>7. ASSUME NEW t \in Tickets, NEW k \in Keys, VerifyChallenge(t, k) PROVE TypeOK'
  <2>1. ticket[t].account \in Accounts
    BY <1>7 DEF VerifyChallenge, ActiveKeys, RowsTell
  <2> QED
    BY <1>7, <2>1, UseTyped, SessionTyped DEF VerifyChallenge, OpenSession, procs
<1>8. ASSUME NEW t \in Tickets, SessionExpires(t) PROVE TypeOK'
  BY <1>8 DEF SessionExpires, procs
<1>9. ASSUME NEW r \in Requests, NEW s \in Tickets, RequestAuthenticated(r, s) PROVE TypeOK'
  BY <1>9 DEF RequestAuthenticated, rows
<1>10. ASSUME NEW r \in Requests, RequestFails(r) PROVE TypeOK'
  BY <1>10 DEF RequestFails, RequestDone, rows
<1>11. ASSUME NEW r \in Requests, NEW t \in Tickets, BeginKeyChange(r, t) PROVE TypeOK'
  <2>1. request[r] \in Tickets /\ Actor(r) \in Accounts \cup {NoAccount}
    BY <1>11 DEF BeginKeyChange, RequestDone, Actor, SessionRow
  <2> QED
    BY <1>11, <2>1 DEF BeginKeyChange, RequestDone, Issue, TicketRow, NoRow, Kinds
<1>12. ASSUME NEW r \in Requests, IssueToken(r) \/ RotateToken(r) \/ RevokeToken(r) PROVE TypeOK'
  <2>1. Actor(r) \in Accounts
    BY <1>12 DEF IssueToken, RotateToken, RevokeToken, RequestDone, Actor, RequestsTell
  <2> QED
    BY <1>12, <2>1 DEF IssueToken, RotateToken, RevokeToken, RequestDone
<1>13. ASSUME NEW r \in Requests, Logout(r) PROVE TypeOK'
  <2>1. Actor(r) \in Accounts \cup {NoAccount}
    BY <1>13 DEF Logout, RequestDone, Actor, SessionRow
  <2> QED
    BY <1>13, <2>1 DEF Logout, RequestDone
<1>14. ASSUME NEW j \in Jobs, View(j) PROVE TypeOK'
  BY <1>14 DEF View, rows
<1>15. ASSUME NEW j \in Jobs, NEW t \in Tickets, NEW a \in Accounts, NEW k \in Keys, Signup(j, t, a, k)
       PROVE TypeOK'
  BY <1>15, UseTyped DEF Signup, Commits
<1>16. ASSUME NEW j \in Jobs, NEW a \in Accounts, NEW k \in Keys, Recover(j, a, k) PROVE TypeOK'
  BY <1>16 DEF Recover, Commits, KeysOf
<1>17. ASSUME NEW j \in Jobs, NEW t \in Tickets, NEW k \in Keys, CompleteKeyAdd(j, t, k) PROVE TypeOK'
  <2>1. ticket[t].account \in Accounts
    BY <1>17 DEF CompleteKeyAdd, Authorized, TicketsTell
  <2> QED
    BY <1>17, <2>1, UseTyped DEF CompleteKeyAdd, Commits
<1>18. ASSUME NEW j \in Jobs, NEW t \in Tickets, NEW k \in Keys, CompleteKeyRevoke(j, t, k) PROVE TypeOK'
  <2>1. ticket[t].account \in Accounts
    BY <1>18 DEF CompleteKeyRevoke, Authorized, TicketsTell
  <2> QED
    BY <1>18, <2>1, UseTyped DEF CompleteKeyRevoke, Commits
<1>19. ASSUME NEW j \in Jobs, ReloadRead(j) \/ ReloadApply(j) \/ ReloadFails(j) PROVE TypeOK'
  <2>1. ActiveKeys \in SUBSET Keys /\ snapshot[j] \in SUBSET Keys
    BY DEF ActiveKeys
  <2>2. CASE ReloadRead(j)
    BY <2>1, <2>2 DEF ReloadRead, rows
  <2>3. CASE ReloadApply(j)
    BY <2>1, <2>3 DEF ReloadApply, rows
  <2>4. CASE ReloadFails(j)
    BY <2>4 DEF ReloadFails, rows
  <2> QED
    BY <1>19, <2>2, <2>3, <2>4
<1>20. ASSUME NEW a \in Accounts, NEW k \in Keys, AdminAddKey(a, k) \/ AdminRevokeKey(a, k) PROVE TypeOK'
  BY <1>20 DEF AdminAddKey, AdminRevokeKey, procs
<1>21. ASSUME NEW a \in Accounts, Suspend(a) \/ Resume(a) PROVE TypeOK'
  <2>1. CASE Suspend(a)
    BY <2>1 DEF Suspend, procs
  <2>2. CASE Resume(a)
    BY <2>2 DEF Resume, procs
  <2> QED
    BY <1>21, <2>1, <2>2
<1>22. ASSUME NEW k \in Keys, SshAuth(k) PROVE TypeOK'
  BY <1>22 DEF SshAuth, rows
<1>23. CASE SshEnds
  BY <1>23 DEF SshEnds, rows
<1>24. CASE Start \/ Stop
  <2>1. CASE Start
    BY <2>1 DEF Start, ActiveKeys, rows
  <2>2. CASE Stop
    BY <2>2 DEF Stop, rows
  <2> QED
    BY <1>24, <2>1, <2>2
<1>25. CASE UNCHANGED vars
  BY <1>25 DEF vars, rows, procs
<1> QED
  BY <1>1, <1>2, <1>3, <1>4, <1>5, <1>6, <1>7, <1>8, <1>9, <1>10, <1>11, <1>12, <1>13, <1>14,
     <1>15, <1>16, <1>17, <1>18, <1>19, <1>20, <1>21, <1>22, <1>23, <1>24, <1>25
     DEF Next, TicketStep, RequestStep, JobStep, AdminStep

\* Ending the sessions of an account leaves the others as they are.
LEMMA EndedFacts ==
  ASSUME TypeOK, NEW a
  PROVE  \A s \in Tickets :
           /\ Ended(a)[s].account = session[s].account
           /\ Ended(a)[s].state = "live" =>
                session[s].state = "live" /\ session[s].account # a /\ Ended(a)[s] = session[s]
  BY DEF TypeOK, SessionRow, Ended, EndedRow, Closed

\* Using a ticket up counts, and leaves the other tickets as they are.
LEMMA UseFacts ==
  ASSUME TypeOK, NEW t \in Tickets, Use(t)
  PROVE  /\ ticket'[t].state = "over"
         /\ uses'[t] = uses[t] + 1
         /\ \A x \in Tickets \ {t} : ticket'[x] = ticket[x] /\ uses'[x] = uses[x]
  BY DEF TypeOK, Use, Over, NoRow

\* After a commit a reload is due, and a reload under way counts as overtaken.
LEMMA CommitFacts ==
  ASSUME TypeOK, NEW j \in Jobs, Commits(j)
  PROVE  job'[j] # "idle" /\ (~disturbed' => \A i \in Jobs : job'[i] # "read")
  BY DEF TypeOK, Commits

\* A key that may be removed is not the only one.
LEMMA OtherKeyLeft ==
  ASSUME TypeOK, NEW a, NEW k, Removable(a, k)
  PROVE  \E x \in KeysOf(a) : x # k
<1> SUFFICES ASSUME \A x \in KeysOf(a) : x = k PROVE FALSE
  OBVIOUS
<1>1. KeysOf(a) = {k}
  BY DEF Removable
<1>2. Cardinality({k}) = 1
  BY FS_Singleton
<1> QED
  BY <1>1, <1>2 DEF Removable

\* Every step keeps the inductive invariant.
LEMMA NextInv == IndInv /\ [Next]_vars => IndInv'
<1> SUFFICES ASSUME IndInv, [Next]_vars PROVE IndInv'
  OBVIOUS
<1> DEFINE Rest == RowsTell /\ TicketsTell /\ OpenIsActive /\ RequestsTell /\ CacheTells /\ ReloadTells
                   /\ TicketsOnce /\ EveryAccountHasKey /\ RecoveryReplacesAll
<1>t. TypeOK'
  BY NextTyped
<1> SUFFICES Rest'
  BY <1>t DEF IndInv
<1> USE <1>t, NullAssumption DEF IndInv, TypeOK
<1>1. ASSUME NEW t \in Tickets, Invite(t) PROVE Rest'
  <2>1. TicketsTell'
    BY <1>1 DEF Invite, Issue, NoRow, TicketsTell, procs
  <2>2. RowsTell' /\ OpenIsActive' /\ RequestsTell' /\ CacheTells' /\ ReloadTells' /\ TicketsOnce' /\ EveryAccountHasKey' /\ RecoveryReplacesAll'
    BY <1>1 DEF Invite, Issue, procs, RowsTell, OpenIsActive, RequestsTell, CacheTells, ReloadTells, TicketsOnce, EveryAccountHasKey, RecoveryReplacesAll, NoToken, ActiveKeys, KeysOf
  <2> QED
    BY <2>1, <2>2
<1>2. ASSUME NEW t \in Tickets, NEW a \in Accounts, Challenge(t, a) PROVE Rest'
  <2>1. TicketsTell'
    BY <1>2 DEF Challenge, Issue, NoRow, TicketsTell, procs
  <2>2. RowsTell' /\ OpenIsActive' /\ RequestsTell' /\ CacheTells' /\ ReloadTells' /\ TicketsOnce' /\ EveryAccountHasKey' /\ RecoveryReplacesAll'
    BY <1>2 DEF Challenge, Issue, procs, RowsTell, OpenIsActive, RequestsTell, CacheTells, ReloadTells, TicketsOnce, EveryAccountHasKey, RecoveryReplacesAll, NoToken, ActiveKeys, KeysOf
  <2> QED
    BY <2>1, <2>2
<1>3. ASSUME NEW t \in Tickets, RequestLogin(t) PROVE Rest'
  <2>1. TicketsTell'
    BY <1>3 DEF RequestLogin, Issue, NoRow, TicketsTell, procs
  <2>2. RowsTell' /\ OpenIsActive' /\ RequestsTell' /\ CacheTells' /\ ReloadTells' /\ TicketsOnce' /\ EveryAccountHasKey' /\ RecoveryReplacesAll'
    BY <1>3 DEF RequestLogin, Issue, procs, RowsTell, OpenIsActive, RequestsTell, CacheTells, ReloadTells, TicketsOnce, EveryAccountHasKey, RecoveryReplacesAll, NoToken, ActiveKeys, KeysOf
  <2> QED
    BY <2>1, <2>2
<1>4. ASSUME NEW t \in Tickets, Expire(t) PROVE Rest'
  <2>1. TicketsTell'
    BY <1>4 DEF Expire, Over, NoRow, TicketsTell
  <2>2. RowsTell' /\ OpenIsActive' /\ RequestsTell' /\ CacheTells' /\ ReloadTells' /\ TicketsOnce' /\ EveryAccountHasKey' /\ RecoveryReplacesAll'
    BY <1>4 DEF Expire, procs, RowsTell, OpenIsActive, RequestsTell, CacheTells, ReloadTells, TicketsOnce, EveryAccountHasKey, RecoveryReplacesAll, NoToken, ActiveKeys, KeysOf
  <2> QED
    BY <2>1, <2>2
<1>5. ASSUME NEW t \in Tickets, SshApprove(t) PROVE Rest'
  <2>1. TicketsTell'
    <3>1. ticket'[t].state = "approved" /\ ticket'[t].account = owner[ssh] /\ ticket'[t].key = ssh
      BY <1>5 DEF SshApprove, TicketRow
    <3>2. \A x \in Tickets \ {t} : ticket'[x] = ticket[x]
      BY <1>5 DEF SshApprove
    <3>3. ssh \in Keys /\ owner[ssh] \in Accounts /\ ticket[t].state = "issued" /\ owner' = owner /\ uses' = uses
      BY <1>5 DEF SshApprove, ActiveKeys, RowsTell
    <3> QED
      BY <3>1, <3>2, <3>3 DEF TicketsTell
  <2>2. CacheTells'
    BY <1>5 DEF SshApprove, CacheTells
  <2>3. RowsTell' /\ OpenIsActive' /\ RequestsTell' /\ ReloadTells' /\ TicketsOnce' /\ EveryAccountHasKey' /\ RecoveryReplacesAll'
    BY <1>5 DEF SshApprove, RowsTell, OpenIsActive, RequestsTell, ReloadTells, TicketsOnce, EveryAccountHasKey, RecoveryReplacesAll, NoToken, ActiveKeys, KeysOf
  <2> QED
    BY <2>1, <2>2, <2>3
<1>6. ASSUME NEW t \in Tickets, CompleteLogin(t) PROVE Rest'
  <2>1. TicketsTell'
    BY SMTT(30), <1>6, UseFacts DEF CompleteLogin, OpenSession, procs, TicketsTell
  <2>2. OpenIsActive'
    BY <1>6 DEF CompleteLogin, OpenSession, OpenIsActive, TicketsTell, ActiveKeys
  <2>3. RequestsTell'
    BY <1>6 DEF CompleteLogin, OpenSession, RequestsTell, TicketsTell, ActiveKeys, procs
  <2>4. TicketsOnce'
    BY <1>6, UseFacts DEF CompleteLogin, OpenSession, TicketsOnce, TicketsTell
  <2>5. RecoveryReplacesAll'
    BY <1>6 DEF CompleteLogin, OpenSession, procs, RecoveryReplacesAll, KeysOf, NoToken
  <2>6. RowsTell' /\ CacheTells' /\ ReloadTells' /\ EveryAccountHasKey'
    BY <1>6 DEF CompleteLogin, OpenSession, procs, RowsTell, CacheTells, ReloadTells, EveryAccountHasKey, ActiveKeys, KeysOf
  <2> QED
    BY <2>1, <2>2, <2>3, <2>4, <2>5, <2>6
<1>7. ASSUME NEW t \in Tickets, NEW k \in Keys, VerifyChallenge(t, k) PROVE Rest'
  <2>1. TicketsTell'
    BY <1>7, UseFacts DEF VerifyChallenge, OpenSession, procs, TicketsTell
  <2>2. OpenIsActive'
    BY <1>7 DEF VerifyChallenge, OpenSession, OpenIsActive, RowsTell, ActiveKeys
  <2>3. RequestsTell'
    BY <1>7 DEF VerifyChallenge, OpenSession, RequestsTell, RowsTell, ActiveKeys, procs
  <2>4. TicketsOnce'
    BY <1>7, UseFacts DEF VerifyChallenge, OpenSession, TicketsOnce, TicketsTell
  <2>5. RecoveryReplacesAll'
    BY <1>7 DEF VerifyChallenge, OpenSession, procs, RecoveryReplacesAll, KeysOf, NoToken
  <2>6. RowsTell' /\ CacheTells' /\ ReloadTells' /\ EveryAccountHasKey'
    BY <1>7 DEF VerifyChallenge, OpenSession, procs, RowsTell, CacheTells, ReloadTells, EveryAccountHasKey, ActiveKeys, KeysOf
  <2> QED
    BY <2>1, <2>2, <2>3, <2>4, <2>5, <2>6
<1>8. ASSUME NEW t \in Tickets, SessionExpires(t) PROVE Rest'
  <2>1. OpenIsActive'
    BY <1>8 DEF SessionExpires, EndedRow, Closed, procs, OpenIsActive, NoToken
  <2>2. RequestsTell'
    BY <1>8 DEF SessionExpires, EndedRow, Closed, procs, RequestsTell
  <2>3. RecoveryReplacesAll'
    BY <1>8 DEF SessionExpires, EndedRow, Closed, procs, RecoveryReplacesAll, KeysOf, NoToken
  <2>4. RowsTell' /\ TicketsTell' /\ CacheTells' /\ ReloadTells' /\ TicketsOnce' /\ EveryAccountHasKey'
    BY <1>8 DEF SessionExpires, EndedRow, Closed, procs, RowsTell, TicketsTell, CacheTells, ReloadTells, TicketsOnce, EveryAccountHasKey, ActiveKeys, KeysOf
  <2> QED
    BY <2>1, <2>2, <2>3, <2>4
<1>9. ASSUME NEW r \in Requests, NEW s \in Tickets, RequestAuthenticated(r, s) PROVE Rest'
  <2>1. RequestsTell'
    BY <1>9 DEF RequestAuthenticated, RequestsTell, OpenIsActive, rows
  <2>2. RowsTell' /\ TicketsTell' /\ OpenIsActive' /\ CacheTells' /\ ReloadTells' /\ TicketsOnce' /\ EveryAccountHasKey' /\ RecoveryReplacesAll'
    BY <1>9 DEF RequestAuthenticated, rows, RowsTell, TicketsTell, OpenIsActive, CacheTells, ReloadTells, TicketsOnce, EveryAccountHasKey, RecoveryReplacesAll, NoToken, ActiveKeys, KeysOf
  <2> QED
    BY <2>1, <2>2
<1>10. ASSUME NEW r \in Requests, RequestFails(r) PROVE Rest'
  <2>1. RequestsTell'
    BY <1>10 DEF RequestFails, RequestDone, rows, RequestsTell
  <2>2. RowsTell' /\ TicketsTell' /\ OpenIsActive' /\ CacheTells' /\ ReloadTells' /\ TicketsOnce' /\ EveryAccountHasKey' /\ RecoveryReplacesAll'
    BY <1>10 DEF RequestFails, RequestDone, rows, RowsTell, TicketsTell, OpenIsActive, CacheTells, ReloadTells, TicketsOnce, EveryAccountHasKey, RecoveryReplacesAll, NoToken, ActiveKeys, KeysOf
  <2> QED
    BY <2>1, <2>2
<1>11. ASSUME NEW r \in Requests, NEW t \in Tickets, BeginKeyChange(r, t) PROVE Rest'
  <2>1. TicketsTell'
    BY <1>11 DEF BeginKeyChange, RequestDone, Issue, NoRow, TicketsTell
  <2>2. RequestsTell'
    BY <1>11 DEF BeginKeyChange, RequestDone, Issue, RequestsTell
  <2>3. RowsTell' /\ OpenIsActive' /\ CacheTells' /\ ReloadTells' /\ TicketsOnce' /\ EveryAccountHasKey' /\ RecoveryReplacesAll'
    BY <1>11 DEF BeginKeyChange, RequestDone, Issue, RowsTell, OpenIsActive, CacheTells, ReloadTells, TicketsOnce, EveryAccountHasKey, RecoveryReplacesAll, NoToken, ActiveKeys, KeysOf
  <2> QED
    BY <2>1, <2>2, <2>3
<1>12. ASSUME NEW r \in Requests, IssueToken(r) PROVE Rest'
  <2>1. OpenIsActive'
    BY <1>12 DEF IssueToken, RequestDone, OpenIsActive, NoToken
  <2>2. RequestsTell'
    BY <1>12 DEF IssueToken, RequestDone, RequestsTell
  <2>3. RecoveryReplacesAll'
    BY <1>12 DEF IssueToken, RequestDone, RecoveryReplacesAll, KeysOf, NoToken
  <2>4. RowsTell' /\ TicketsTell' /\ CacheTells' /\ ReloadTells' /\ TicketsOnce' /\ EveryAccountHasKey'
    BY <1>12 DEF IssueToken, RequestDone, RowsTell, TicketsTell, CacheTells, ReloadTells, TicketsOnce, EveryAccountHasKey, ActiveKeys, KeysOf
  <2> QED
    BY <2>1, <2>2, <2>3, <2>4
<1>13. ASSUME NEW r \in Requests, RotateToken(r) PROVE Rest'
  <2>1. OpenIsActive'
    BY <1>13 DEF RotateToken, RequestDone, OpenIsActive, NoToken
  <2>2. RequestsTell'
    BY <1>13 DEF RotateToken, RequestDone, RequestsTell
  <2>3. RecoveryReplacesAll'
    BY <1>13 DEF RotateToken, RequestDone, RecoveryReplacesAll, KeysOf, NoToken
  <2>4. RowsTell' /\ TicketsTell' /\ CacheTells' /\ ReloadTells' /\ TicketsOnce' /\ EveryAccountHasKey'
    BY <1>13 DEF RotateToken, RequestDone, RowsTell, TicketsTell, CacheTells, ReloadTells, TicketsOnce, EveryAccountHasKey, ActiveKeys, KeysOf
  <2> QED
    BY <2>1, <2>2, <2>3, <2>4
<1>14. ASSUME NEW r \in Requests, RevokeToken(r) PROVE Rest'
  <2>1. OpenIsActive'
    BY <1>14 DEF RevokeToken, RequestDone, OpenIsActive, NoToken
  <2>2. RequestsTell'
    BY <1>14 DEF RevokeToken, RequestDone, RequestsTell
  <2>3. RecoveryReplacesAll'
    BY <1>14 DEF RevokeToken, RequestDone, RecoveryReplacesAll, KeysOf, NoToken
  <2>4. RowsTell' /\ TicketsTell' /\ CacheTells' /\ ReloadTells' /\ TicketsOnce' /\ EveryAccountHasKey'
    BY <1>14 DEF RevokeToken, RequestDone, RowsTell, TicketsTell, CacheTells, ReloadTells, TicketsOnce, EveryAccountHasKey, ActiveKeys, KeysOf
  <2> QED
    BY <2>1, <2>2, <2>3, <2>4
<1>15. ASSUME NEW r \in Requests, Logout(r) PROVE Rest'
  <2>1. OpenIsActive'
    BY <1>15, EndedFacts DEF Logout, RequestDone, OpenIsActive, NoToken
  <2>2. RequestsTell'
    BY <1>15, EndedFacts DEF Logout, RequestDone, RequestsTell
  <2>3. RecoveryReplacesAll'
    BY <1>15, EndedFacts DEF Logout, RequestDone, RecoveryReplacesAll, KeysOf, NoToken
  <2>4. RowsTell' /\ TicketsTell' /\ CacheTells' /\ ReloadTells' /\ TicketsOnce' /\ EveryAccountHasKey'
    BY <1>15 DEF Logout, RequestDone, RowsTell, TicketsTell, CacheTells, ReloadTells, TicketsOnce, EveryAccountHasKey, ActiveKeys, KeysOf
  <2> QED
    BY <2>1, <2>2, <2>3, <2>4
<1>16. ASSUME NEW j \in Jobs, View(j) PROVE Rest'
  <2>1. CacheTells'
    BY <1>16 DEF View, rows, CacheTells
  <2>2. ReloadTells'
    BY <1>16 DEF View, rows, ReloadTells, ActiveKeys
  <2>3. RowsTell' /\ TicketsTell' /\ OpenIsActive' /\ RequestsTell' /\ TicketsOnce' /\ EveryAccountHasKey' /\ RecoveryReplacesAll'
    BY <1>16 DEF View, rows, RowsTell, TicketsTell, OpenIsActive, RequestsTell, TicketsOnce, EveryAccountHasKey, RecoveryReplacesAll, NoToken, KeysOf
  <2> QED
    BY <2>1, <2>2, <2>3
<1>17. ASSUME NEW j \in Jobs, NEW t \in Tickets, NEW a \in Accounts, NEW k \in Keys, Signup(j, t, a, k) PROVE Rest'
  <2>1. RowsTell'
    BY <1>17 DEF Signup, Commits, RowsTell
  <2>2. TicketsTell'
    BY <1>17, UseFacts DEF Signup, Commits, TicketsTell
  <2>3. OpenIsActive'
    BY <1>17 DEF Signup, Commits, OpenIsActive, NoToken
  <2>4. CacheTells'
    BY <1>17 DEF Signup, Commits, CacheTells
  <2>5. ReloadTells'
    BY <1>17, CommitFacts DEF Signup, ReloadTells
  <2>6. TicketsOnce'
    BY <1>17, UseFacts DEF Signup, TicketsOnce, TicketsTell
  <2>7. EveryAccountHasKey'
    BY <1>17 DEF Signup, Commits, EveryAccountHasKey, KeysOf
  <2>8. RecoveryReplacesAll'
    BY <1>17 DEF Signup, RecoveryReplacesAll, RowsTell, KeysOf, NoToken
  <2>9. RequestsTell'
    BY <1>17 DEF Signup, Commits, RequestsTell
  <2> QED
    BY <2>1, <2>2, <2>3, <2>4, <2>5, <2>6, <2>7, <2>8, <2>9
<1>18. ASSUME NEW j \in Jobs, NEW a \in Accounts, NEW k \in Keys, Recover(j, a, k) PROVE Rest'
  <2>1. RowsTell'
    BY <1>18 DEF Recover, Commits, RowsTell
  <2>2. TicketsTell'
    BY <1>18 DEF Recover, Commits, TicketsTell
  <2>3. OpenIsActive'
    BY <1>18, EndedFacts DEF Recover, Commits, OpenIsActive, NoToken
  <2>4. RequestsTell'
    BY <1>18, EndedFacts DEF Recover, Commits, RequestsTell
  <2>5. CacheTells'
    BY <1>18 DEF Recover, Commits, CacheTells
  <2>6. ReloadTells'
    BY <1>18, CommitFacts DEF Recover, ReloadTells
  <2>7. EveryAccountHasKey'
    BY <1>18 DEF Recover, Commits, EveryAccountHasKey, KeysOf
  <2>8. RecoveryReplacesAll'
    BY <1>18, EndedFacts DEF Recover, Commits, RecoveryReplacesAll, KeysOf, NoToken
  <2>9. TicketsOnce'
    BY <1>18 DEF Recover, Commits, TicketsOnce
  <2> QED
    BY <2>1, <2>2, <2>3, <2>4, <2>5, <2>6, <2>7, <2>8, <2>9
<1>19. ASSUME NEW j \in Jobs, NEW t \in Tickets, NEW k \in Keys, CompleteKeyAdd(j, t, k) PROVE Rest'
  <2>1. RowsTell'
    BY <1>19 DEF CompleteKeyAdd, Authorized, RowsTell, TicketsTell
  <2>2. TicketsTell'
    BY <1>19, UseFacts DEF CompleteKeyAdd, Commits, TicketsTell
  <2>3. CacheTells'
    BY <1>19 DEF CompleteKeyAdd, Commits, CacheTells
  <2>4. ReloadTells'
    BY <1>19, CommitFacts DEF CompleteKeyAdd, ReloadTells
  <2>5. TicketsOnce'
    BY <1>19, UseFacts DEF CompleteKeyAdd, TicketsOnce, TicketsTell, Authorized
  <2>6. EveryAccountHasKey'
    BY <1>19 DEF CompleteKeyAdd, Commits, EveryAccountHasKey, KeysOf
  <2>7. RecoveryReplacesAll'
    BY <1>19 DEF CompleteKeyAdd, Commits, RecoveryReplacesAll, KeysOf, NoToken
  <2>8. OpenIsActive' /\ RequestsTell'
    BY <1>19 DEF CompleteKeyAdd, Commits, OpenIsActive, RequestsTell, NoToken
  <2> QED
    BY <2>1, <2>2, <2>3, <2>4, <2>5, <2>6, <2>7, <2>8
<1>20. ASSUME NEW j \in Jobs, NEW t \in Tickets, NEW k \in Keys, CompleteKeyRevoke(j, t, k) PROVE Rest'
  <2>1. RowsTell'
    BY <1>20 DEF CompleteKeyRevoke, Commits, RowsTell
  <2>2. TicketsTell'
    BY <1>20, UseFacts DEF CompleteKeyRevoke, Commits, TicketsTell
  <2>3. OpenIsActive'
    BY <1>20, EndedFacts DEF CompleteKeyRevoke, Commits, OpenIsActive, NoToken
  <2>4. RequestsTell'
    BY <1>20, EndedFacts DEF CompleteKeyRevoke, Commits, RequestsTell
  <2>5. CacheTells'
    BY <1>20 DEF CompleteKeyRevoke, Commits, CacheTells
  <2>6. ReloadTells'
    BY ZenonT(40), <1>20 DEF CompleteKeyRevoke, Commits, ReloadTells, ActiveKeys
  <2>7. TicketsOnce'
    BY <1>20, UseFacts DEF CompleteKeyRevoke, TicketsOnce, TicketsTell, Authorized
  <2>8. EveryAccountHasKey'
    <3>1. Removable(ticket[t].account, k) /\ live' = live \ {k} /\ UNCHANGED <<account, owner>>
      BY <1>20 DEF CompleteKeyRevoke
    <3>2. \A b \in Accounts : account[b] # "none" => \E x \in KeysOf(b) : x # k
      BY <3>1, OtherKeyLeft DEF EveryAccountHasKey, Removable, KeysOf
    <3> QED
      BY <3>1, <3>2 DEF EveryAccountHasKey, KeysOf
  <2>9. RecoveryReplacesAll'
    BY <1>20, EndedFacts DEF CompleteKeyRevoke, Commits, RecoveryReplacesAll, KeysOf, NoToken
  <2> QED
    BY <2>1, <2>2, <2>3, <2>4, <2>5, <2>6, <2>7, <2>8, <2>9
<1>21. ASSUME NEW j \in Jobs, ReloadRead(j) PROVE Rest'
  <2>1. CacheTells'
    BY <1>21 DEF ReloadRead, CacheTells, ActiveKeys, RowsTell, rows
  <2>2. ReloadTells'
    BY <1>21 DEF ReloadRead, rows, ReloadTells, ActiveKeys
  <2>3. RowsTell' /\ TicketsTell' /\ OpenIsActive' /\ RequestsTell' /\ TicketsOnce' /\ EveryAccountHasKey' /\ RecoveryReplacesAll'
    BY <1>21 DEF ReloadRead, rows, RowsTell, TicketsTell, OpenIsActive, RequestsTell, TicketsOnce, EveryAccountHasKey, RecoveryReplacesAll, NoToken, KeysOf
  <2> QED
    BY <2>1, <2>2, <2>3
<1>22. ASSUME NEW j \in Jobs, ReloadApply(j) PROVE Rest'
  <2>1. CacheTells'
    BY <1>22 DEF ReloadApply, rows, CacheTells
  <2>2. ReloadTells'
    BY <1>22 DEF ReloadApply, rows, ReloadTells, ActiveKeys
  <2>3. RowsTell' /\ TicketsTell' /\ OpenIsActive' /\ RequestsTell' /\ TicketsOnce' /\ EveryAccountHasKey' /\ RecoveryReplacesAll'
    BY <1>22 DEF ReloadApply, rows, RowsTell, TicketsTell, OpenIsActive, RequestsTell, TicketsOnce, EveryAccountHasKey, RecoveryReplacesAll, NoToken, KeysOf
  <2> QED
    BY <2>1, <2>2, <2>3
<1>23. ASSUME NEW j \in Jobs, ReloadFails(j) PROVE Rest'
  <2>1. CacheTells'
    BY <1>23 DEF ReloadFails, rows, CacheTells
  <2>2. ReloadTells'
    BY <1>23 DEF ReloadFails, rows, ReloadTells, ActiveKeys
  <2>3. RowsTell' /\ TicketsTell' /\ OpenIsActive' /\ RequestsTell' /\ TicketsOnce' /\ EveryAccountHasKey' /\ RecoveryReplacesAll'
    BY <1>23 DEF ReloadFails, rows, RowsTell, TicketsTell, OpenIsActive, RequestsTell, TicketsOnce, EveryAccountHasKey, RecoveryReplacesAll, NoToken, KeysOf
  <2> QED
    BY <2>1, <2>2, <2>3
<1>24. ASSUME NEW a \in Accounts, NEW k \in Keys, AdminAddKey(a, k) PROVE Rest'
  <2>1. RowsTell'
    BY <1>24 DEF AdminAddKey, procs, RowsTell
  <2>2. TicketsTell'
    BY <1>24 DEF AdminAddKey, procs, TicketsTell
  <2>3. OpenIsActive'
    BY <1>24, EndedFacts DEF AdminAddKey, procs, OpenIsActive, NoToken
  <2>4. RequestsTell'
    BY <1>24, EndedFacts DEF AdminAddKey, procs, RequestsTell
  <2>5. CacheTells'
    BY <1>24 DEF AdminAddKey, procs, CacheTells
  <2>6. ReloadTells'
    BY <1>24 DEF AdminAddKey, procs, ReloadTells, ActiveKeys
  <2>7. EveryAccountHasKey'
    BY <1>24 DEF AdminAddKey, procs, EveryAccountHasKey, KeysOf
  <2>8. RecoveryReplacesAll'
    BY <1>24, EndedFacts DEF AdminAddKey, procs, RecoveryReplacesAll, KeysOf, NoToken
  <2>9. TicketsOnce'
    BY <1>24 DEF AdminAddKey, procs, TicketsOnce
  <2> QED
    BY <2>1, <2>2, <2>3, <2>4, <2>5, <2>6, <2>7, <2>8, <2>9
<1>25. ASSUME NEW a \in Accounts, NEW k \in Keys, AdminRevokeKey(a, k) PROVE Rest'
  <2>1. RowsTell'
    BY <1>25 DEF AdminRevokeKey, procs, RowsTell
  <2>2. OpenIsActive'
    BY <1>25, EndedFacts DEF AdminRevokeKey, procs, OpenIsActive, NoToken
  <2>3. RequestsTell'
    BY <1>25, EndedFacts DEF AdminRevokeKey, procs, RequestsTell
  <2>4. ReloadTells'
    BY <1>25 DEF AdminRevokeKey, procs, ReloadTells, ActiveKeys
  <2>5. EveryAccountHasKey'
    <3>1. Removable(a, k) /\ live' = live \ {k} /\ UNCHANGED <<account, owner>>
      BY <1>25 DEF AdminRevokeKey
    <3>2. \A b \in Accounts : account[b] # "none" => \E x \in KeysOf(b) : x # k
      BY <3>1, OtherKeyLeft DEF EveryAccountHasKey, Removable, KeysOf
    <3> QED
      BY <3>1, <3>2 DEF EveryAccountHasKey, KeysOf
  <2>6. RecoveryReplacesAll'
    BY <1>25, EndedFacts DEF AdminRevokeKey, procs, RecoveryReplacesAll, KeysOf, NoToken
  <2>7. TicketsTell' /\ CacheTells' /\ TicketsOnce'
    BY <1>25 DEF AdminRevokeKey, procs, TicketsTell, CacheTells, TicketsOnce
  <2> QED
    BY <2>1, <2>2, <2>3, <2>4, <2>5, <2>6, <2>7
<1>26. ASSUME NEW a \in Accounts, Suspend(a) PROVE Rest'
  <2>1. RowsTell'
    BY <1>26 DEF Suspend, procs, RowsTell
  <2>2. OpenIsActive'
    BY <1>26, EndedFacts DEF Suspend, procs, OpenIsActive, NoToken
  <2>3. RequestsTell'
    BY <1>26, EndedFacts DEF Suspend, procs, RequestsTell
  <2>4. CacheTells'
    BY <1>26 DEF Suspend, procs, CacheTells
  <2>5. ReloadTells'
    BY <1>26 DEF Suspend, procs, ReloadTells, ActiveKeys
  <2>6. EveryAccountHasKey'
    BY <1>26 DEF Suspend, procs, EveryAccountHasKey, KeysOf
  <2>7. RecoveryReplacesAll'
    BY <1>26, EndedFacts DEF Suspend, procs, RecoveryReplacesAll, KeysOf, NoToken
  <2>8. TicketsTell' /\ TicketsOnce'
    BY <1>26 DEF Suspend, procs, TicketsTell, TicketsOnce
  <2> QED
    BY <2>1, <2>2, <2>3, <2>4, <2>5, <2>6, <2>7, <2>8
<1>27. ASSUME NEW a \in Accounts, Resume(a) PROVE Rest'
  <2>1. RowsTell'
    BY <1>27 DEF Resume, procs, RowsTell
  <2>2. OpenIsActive'
    BY <1>27, EndedFacts DEF Resume, procs, OpenIsActive, NoToken
  <2>3. RequestsTell'
    BY <1>27, EndedFacts DEF Resume, procs, RequestsTell
  <2>4. CacheTells'
    BY <1>27 DEF Resume, procs, CacheTells
  <2>5. ReloadTells'
    BY <1>27 DEF Resume, procs, ReloadTells, ActiveKeys
  <2>6. EveryAccountHasKey'
    BY <1>27 DEF Resume, procs, EveryAccountHasKey, KeysOf
  <2>7. RecoveryReplacesAll'
    BY <1>27, EndedFacts DEF Resume, procs, RecoveryReplacesAll, KeysOf, NoToken
  <2>8. TicketsTell' /\ TicketsOnce'
    BY <1>27 DEF Resume, procs, TicketsTell, TicketsOnce
  <2> QED
    BY <2>1, <2>2, <2>3, <2>4, <2>5, <2>6, <2>7, <2>8
<1>28. ASSUME NEW k \in Keys, SshAuth(k) PROVE Rest'
  <2>1. CacheTells'
    BY <1>28 DEF SshAuth, rows, CacheTells
  <2>2. RowsTell' /\ TicketsTell' /\ OpenIsActive' /\ RequestsTell' /\ ReloadTells' /\ TicketsOnce' /\ EveryAccountHasKey' /\ RecoveryReplacesAll'
    BY <1>28 DEF SshAuth, rows, RowsTell, TicketsTell, OpenIsActive, RequestsTell, ReloadTells, TicketsOnce, EveryAccountHasKey, RecoveryReplacesAll, NoToken, ActiveKeys, KeysOf
  <2> QED
    BY <2>1, <2>2
<1>29. CASE SshEnds
  <2>1. CacheTells'
    BY <1>29 DEF SshEnds, rows, CacheTells
  <2>2. RowsTell' /\ TicketsTell' /\ OpenIsActive' /\ RequestsTell' /\ ReloadTells' /\ TicketsOnce' /\ EveryAccountHasKey' /\ RecoveryReplacesAll'
    BY <1>29 DEF SshEnds, rows, RowsTell, TicketsTell, OpenIsActive, RequestsTell, ReloadTells, TicketsOnce, EveryAccountHasKey, RecoveryReplacesAll, NoToken, ActiveKeys, KeysOf
  <2> QED
    BY <2>1, <2>2
<1>30. CASE Start
  <2>1. CacheTells'
    BY <1>30 DEF Start, CacheTells, ActiveKeys, RowsTell, rows
  <2>2. ReloadTells'
    BY <1>30 DEF Start, CacheTells, ReloadTells, ActiveKeys, rows
  <2>3. RowsTell' /\ TicketsTell' /\ OpenIsActive' /\ RequestsTell' /\ TicketsOnce' /\ EveryAccountHasKey' /\ RecoveryReplacesAll'
    BY <1>30 DEF Start, rows, RowsTell, TicketsTell, OpenIsActive, RequestsTell, TicketsOnce, EveryAccountHasKey, RecoveryReplacesAll, NoToken, KeysOf
  <2> QED
    BY <2>1, <2>2, <2>3
<1>31. CASE Stop
  <2>1. RequestsTell'
    BY <1>31 DEF Stop, rows, RequestsTell
  <2>2. CacheTells'
    BY <1>31 DEF Stop, rows, CacheTells
  <2>3. ReloadTells'
    BY <1>31 DEF Stop, rows, ReloadTells, ActiveKeys
  <2>4. RowsTell' /\ TicketsTell' /\ OpenIsActive' /\ TicketsOnce' /\ EveryAccountHasKey' /\ RecoveryReplacesAll'
    BY <1>31 DEF Stop, rows, RowsTell, TicketsTell, OpenIsActive, TicketsOnce, EveryAccountHasKey, RecoveryReplacesAll, NoToken, KeysOf
  <2> QED
    BY <2>1, <2>2, <2>3, <2>4
<1>32. CASE UNCHANGED vars
  BY <1>32 DEF vars, rows, procs, RowsTell, TicketsTell, OpenIsActive, RequestsTell, CacheTells, ReloadTells, TicketsOnce, EveryAccountHasKey, RecoveryReplacesAll, KeysOf, ActiveKeys, NoToken
<1> QED
  BY <1>1, <1>2, <1>3, <1>4, <1>5, <1>6, <1>7, <1>8, <1>9, <1>10, <1>11, <1>12, <1>13, <1>14, <1>15, <1>16, <1>17, <1>18, <1>19, <1>20, <1>21, <1>22, <1>23, <1>24, <1>25, <1>26, <1>27, <1>28, <1>29, <1>30, <1>31, <1>32
     DEF Next, TicketStep, RequestStep, JobStep, AdminStep

\* The inductive invariant holds in every reachable state.
LEMMA Inductive == Spec => []IndInv
  BY InitInv, NextInv, PTL DEF Spec

\* No invitation, challenge or approval is ever accepted twice.
THEOREM UsedOnce == Spec => []TicketsOnce
<1>1. IndInv => TicketsOnce
  BY DEF IndInv
<1> QED
  BY <1>1, Inductive, PTL

\* No sequence of revocations and recoveries leaves an account without a key.
THEOREM KeyKept == Spec => []EveryAccountHasKey
<1>1. IndInv => EveryAccountHasKey
  BY DEF IndInv
<1> QED
  BY <1>1, Inductive, PTL

\* A suspended account has no session, no token and no key in the SSH cache.
THEOREM LockedOut == Spec => []SuspendedIsLockedOut
<1>1. IndInv => SuspendedIsLockedOut
  BY DEF IndInv, TypeOK, OpenIsActive, CacheTells, SuspendedIsLockedOut
<1> QED
  BY <1>1, Inductive, PTL

\* Nothing that was active before a recovery is active after it.
THEOREM RecoveryComplete == Spec => []RecoveryReplacesAll
<1>1. IndInv => RecoveryReplacesAll
  BY DEF IndInv
<1> QED
  BY <1>1, Inductive, PTL

\* Unless a reload fails or is overtaken, the SSH server accepts exactly the
\* active keys whenever no account job is running.
THEOREM CacheCurrent == Spec => []CacheFollowsStore
<1>1. IndInv => CacheFollowsStore
  BY DEF IndInv, ReloadTells, CacheFollowsStore, Quiet
<1> QED
  BY <1>1, Inductive, PTL

\* While the server runs, keys change only by signing up, by recovery or by an
\* approval of the same account that is used up.
THEOREM ChangesApproved == Spec => KeysChangeByApproval
<1>1. ASSUME IndInv, [Next]_vars PROVE [ApprovedChange]_vars
  <2> USE <1>1 DEF IndInv, TypeOK
  <2>1. ASSUME NEW j \in Jobs, NEW t \in Tickets, NEW a \in Accounts, NEW k \in Keys, Signup(j, t, a, k)
        PROVE ApprovedChange
    BY <2>1 DEF Signup, ApprovedChange
  <2>2. ASSUME NEW j \in Jobs, NEW a \in Accounts, NEW k \in Keys, Recover(j, a, k)
        PROVE ApprovedChange
    BY <2>2 DEF Recover, KeysOf, ApprovedChange
  <2>3. ASSUME NEW j \in Jobs, NEW t \in Tickets, NEW k \in Keys,
               CompleteKeyAdd(j, t, k) \/ CompleteKeyRevoke(j, t, k)
        PROVE ApprovedChange
    <3>1. Authorized(t) /\ Use(t)
      BY <2>3 DEF CompleteKeyAdd, CompleteKeyRevoke
    <3>2. ticket[t].kind = "account-key" /\ ticket[t].key \in ActiveKeys /\ uses'[t] > uses[t]
      BY <3>1, UseFacts DEF Authorized, TicketsTell, ActiveKeys
    <3>3. \A x \in Keys : (x \in live) # (x \in live') => owner'[x] = ticket[t].account
      BY <2>3 DEF CompleteKeyAdd, CompleteKeyRevoke, Removable, KeysOf
    <3> QED
      BY <3>2, <3>3 DEF ApprovedChange
  <2>4. CASE phase = "down" \/ UNCHANGED live
    BY <2>4 DEF ApprovedChange
  <2>5. ASSUME NEW t \in Tickets, TicketStep(t) PROVE UNCHANGED live
    BY <2>5 DEF TicketStep, Invite, Challenge, RequestLogin, Expire, SshApprove, CompleteLogin,
                VerifyChallenge, SessionExpires, Issue, OpenSession
  <2>6. ASSUME NEW r \in Requests, RequestStep(r) PROVE UNCHANGED live
    BY <2>6 DEF RequestStep, RequestAuthenticated, RequestFails, BeginKeyChange, IssueToken,
                RotateToken, RevokeToken, Logout, Issue, rows
  <2>7. ASSUME NEW j \in Jobs, View(j) \/ ReloadRead(j) \/ ReloadApply(j) \/ ReloadFails(j)
        PROVE UNCHANGED live
    BY <2>7 DEF View, ReloadRead, ReloadApply, ReloadFails, rows
  <2>8. ASSUME NEW a \in Accounts, AdminStep(a) PROVE phase = "down"
    BY <2>8 DEF AdminStep, AdminAddKey, AdminRevokeKey, Suspend, Resume
  <2>9. ASSUME NEW k \in Keys, SshAuth(k) PROVE UNCHANGED live
    BY <2>9 DEF SshAuth, rows
  <2>10. ASSUME SshEnds \/ Start \/ Stop \/ UNCHANGED vars PROVE UNCHANGED live
    BY <2>10 DEF SshEnds, Start, Stop, rows, vars
  <2> QED
    BY <2>1, <2>2, <2>3, <2>4, <2>5, <2>6, <2>7, <2>8, <2>9, <2>10 DEF Next, JobStep
<1> QED
  BY <1>1, Inductive, PTL DEF Spec, KeysChangeByApproval
=============================================================================
