SPECIFICATION Spec
CONSTANTS
  NoAccount = NoAccount
  NoKey = NoKey
  NoTicket = NoTicket
  Accounts = {alice, bob}
  First = alice
  Keys = {k1, k2, k3}
  FirstKeys = {k1, k2}
  FirstKey = k1
  FirstLogin = t1
  Tickets = {t1, t2, t3}
  Jobs = {j1, j2}
  Requests = {r1}
  PendingLimit = 2
  MaxRecoveries <- MCRecoveries
  MaxStops = 1
  StoreMayFail = TRUE
SYMMETRY Symmetric
INVARIANTS
  TicketsOnce
  EveryAccountHasKey
  SuspendedIsLockedOut
  RecoveryReplacesAll
  CacheFollowsStore
PROPERTIES
  KeysChangeByApproval
CHECK_DEADLOCK FALSE
