SPECIFICATION FairSpec
CONSTANTS
  c1 = c1  c2 = c2  a1 = a1  a2 = a2  k1 = k1
  alice = alice  r1 = r1  n1 = n1  n2 = n2
  Nobody = Nobody
  Clients = {a1, a2}
  Maximum = 1  Window = 1  MaxKeys = 1
  Conns = {c1, c2}
  Chans <- MCChans
  ClientOf <- MCClientOf
  Keys = {k1}
  Users = {alice}
  Repos = {r1}
  Names = {n1, n2}
  StartIdentity <- MCIdentity
  StartNames <- MCNames
  StartRole <- MCRole
  StartStore <- MCStore
  Local <- MCLocal
  Asks <- MCAsks
  AskedProtocols = {"v2"}
  NewRoles = {"none"}
  MaxConnections = 1  MaxPerConnection = 2  MaxGlobal = 2
  MaxCommit = 3
  MaxTime = 1  MaxTries = 2  MaxOpens = 2  MaxChanges = 1  MaxBackups = 1
INVARIANTS
  ChangesAreAuthorized
  FetchIsClosed
  RefusedOnlyWhenFull
PROPERTIES
  BackupStarts
CHECK_DEADLOCK FALSE
