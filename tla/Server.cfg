SPECIFICATION FairSpec
CONSTANTS
  s1 = s1
  s2 = s2
  p1 = p1
  p2 = p2
  o1 = o1
  b1 = b1
  b2 = b2
  NoServer = NoServer
  Servers <- MCTwoServers
  Faulty <- MCOneFaulty
  Pushes <- MCPushes
  WebOps <- MCOneWebOp
  Backups <- MCBackups
INVARIANTS
  SocketIsServers
  CopyExcludesWork
PROPERTIES
  ServesUnlessLeft
  BackupEnds
CHECK_DEADLOCK FALSE
