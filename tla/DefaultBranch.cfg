SPECIFICATION FairSpec
CONSTANTS
  main = main
  dev = dev
  side = side
  c1 = c1
  c2 = c2
  c3 = c3
  p1 = p1
  Main = main
  NoChange = NoChange
  Branches <- MCBranches
  Existing <- MCExisting
  Changes <- MCChanges
  Pushes <- MCPushes
  MaxStops = 2
INVARIANTS
  HeadIsExplained
  AuditIsReal
PROPERTY
  RestartSettles
CHECK_DEADLOCK FALSE
