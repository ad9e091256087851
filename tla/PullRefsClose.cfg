SPECIFICATION Spec
CONSTANTS
  r1 = r1
  r2 = r2
  r3 = r3
  a = a
  b = b
  NoOid = NoOid
  Requests <- MCTwoRequests
  Kinds <- MCRefKinds
  MaxNumber = 1
  Oids <- MCOids
  MaxStateChanges = 1
  MaxMoves = 1
  MaxMergeErrors = 0
  MaxStops = 1
INVARIANT
  StartupNotRefused
CHECK_DEADLOCK FALSE
