SPECIFICATION FairSpec
CONSTANTS
  r1 = r1
  r2 = r2
  r3 = r3
  a = a
  b = b
  NoOid = NoOid
  Requests <- MCThreeRequests
  Kinds <- MCAllKinds
  MaxNumber = 1
  Oids <- MCOids
  MaxStateChanges = 1
  MaxMoves = 1
  MaxMergeErrors = 1
  MaxStops = 1
INVARIANTS
  HeadRefMatches
  RevisionsTell
  OnePending
PROPERTIES
  MergedIsFinal
  IntentsSettle
CHECK_DEADLOCK FALSE
