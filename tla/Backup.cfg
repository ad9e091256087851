SPECIFICATION Spec
CONSTANTS
  Repos = {1}
  Nothing = Nothing
  Partial = Partial
  MaxPushes = 1
  MaxNotes = 1
  MaxBackups = 1
  MaxFaults = 2
INVARIANTS
  DatabaseIsLast
  UpgradeKeepsOld
PROPERTIES
  CopyIsAtomic
  SuccessRestores
CHECK_DEADLOCK FALSE
