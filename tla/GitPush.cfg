SPECIFICATION FairSpec
CONSTANTS
  p1 = p1
  p2 = p2
  Pushes = {p1, p2}
  Merges = {}
  PullRequests = {}
  Refs <- TwoRefs
  Default = "main"
  Oids <- SmallOids
  Ancestry <- SmallAncestry
  MergeCommits <- NoMerges
  Packs <- OnePack
  InitRefs <- MainOnly
  NoOid = NoOid
  NoPr = NoPr
  MaxCommands = 2
  MaxRevisions = 2
  MaxStops = 1
INVARIANTS
  RefsHaveObjects
  EventsAreReal
PROPERTIES
  IntentsSettle
CHECK_DEADLOCK FALSE
