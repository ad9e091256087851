SPECIFICATION Spec
CONSTANTS
  m1 = m1
  p1 = p1
  q1 = q1
  Pushes = {p1}
  Merges = {m1}
  PullRequests = {q1}
  Refs <- TwoRefs
  Default = "main"
  Oids <- SmallOids
  Ancestry <- SmallAncestry
  MergeCommits <- NoMerges
  Packs <- OnePack
  InitRefs <- TopicAhead
  NoOid = NoOid
  NoPr = NoPr
  MaxCommands = 1
  MaxRevisions = 2
  MaxStops = 0
INVARIANTS
  AppliedIsRecorded
CHECK_DEADLOCK FALSE
