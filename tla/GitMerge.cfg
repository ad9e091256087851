SPECIFICATION Spec
CONSTANTS
  m1 = m1
  m2 = m2
  p1 = p1
  q1 = q1
  Pushes = {p1}
  Merges = {m1, m2}
  PullRequests = {q1}
  Refs <- TwoRefs
  Default = "main"
  Oids <- ForkOids
  Ancestry <- ForkAncestry
  MergeCommits <- ForkMerges
  Packs <- ForkPack
  InitRefs <- Forked
  NoOid = NoOid
  NoPr = NoPr
  MaxCommands = 2
  MaxRevisions = 2
  MaxStops = 1
INVARIANTS
  MergedIsReal
  MergeRowsLive
  KeptUnlessOvertaken
PROPERTIES
  RefRulesKept
SYMMETRY MergeSymmetry
CHECK_DEADLOCK FALSE
