SPECIFICATION WebSpec
CONSTANTS
  q1 = q1
  q2 = q2
  Requests = {q1, q2}
  Names = {n1}
  Repos = {r1, r2}
  NoRepo = NoRepo
  RequestLimit = 1
  JobLimit = 1
  MaxChanges = 1
  Offered <- MCOffered
INVARIANTS
  AnswerTells
  ServedWasReadable
SYMMETRY MCSymmetry
CHECK_DEADLOCK FALSE
