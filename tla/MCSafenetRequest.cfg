SPECIFICATION Spec
CONSTANTS
  Requests = {r1}
  Sentinels = {s1, s2}
  r1 = r1
  s1 = s1
  s2 = s2
  Ballots <- AnyBallots
  CommitWindow = 1
  RevealWindow = 1
  ArbitrationTimeout = 1
  LastProposal = 3
  MaxHeight = 7
  MaxReorgs = 0
  Queries = {"request"}
INVARIANTS
  RequestAsOfBlock
  NeverInconsistent
SYMMETRY SentinelSymmetry
CHECK_DEADLOCK FALSE
