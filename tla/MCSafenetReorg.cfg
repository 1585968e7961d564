SPECIFICATION Spec
CONSTANTS
  Requests = {r1}
  Sentinels = {s1, s2}
  r1 = r1
  s1 = s1
  s2 = s2
  Ballots <- SplitBallots
  CommitWindow = 0
  RevealWindow = 1
  ArbitrationTimeout = 1
  LastProposal = 2
  MaxHeight = 5
  MaxReorgs = 1
  Queries = {"rulings"}
INVARIANTS
  RulingsOfFinalBlocks
CHECK_DEADLOCK FALSE
