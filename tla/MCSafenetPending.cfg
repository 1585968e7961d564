SPECIFICATION Spec
CONSTANTS
  Requests = {r1, r2}
  Sentinels = {s1, s2}
  r1 = r1
  s1 = s1
  s2 = s2
  Ballots <- SplitBallots
  CommitWindow = 0
  RevealWindow = 1
  ArbitrationTimeout = 2
  LastProposal = 2
  MaxHeight = 6
  MaxReorgs = 0
  Queries = {"pending", "rulings"}
INVARIANTS
  PendingIsExact
  RulingsOfFinalBlocks
CONSTRAINTS
  CommitsInOrder
  StillForRulings
CHECK_DEADLOCK FALSE
