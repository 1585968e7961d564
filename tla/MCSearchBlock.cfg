SPECIFICATION FairSpec
CONSTANTS
  Chains <- MCChains
  SearchTimes <- MCSearchTimes
  Width = 8
INVARIANTS
  FindsLastBlockBefore
  RefusalsJustified
  AtMostTwiceBisection
PROPERTIES
  Termination
CHECK_DEADLOCK FALSE
