SPECIFICATION FairSpec
CONSTANTS
  MaxLogRange = 7
  MinLogRange = 2
  LastBlock = 9
  Chain <- MCChain
  NodeLimits <- MCNodeLimits
  MaxFaults = 2
INVARIANTS
  Covered
  NarrowsForCause
PROPERTIES
  StreamSpec
  Termination
