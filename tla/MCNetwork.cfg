SPECIFICATION NetworkSpec
CONSTANTS
  c1 = c1
  c2 = c2
  Asks <- MCAsks
  Callers = {c1, c2, c3}
  Chains = {"mainnet", "gnosis"}
  Nodes = {"n1", "n2", "n3", "ws"}
  Serves <- MCServes
  Listed <- MCListed
  Usable = {"n1", "n2", "n3"}
  Configurations <- MCConfigurations
  Retries = 4
  Delay = 2
  MaxDelay = 9
  RetryAfters = {0, 3, 9, 10}
CHECK_DEADLOCK FALSE
INVARIANTS
  RightChain
  ConnectsOnce
  RefusedByAll
  OnlyResultOpen
  RetriesAsAsked
PROPERTIES
  CallersAnswered
  Ends
