SPECIFICATION FairSpec
CONSTANTS
  Processes = {p1}
  Gateways = {g1, g2, g3}
  p1 = p1
  g1 = g1
  Cids = {c1, c2}
  Other = Other
  None = None
  Configured <- NoneConfigured
  MaxFetches = 2
  MaxRestarts = 0
  MaxDamage = 0
INVARIANTS
  FirstThatServes
PROPERTIES
  RaceEnds
CHECK_DEADLOCK FALSE
