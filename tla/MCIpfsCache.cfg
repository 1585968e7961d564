SPECIFICATION Spec
CONSTANTS
  Processes = {p1, p2}
  Gateways = {g1, g2}
  p1 = p1
  g1 = g1
  Cids = {c1}
  Other = Other
  None = None
  Configured <- OneConfigured
  MaxFetches = 2
  MaxRestarts = 2
  MaxDamage = 1
INVARIANTS
  Authentic
  CacheWhole
CHECK_DEADLOCK FALSE
