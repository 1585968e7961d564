SPECIFICATION Spec
CONSTANTS
  Fields = {"A", "B"}
  Shapes <- MCShapes
  FirstNonce = 1
  MaxTxs = 1
  HasService = TRUE
CHECK_DEADLOCK FALSE
INVARIANTS
  LastUsedLastNonce
