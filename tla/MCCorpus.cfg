SPECIFICATION FairSpec
CONSTANTS
  Rulings = {1, 2, 3}
  RulingBlock <- MCRulingBlock
  LastBlock = 3
  Runs = {a, b}
  Setups = {"workflow", "one at a time", "overlapping"}
  MaxFaults <- MCMaxFaults
  MaxEdits <- MCMaxEdits
INVARIANTS
  IndexNeverAhead
  NeverBackwards
  OverlapHarmless
PROPERTIES
  NeverOverwrites
  EventuallyIndexed
