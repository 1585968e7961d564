SPECIFICATION Spec
CONSTANTS
  Rulings = {1, 2, 3}
  RulingBlock <- MCRulingBlock
  LastBlock = 3
  Runs = {a}
  Setups = {"one at a time"}
  MaxFaults <- MCMaxFaults
  MaxEdits <- MCMaxEdits
INVARIANTS
  ConflictsWereEdited
