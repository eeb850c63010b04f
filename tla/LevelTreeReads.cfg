SPECIFICATION Spec
CONSTANTS
  Keys = {1, 2}
  NumLevels = 3
  MaxMemCompactLevel = 1
  MaxWrites = 4
  MaxDeletions = 1
  MaxSnapshots = 1
  MaxOutputs = 2
INVARIANTS
  LevelsDisjoint
  NewerAbove
  ReadsNewest
CHECK_DEADLOCK FALSE
