SPECIFICATION Spec
CONSTANTS
  Goals <- MCGoals
  MaxChanges = 3
  MaxStarts = 2
CHECK_DEADLOCK FALSE
INVARIANTS
  ShownIsKept
  EarnedIsUnlocked
  SchemaReady
