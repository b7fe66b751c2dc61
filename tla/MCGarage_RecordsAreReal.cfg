CONSTANTS
  Uids = {c1}
  Speeds = {1}
  Laps = {1, 2}
  Names = {1}
  MaxArrivals = 1
  MaxPasses = 0
  MaxWrites = 3
  MaxStarts = 1
SPECIFICATION Spec
INVARIANT RecordsAreReal
CHECK_DEADLOCK FALSE
