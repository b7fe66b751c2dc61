CONSTANTS
  Uids = {c1, c2}
  Speeds = {1}
  Laps = {1}
  Names = {1}
  MaxArrivals = 2
  MaxPasses = 1
  MaxWrites = 3
  MaxStarts = 2
SPECIFICATION Spec
SYMMETRY CarSymmetry
INVARIANTS MirrorOnDisk GarageIsTrue SerialIsOwn
CHECK_DEADLOCK FALSE
