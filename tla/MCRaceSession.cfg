CONSTANTS
  Players = {p}
  Cars = {1}
  LapOptions = {2}
  Speeds = {1, 2}
  MAX_PASSES = 2
  MAX_LEADERBOARD = 1
  MaxClock = 2
  MaxCrossings = 4
  MaxRaces = 2
SPECIFICATION Spec
INVARIANTS LapsAreCrossings BoardIsBest SpeedsAreTrue
PROPERTIES SavedOnce ImplementsRace
CHECK_DEADLOCK FALSE
