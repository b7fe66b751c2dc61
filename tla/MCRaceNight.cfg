CONSTANTS
  MaxRacers = 4
  Times = {1, 2}
SPECIFICATION Spec
INVARIANTS BracketGoesOn HeatIsCredited LosersAreOut OneChampion
PROPERTIES EveryHeatCounts
CHECK_DEADLOCK FALSE
