CONSTANTS
  MaxRacers = 2
  Times = {1}
SPECIFICATION Spec
INVARIANT ResultsLeadOn
CHECK_DEADLOCK FALSE
