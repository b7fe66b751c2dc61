CONSTANTS
  Calls = {p1, p2}
  MaxSessions = 2
SPECIFICATION Spec
INVARIANT SummaryAgrees
