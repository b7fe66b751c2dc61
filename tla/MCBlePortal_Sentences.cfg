\* Sentences of the repository that the code does not keep (README, section 6).
\* TLC stops at the first it refutes: one at a time.
CONSTANTS
  Flows = {f1, f2}
  MaxRetries = 2
  OffStates = {"poweredOff"}
  Services = {"telemetry", "info"}
SPECIFICATION Spec
SYMMETRY FlowSymmetry
PROPERTY IdleAfterStop
\* PROPERTY DropIsNotLocked
\* PROPERTY ReconnectOnlyAfterDrop
