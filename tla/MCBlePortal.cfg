CONSTANTS
  Flows = {f1, f2}
  MaxRetries = 2
  OffStates = {"poweredOff", "unauthorized"}
  Services = {"telemetry", "info"}
SPECIFICATION Spec
SYMMETRY FlowSymmetry
INVARIANTS DisarmedWhenStopped ScanHasDeadline GatedNeverConnected
PROPERTY BudgetRefundedBySuccess
