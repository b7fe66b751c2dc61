CONSTANTS
  Flows = {f1, f2}
  MaxRetries = 2
  OffStates = {"poweredOff"}
  Services = {"telemetry", "info"}
SPECIFICATION Spec
SYMMETRY FlowSymmetry
PROPERTY ReconnectStaysPaused
