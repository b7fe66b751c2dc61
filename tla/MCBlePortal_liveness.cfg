CONSTANTS
  Flows = {f1, f2}
  MaxRetries = 1
  OffStates = {"poweredOff"}
  Services = {"telemetry", "info"}
SPECIFICATION Unattended
PROPERTY BusyResolves
CHECK_DEADLOCK FALSE
