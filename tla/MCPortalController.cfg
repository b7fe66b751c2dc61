CONSTANTS
  CanBle = TRUE
  MaxTransports = 4
  MaxQueue = 2
SPECIFICATION ControllerSpec
INVARIANTS OneTransport DemoHasNoPhase DescribesTransport
PROPERTIES SlotPassesThroughFree StartsOnlyWhenWanted
