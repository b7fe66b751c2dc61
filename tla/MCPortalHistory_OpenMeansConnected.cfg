CONSTANTS
  MaxConnections = 2
  MaxPasses = 1
SPECIFICATION Spec
INVARIANT OpenMeansConnected
