CONSTANTS
  MaxConnections = 2
  MaxPasses = 2
SPECIFICATION FairSpec
INVARIANTS OpenSessionsAccounted
PROPERTIES ImplementsSessionLog SessionsEnd
