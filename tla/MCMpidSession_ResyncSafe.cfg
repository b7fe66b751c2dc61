CONSTANTS
  MaxSessions = 2
  MaxFrames = 3
  Kinds = {"carOn", "gates"}
  Cuts = {9, 18}
  Keystream <- ItsKeystream
SPECIFICATION Spec
INVARIANT ResyncSafe
CHECK_DEADLOCK FALSE
