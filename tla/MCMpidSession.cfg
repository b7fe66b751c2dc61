CONSTANTS
  MaxSessions = 2
  MaxFrames = 3
  Kinds = {"carOn", "gates"}
  Cuts = {11}
  Keystream <- AKeystream
SPECIFICATION Spec
INVARIANTS ReceiverIsBounded EventsAreTrue Resynchronises
CHECK_DEADLOCK FALSE
