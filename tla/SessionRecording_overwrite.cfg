SPECIFICATION Spec
CONSTANTS
  Emitters = 1
  MaxEvents = 2
  MaxStreams = 2
  MaxFlushPart = 3
  Faulty = {}
  FastAttempts = 1
  Nobody = Nobody
INVARIANTS NothingErased
CHECK_DEADLOCK FALSE
