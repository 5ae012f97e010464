SPECIFICATION Spec
CONSTANTS
  Emitters = 1
  MaxEvents = 3
  MaxStreams = 2
  MaxFlushPart = 3
  Faulty = {1}
  FastAttempts = 1
  Nobody = Nobody
INVARIANTS TypeOK ConfirmedStored WholeRecording UploadsCompleted
PROPERTIES RecordingKept
CHECK_DEADLOCK FALSE
