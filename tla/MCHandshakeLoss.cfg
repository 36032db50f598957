CONSTANTS
  Frames <- BothVenues
  Verdict <- FrameVerdict
  DaysOf <- FrameDays
  FlushAt = 2
  MaxAttempts = 2
  MaxReceived = 3
  MaxCrash = 1
SPECIFICATION Spec
INVARIANT ReceivedIsPersisted
CHECK_DEADLOCK FALSE
