CONSTANTS
  Frames <- BothVenues
  Verdict <- FrameVerdict
  DaysOf <- FrameDays
  FlushAt = 2
  MaxAttempts = 2
  MaxReceived = 3
  MaxCrash = 1
SPECIFICATION FairSpec
INVARIANTS TypeOK AuditPasses LargestIsWhole FinishedIsManifested FramesAreKept
           EveryOutageIsAGap GapNamesItsFailure CountsAreBacked
PROPERTIES CommitsLikeALog RunEnds
CHECK_DEADLOCK FALSE
