CONSTANTS
  Endpoints <- AllEndpoints
  Threads = {t1}
  Limit = 1
  MaxPages = 2
  MaxTrade = 3
  MaxGap = 1
  MaxCrash = 1
SPECIFICATION FairSpec
INVARIANTS TypeOK RecoveredIsContiguous
PROPERTY RecoveryEnds
CHECK_DEADLOCK FALSE
