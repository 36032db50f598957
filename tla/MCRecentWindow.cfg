CONSTANTS
  Endpoints <- BybitEndpoint
  Threads = {t1}
  Limit = 2
  MaxPages = 2
  MaxTrade = 4
  MaxGap = 1
  MaxCrash = 0
SPECIFICATION Spec
INVARIANT RecoveredIsProven
CHECK_DEADLOCK FALSE
