CONSTANTS
  Endpoints <- BinanceSpot
  Threads = {t1}
  Limit = 1
  MaxPages = 1
  MaxTrade = 3
  MaxGap = 2
  MaxCrash = 0
SPECIFICATION Spec
INVARIANTS HolesAreRegistered CompletenessIsHonest
CHECK_DEADLOCK FALSE
