CONSTANTS
  btc = btc
  thin = thin
  Coins = {btc, thin}
  Btc = btc
  Frozen = {thin}
  Window = 4
  Total = 5
  Kept = 6
  Overlap = 1
  MaxStale = 2
  Start = 5
  MaxT = 8
  MaxFaults = 2
  PageSize = 1
  Lead = 1
  Grace = 2
  MaxNotices = 3
  MaxPeriod = 4
  MaxMishaps = 2
  Horizon = 21
  MaxFailures = 3
  Readings <- MCReadings
SPECIFICATION MCSpec
INVARIANTS
  DecidesOnClosedBars
  VotesMirror
  NoticesAreHeeded
  SizesKeepUp
PROPERTIES
  HistoryIsKept
CHECK_DEADLOCK FALSE
