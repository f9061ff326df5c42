CONSTANTS
  btc = btc
  thin = thin
  Coins = {btc}
  Btc = btc
  Frozen = {}
  Window = 4
  Total = 5
  Kept = 6
  Overlap = 1
  MaxStale = 2
  Start = 5
  MaxT = 7
  MaxFaults = 1
SPECIFICATION Spec
INVARIANTS FullHistory
CHECK_DEADLOCK FALSE
