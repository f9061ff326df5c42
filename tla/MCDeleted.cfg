\* Two coins and two restarts, with nothing lost.
SPECIFICATION LogSpec
CONSTANTS
  LogCoins = {"A", "B"}
  LogLimit = 3
  PageLimit = 2
  PageTrades = 2
  FileTrades = 3
  MaxMishaps = 0
  MaxBoots = 2
INVARIANT DeletedStaysDeleted
CHECK_DEADLOCK FALSE
