\* Scalper, core and satellite of one coin on one paper account, with restarts; the log of two
\* coins, of three trades, and its page of two.
SPECIFICATION MCSpec
CONSTANTS
  Scalpers <- mcScalpers
  Cores <- mcCores
  Satellites <- mcSatellites
  Prices <- mcPrices
  Atrs <- mcAtrs
  Allocations <- mcAllocations
  Signals <- mcSignals
  InitialBalance = 4000
  MaxPositionPct = 500
  Floor = 1150
  StopPct = 60
  TargetPct = 300
  TrailPct = 200
  ArmPct = 0
  BreakEvenPct = 200
  StagePct = 500
  TargetR = 0
  NoTarget = 9999
  MaxTrades = 3
  MaxClock = 3
  LogCoins <- mcLogCoins
  LogLimit = 3
  PageLimit = 2
  PageTrades = 2
  FileTrades = 3
  MaxMishaps = 1
  MaxBoots = 1
INVARIANTS
  NoTradeTwice
  BoughtOnce
PROPERTIES
  CashKept
  SettledRestart
  NoTradeForgotten
  PageCatchesUp
CHECK_DEADLOCK FALSE
