\* Two coins on the engine replay and the backtester; or one with its sleeves.
\* Seven bars of two levels, two of them missing: folds of one and two bars, years of three.
SPECIFICATION MCSpec
CONSTANTS
  Scalpers <- mcScalpers
  Cores <- mcCores
  Satellites <- mcSatellites
  Coin <- mcCoin
  Costs <- mcCosts
  Prices <- mcPrices
  Bars <- mcBars
  Atrs <- mcAtrs
  Allocations <- mcAllocations
  Amounts <- mcAmounts
  Signals <- mcSignals
  Breakouts <- mcBreakouts
  Overridden <- mcOverridden
  InitialBalance = 6000
  MaxPositionPct = 500
  Floor = 1500
  StopPct = 60
  TargetPct = 300
  TrailPct = 200
  ArmPct = 0
  BreakEvenPct = 200
  StagePct = 500
  TargetR = 3
  NoTarget = 9999
  OffsetPct = 10
  MaxRiskPct = 100
  TimeLimit = 3
  HourBars = 2
  PeriodBars = 2
  MaxOpen = 1
  MaxAge = 2
  MaxBars = 4
  Train = 1
  Forward = 2
  MinBars = 3
  Lookbacks <- mcLookbacks
  Year = 3
  DayBars = 2
  Levels <- mcLevels
  MaxTape = 7
  MaxGaps = 2
INVARIANTS
  FillsAreFair
  SimulatorIsPaper
  SameTradesOtherwise
  PastStands
  CurveFollowsTheMarket
CHECK_DEADLOCK FALSE
