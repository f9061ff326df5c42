\* Three coins, two of them correlated, two slots, two bars; one coin's sales of two kinds over
\* four days, with restarts.
SPECIFICATION MCSpec
CONSTANTS
  Symbols <- mcSymbols
  Order <- mcOrder
  Correlated <- mcCorrelated
  MaxOpen = 2
  MaxAge = 1
  Hysteresis = 2
  Labels <- mcLabels
  Bears <- mcBears
  FirstLabel = "BULL"
  Confidences <- mcConfidences
  Leaving <- mcLeaving
  Period = 2
  MaxNow = 4
  Coins <- mcCoins
  Equities <- mcEquities
  Gains <- mcGains
  Kinds <- mcKinds
  InitialBalance = 100
  MaxDailyLossPct = 100
  MaxOpenPositions = 1
  WeeklyLossPct = 100
  Week = 2
  Cooldown = 2
  MaxTrades = 3
  MaxDay = 3
  MaxSales = 4
INVARIANTS
  EntriesSeeEachOther
  BearPolicyHolds
PROPERTIES
  OldPositionsAreSold
  LossStopsEntries
  RestartKeepsTheLoss
  WeeklyBlockHolds
CHECK_DEADLOCK FALSE
