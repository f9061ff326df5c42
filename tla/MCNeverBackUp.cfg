\* Three rungs, two days, no unreadable file.
SPECIFICATION LadderSpec
CONSTANTS
  Ladder <- mcLadder
  Fractions = {100, 50}
  ResizePct = 30
  MinNotional = 1
  Deposits <- mcDeposits
  Opening = 4
  MaxEquity = 12
  MaxDays = 1
  MaxLosses = 0
PROPERTIES NeverBackUp
CHECK_DEADLOCK FALSE
