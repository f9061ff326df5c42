\* One coin, two overlapping passes, two crashes and two faults of other kinds; bars of eight
\* and four ticks, and a host that may sleep for three; a ladder of three rungs over two days.
CONSTANTS
  btc = btc
  none = none
  p1 = p1
  p2 = p2
  Markets = {btc}
  NoMarket = none
  Passes = {p1, p2}
  Votes = 3
  EnterVotes = 3
  StayVotes = 3
  MaxCrashes = 2
  MaxFaults = 2
  Faults = {"stale", "series", "partial"}
  Period = 8
  SatPeriod = 4
  Buffer = 1
  SatBuffer = 2
  MaxWait = 1
  Threshold = 9
  WatchEvery = 2
  Sleeps <- mcSleeps
  Ladder <- mcLadder
  Fractions = {100, 50}
  ResizePct = 30
  MinNotional = 1
  Deposits <- mcDeposits
  Opening = 4
  MaxEquity = 12
  MaxDays = 1
  MaxLosses = 1
SPECIFICATION MCSpec
INVARIANTS StuckExitIsRetried RungRatchets
PROPERTIES BoughtBackOnProof SoldByItsVote ExitHappens CyclesGoOn HangIsReported
CHECK_DEADLOCK FALSE
