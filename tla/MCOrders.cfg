\* Three strategies, three external sources; the thresholds, factors and clamps of the
\* configuration, with the size floor and the reduced 15m misalignment turned on; two
\* satellite orders in a row, failing polls, a crash.
SPECIFICATION MCSpec
CONSTANTS
  AlgoWeight = 10
  Sources <- mcSources
  SourceWeight <- mcSourceWeight
  RawConfidence = 70
  Scale = 65
  Tighten = 5
  Loosen = 5
  BasePct = 150
  MacroFactor = 500
  BoostFactor = 1300
  PenaltyFactor = 500
  ConfMid = 65
  ConfMax = 1500
  ConfMin = 600
  ReduceFactor = 500
  SizeFloor = 400
  Ballots <- mcBallots
  Confidences <- mcConfidences
  TelegramBase = 70
  Details <- mcDetails
  Forms <- mcForms
  Readings <- mcReadings
  TTL = 1
  MaxExternal = 2
  Margin = 10
  Orders <- mcOrders
  MaxQty = 3
  MinOrder = 2
  Floor = 1
  MaxSatCrashes = 1
  SatFaults <- mcFaults
INVARIANTS
  BetterNeverHurts
PROPERTIES
  
  ExitSticks
  ExitCompletes
CHECK_DEADLOCK FALSE
