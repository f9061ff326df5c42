\* Satellites and restarts between sales; or lost answers, failing reads and a death anywhere.
CONSTANTS
  btc = btc
  none = none
  cycle = cycle
  risk = risk
  Markets = {btc}
  NoMarket = none
  Callers = {cycle, risk}
  MaxOrder = 3
  MaxLeg = 4
  MaxWallet = 6
  Floor = 2
  MinOrder = 2
  MaxOpenPositions = 1
  Faults = {"readAfterSale", "lostAck"}
  Environments <- mcEnvironments
SPECIFICATION RestoreSpec
INVARIANTS TrackedBacked RecordKept
PROPERTIES BootReconciles
