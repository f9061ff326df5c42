\* One coin, two concurrent calls; the exchange loses answers or not.
CONSTANTS
  btc = btc
  none = none
  cycle = cycle
  risk = risk
  Markets = {btc}
  NoMarket = none
  Callers = {cycle, risk}
  MaxOrder = 3
  MaxLeg = 4
  MaxWallet = 5
  Floor = 2
  MinOrder = 2
  MaxOpenPositions = 1
  Faults = {"readAfterSale", "lostAck"}
SPECIFICATION FairSpec
INVARIANTS TrackedBacked OneOrderPerMarket
PROPERTIES SellsItsOwnCoins LockIsReleased
