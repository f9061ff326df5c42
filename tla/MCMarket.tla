------------------------------ MODULE MCMarket ------------------------------
(***************************************************************************)
(* One run over what the bot reads of the market: the series of bars, the    *)
(* strategies that vote on them, the venue's notices, and the feeds of        *)
(* readings.  A behaviour is about one of the four.                          *)
(***************************************************************************)
EXTENDS MCCandleSeries, Strategies, VenueNotices, MarketFeeds

VARIABLES subject    \* what the behaviour is about

\* Two lines about zero.
Lines == [fast : -2..2, slow : -2..2]
\* Bars between two prices, of a range and some volumes.
BarsIn(lo, hi, range, vols) ==
  {b \in [open : lo..hi, high : lo..hi, low : lo..hi, close : lo..hi, volume : vols] :
     /\ b.low <= b.open /\ b.low <= b.close /\ b.open <= b.high /\ b.close <= b.high
     /\ b.high - b.low <= range}
\* A bar of S/R's prices.
At(o, h, l, c) == [open |-> o, high |-> h, low |-> l, close |-> c, volume |-> 1]
\* One open for each bar, for strategies that do not read it.
Plain(bars) == {b \in bars : b.open = b.low + b.high - b.close}
MCReadings ==
  [rsi |-> {10, 29, 30, 50, 70, 71, 90}, mfi |-> {10, 19, 20, 50, 80, 81, 90},
   cci |-> {-250, -150, -101, -100, 0, 100, 101, 150, 250}, williamsR |-> {-95, -81, -80, -50, -20, -19, -5},
   ema |-> Lines, macd |-> Lines, obv |-> Lines,
   stochastic |-> [fast : {0, 15, 20, 29, 30, 50, 70, 71, 80, 85, 100}, slow : {0, 25, 50, 75, 100}],
   stochRsi |-> {20, 32, 68, 80},
   psar |-> [close : 1..3, sar : 1..3],
   supertrend |-> Plain(BarsIn(1, 4, 3, {1})),
   heikinAshi |-> {b \in BarsIn(1, 3, 1, {1}) : b.open # b.close \/ b.open = 2},
   bollinger |-> [price : {90, 97, 98, 99, 100, 101, 102, 103, 110}, lower : {98, 99}, middle : {100}, upper : {101, 102}],
   vwapSigma |-> Plain(BarsIn(1, 3, 2, {0, 1, 3})),
   donchian |-> Plain(BarsIn(1, 3, 1, {1, 2, 4})),
   adx |-> [adx : {10, 24, 25, 40, 70}, pdi : {0, 10, 15, 40}, mdi : {0, 10, 15, 40}],
   ichimoku |-> Plain(BarsIn(1, 3, 1, {1})),
   pinBar |-> {b \in BarsIn(0, 4, 4, {1}) : b.high - b.low \in {0, 3, 4}},
   volumeSurge |-> BarsIn(2, 3, 1, {0, 1, 2, 5}),
   supportResistance |-> {At(1000, 1000, 1000, 1000), At(1003, 1003, 1003, 1003), At(1037, 1037, 1037, 1037), At(1040, 1040, 1040, 1040),
       At(1010, 1012, 1000, 1012), At(1030, 1040, 1028, 1028)}]

MCInit ==
  /\ Init /\ StrategyInit /\ NoticesInit /\ FeedsInit
  /\ subject \in {"series", "votes", "notices", "feeds"}
  \* The parts at rest have one state.
  /\ subject = "series" \/ printed = Coins
  /\ subject = "votes" \/ kind = "rsi"
  /\ subject = "feeds" \/ hour = Day

MCNext ==
  \/ subject = "series" /\ Next /\ UNCHANGED <<subject, strategyVars, noticeVars, feedVars>>
  \/ subject = "votes" /\ StrategyNext /\ UNCHANGED <<subject, candleVars, noticeVars, feedVars>>
  \/ subject = "notices" /\ NoticesNext /\ UNCHANGED <<subject, candleVars, strategyVars, feedVars>>
  \/ subject = "feeds" /\ FeedsNext /\ UNCHANGED <<subject, candleVars, strategyVars, noticeVars>>

MCSpec == MCInit /\ [][MCNext]_<<subject, candleVars, strategyVars, noticeVars, feedVars>>
=============================================================================
