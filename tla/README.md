# PlayCryptoWithAI: specifications of the trading bot

TLA+ modules for the parts of the bot where its correctness depends on the order of
things (orders that interleave on one wallet, files read back after a restart, exits that
are retried, bars and notices that arrive late) and for the rules it decides by. TLC checks
them on small instances; TLAPS proves the most important properties for every value of the
constants. Paths below are relative to `src/` unless they start with `src/`.

Contents: 1 the system, 2 the modules, 3 the runs, 4 the proofs, 5 disagreements between code
and documentation, 6 what is left out, 7 plan.

## 1. The system

The bot is one Node process trading Binance spot. All concurrency is on one event loop:
every `await` (an order, a balance, a ticker) lets another timer or callback run. What
runs beside each other:

| actor | where | period |
|---|---|---|
| the 12h cycle: decisions, entries, sleeve, `strongest` satellite | `src/core/engine.js` `runAllSymbols`, started by `src/core/cycleScheduler.js` | candle close |
| the risk loop: stops, sleeve retries, satellite ticks (no overlap guard) | `src/main.js` `runRiskChecks` | 2 min |
| the price poll (marks prices) | `src/main.js` | 5 s |
| the balance poll, which runs the wallet restore | `src/main.js` `refreshBalance` | 5 min |
| the satellite breakout cycle | `src/main.js`, `engine.runSatelliteCycle` | 4h close |
| the watchdog | `src/monitor/cycleWatchdog.js` | 30 min |
| the operator: manual close, smoke test | `src/main.js`, `src/dashboard/` | any time |
| the process itself: killed, restarted by docker | boot sequence of `src/main.js` | any time |

### Components

| component | state it keeps | what makes it correct | modules |
|---|---|---|---|
| Live trader (`executor/liveTrader.js`) | `positions`, `#busyMarkets`, `satelliteChecks` | no leg believes in coins the wallet lacks; no leg sells another's; the lock is always released | `LiveTrader`, `LiveTraderProofs` |
| Wallet restore and `position_state.json` (same file, `calcCoreClaims`, `refreshBalance`) | the saved legs, the restore in flight | every coin goes to one leg; what the sleeve owns stays on record | `WalletRestore`, `LiveTraderProofs` |
| Satellite orders (same file) | `pendingSatellite`, `satellite_orders.json` | every fill credited once; an exit sticks and completes | `SatelliteOrder`, `OrderLedger`, `OrderProofs` |
| TSM core sleeve (`runTsmCoreCycle`, `engine/tsmCore.js`, `sleeveStateStore.js`, `equityHistory.js`) | failed closes, buy-back gate, last exits, `tsm_sleeve_state.json`, the equity history | a decided exit is retried; a sold coin waits for a proof; a rung is never undone by a later day | `SleeveCycle`, `SleeveLadder`, `SleeveProofs` |
| 12h cycle (`engine.js` `runAllSymbols`), regime and bear policy | `cycleInProgress`, the tracker, the block | entries see each other; the cash exit and the aging exit happen | `EngineCycle`, `EntryProofs` |
| Scheduler and watchdog (`cycleScheduler.js`, `cycleWatchdog.js`) | next fire time, alert latch | cycles go on; every stall is reported | `CycleClock` |
| Risk manager, weekly breaker (`riskManager.js`, `portfolioRisk.js`) | daily P&L, block flag | no entry past the loss, also after a restart | `RiskManager`, `RiskBrake`, `EntryProofs` |
| Paper trader (`paperTrader.js`) | simulated cash, positions, resting orders | no operation makes money; a restart finds the book again | `PaperTrader`, `PaperRestart`, `RecordProofs` |
| Stop rules (`traderUtils.js`, `engine/satellites.js`) | none: functions of a position | exits in the order of the code, at fair prices | `StopRules` |
| Signals and decision (`signalAggregator.js`, `aggregatorVoting.js`, `decisionCore.js`, `filters.js`, `positionSizing.js`) | external signals, last winner | more agreement never costs an entry; a better market never shrinks one | `SignalVoting`, `EntrySizing`, `SignalAggregator`, `OrderProofs` |
| Indicator strategies (`strategies/`) | none | no strategy leans to one side | `Strategies` |
| Candles (`exchange/candleCache.js`, `dashboardState.updateCandles`, fetches of `engine.js`) | files of bars, series in memory | decisions see exactly the closed bars; a file loses none | `CandleSeries`, `MarketProofs` |
| Feeds (`exchangeEventsFeed.js`, `dvolFeed.js`, `nasdaqTrend.js`, `fearGreed.js`) | caches with ages | a notice that stands is heeded; a reading is the last closed one | `VenueNotices`, `MarketFeeds`, `MarketProofs` |
| Trade log and page (`dashboard/`, `public/dashboard.js`) | log of trades, saved state, `trades.csv`, the page's copy | no trade twice, no holding bought twice, the page catches up | `TradeLog`, `TradeTimes`, `RecordProofs` |
| Backtester and replay (`backtester/`) | a simulated account, an event clock | the simulator is the paper account; the two replays agree; a past result stands | `Simulator`, `EngineReplay`, `PortfolioReplay`, `WalkForward`, `ReplayProofs`, `MarketProofs` |
| Meta overlay, market context, reports, parameter searches | none | floating-point scores and text | not modelled |

The components meet in few places: the sleeve cycle and the risk loop call the trader
(`openCorePosition`, `closeCorePosition`) and see only a result or `null`; the risk loop
reads `engine.state.tsmCoreFailedCloses`; the restore reads the files the trader writes
and the wallet the trader's orders change, and is held off by `ordersInFlight`; sales reach
the log, the brake and the paper book by different ways.

### What is hard

Interleavings at awaits (`liveTrader.js:238`, `main.js:747`, `main.js:813`); part fills and
answers that never arrive; reads that fail in the middle of an operation
(`liveTrader.js:1203`); two state files and a wallet that a crash leaves at different
points; cancels that race with fills (`liveTrader.js:987`); retry flags that outlive, or do
not outlive, what they are for (`engine.js:746`); bars fetched while they form; debounced
saves beside files written at once. `PROJECT.json` lists every hazard with its line and the
properties that cover it.

## 2. The modules

Each module's header says what it stands for; this section adds what a reader of the code
needs to find his way, and what was simplified.

### LiveTrader

One wallet balance per market (`wallet`), the legs' tracked quantities (`qty`, the scalper
`SYM`, the core `SYM#core`, a satellite `SYM#bo`), the market lock (`busy`), the satellite
guard (`checks`), and for each concurrent caller the call it is suspended in (`op`: what it
does and the await it is at). One action per stretch of code between two awaits:

- `OpenScalper`, `OpenCore`, `GrowCore`, `TrimCore`, `Close`, `PartialClose`,
  `SellSatellite`: the checks up to the first await, and taking the lock or the guard.
- `ReadFree` and `Sized`: the balance read (or its failure), and what it does to the size,
  with the floors and the trim that turns into a close.
- `LimitBuy`, `LimitSell`, `MarketSell`: the exchange fills any part.
- `BookBuy`, `BookSale`: what the trader writes; `Return` is the `finally` blocks.
- `FailOrder`, `LostBuy`, `LostSell`, `LostRest`, `LoseSale`: exceptions, the last four only
  when the behaviour's `faults` has them. `faults` is a variable, chosen at the start among
  the subsets of `Faults`: one run has both the sound and the faulty environments, and a
  property says of which it speaks.

Amounts are lots at one price, so a lot is a quantity and a notional; `Floor` is the
exchange's minimum, `MinOrder` the bot's. A resting satellite buy is three quantities here;
its life is `SatelliteOrder`'s subject. `unbooked` is auxiliary: what an in-flight call has
sold and not yet booked. `partialExitDone` is not kept, so a leg may take any number of
partial exits.

### WalletRestore (extends LiveTrader)

Adds `saved` (`position_state.json`), the restore in flight (`restore`: the file it read, the
balance it read, the claims, the legs and coins still to do), `up` and `env`. The restore is
one action per await: `BeginRestore`, `ReadWallet`, `AnswerWallet`, then `AdoptLeg` or
`MissLeg` for each saved sleeve leg and each coin, then the save if anything was restored.
`Claim` is `calcCoreClaims`. `Crash` loses the memory and keeps the files and the exchange.
`env` is one of the constant `Environments`: satellites or not, calls that overlap a restore
or not, a death anywhere (`lossy`) or only between sales, which reads fail (`misses`).
`known` is auxiliary: what a leg was booked as owning.

### SatelliteOrder, and OrderLedger above it

`SatelliteOrder` follows one key through `placeSatelliteOrder`, `satelliteTick`,
`#pollSatelliteOrder`, `#sellSatellite`, the two files and the restore at boot, with the
exchange filling at any moment. A tick is a chain of steps (`status`, `cancel`, `reread`,
`credit`, `settle`, `decide`, `mark`, `sell`, `rest`, `book`). Whether a position exits at a
price (`stepSatellitePosition`) is a free choice between `Hold` and `DecideExit`. A sale that
throws sold nothing (`FailSell`), or it executed and its answer is lost: the whole sale
(`LoseSale`) or its market fallback (`LoseRest`). The leg then stays with fewer coins behind it;
with none, every tick asks for its stored quantity and is refused, until a restart drops it.
`OrderLedger` is what a resting buy promises: orders are placed, filled, cancelled; a watched
order's fills are credited up to what is filled and never twice; an order is forgotten only
when it is off the book and fully credited. The refinement maps `resting` to the orders
open on the book, `watched` to the order in `satellite_orders.json`, and `credited` to the
auxiliary sum of what polls have credited.

### SleeveCycle and SleeveLadder

`SleeveCycle`: the sleeve over many cycles: `failed` (`tsmCoreFailedCloses`), `gate`
(`tsmRebuyGate`), `paused` (a coin whose `tsmLastExitAt` is younger than the pause), `file`
(`tsm_sleeve_state.json`), the 12h cycle (`cycle`: status read, plan, one order at a time) and
the risk passes (`pass`), which may overlap. Votes and proofs are chosen freely at each
plan. An order of the sleeve is one step that sells or returns `null`: how it does so is
LiveTrader's subject, and `Busy` is its lock seen from here. The module has section M on
(`rebuyConfirmBars > 0`) with `stayVotes = enterVotes`, the only combination the config
comments allow for it; shipped defaults have it off, where the gate is empty. `wants`,
`waiting` and `missed` are auxiliary: what the last vote decided, which coins are sold and
unproved, and which coins or cycles had no vote. `Faults`: a stale cycle, a missing series, a
close that fills in part, a retry in flight across a cycle's status read (`race`), a failed
write of the state file (`save`).

`SleeveLadder`: `selectSleeveRung` on the equity history, the daily snapshots, and the opens,
closes and resizes of a cycle, in whole dollars, with deposits and lost snapshot files.
A price move is a move of the legs' values; one fraction for all coins of a cycle; orders
succeed; `MAX_POINTS` is never reached.

### EngineCycle

`runAllSymbols`: candles, BTC's regime and the bear policy, the bear cash exit, phase A (all
coins decide at once) and phase B (entries by confidence, one by one), with the risk loop's
sales, errors and crashes between any two steps. Time passes only when the cycle is idle or
in phase B; signals are free choices; correlation is a constant relation; smoke-test buys and
wallet adoptions are excluded; a coin's venue notices only grow until a restart.

### CycleClock

Both candle-aligned schedulers, the breakout cycle's wait for the 12h cycle, slow, failing
and hanging cycles, host suspends (a timer counts the time the process runs, the close it
waits for is on the wall clock), the watchdog and its latch, shutdown. One suspend between
two watchdog checks; a hung boot is not modelled.

### RiskManager, RiskBrake

`RiskManager` has each method as a function of the manager's fields; `RiskBrake` its callers
over days: exits of the engine are logged and recorded, sales of the sleeve, manual closes
and smoke tests logged only; midnights, restarts that seed the brake from the log; the weekly
breaker in day granularity. The log keeps sales only, a small `MaxTrades` stands for the rest.

### PaperTrader, StopRules, PaperRestart

Every method of `paperTrader.js` runs without an await and is a function of the book.
Quantities are lots, prices whole; a position keeps its cost, so blended entries are exact.
`StopRules` are the pure rules of `traderUtils.js` and `satellites.js`. `PaperRestart` writes the
trade file at once and the dashboard's state half a second later, kills the process anywhere
and rebuilds the book. A sale and its record are one step; the ATR is 0 in the run; deletion,
reset and smoke test are `TradeLog`'s.

### TradeLog

The live bot's log of two coins: `trades.csv`, the memory, its debounced save, the BUYs made
up for coins found in the wallet, deletion, reset, manual close, smoke test, the repair
script, and a page with its stream. `TradeTimes` has the one operator that the log and the paper
record share: the entries that are not of some times. A trade is its time, coin and side; two trades of one
millisecond are left out. A `scene` limits what a behaviour is about.

### SignalVoting, EntrySizing, SignalAggregator

The vote, thresholds and exit on a held coin (`SignalVoting`), the gates and the chain of
sizing factors (`EntrySizing`), and one coin's aggregator with its external signals, expiry
and memory of the last winner (`SignalAggregator`). Confidences are hundredths rounded down.

### Strategies

What each of the twenty strategies votes on its readings: a library's indicator is read, one
that a strategy computes from bars is computed; periods are shorter than configured. What is
one-sided by design is exempted by `VotesMirror` and named there: ties of PSAR, Heikin-Ashi and
ADX lean down, support and resistance count a level the price is beyond (`OneSided`), and
Williams %R and five others scale the confidence of each side apart (`EvenHanded`). Supertrend's
bands mirror exactly, entry by entry (`BandsMirror`); only its first trend leans, which asks for
the lower band alone (`supertrend.js:131`), and each is compared with the other first trend.

### CandleSeries

A series is a function from periods to `part` (fetched while it formed) or `whole`. Files,
memory, the boot load with its overlap, the cycle's fetch of `Window` bars, staleness, the
download script, kills in the middle of a write. Boots and cycle ends fall inside their
period; the bot and the download script writing one file at a time; the MTF caches left out.

### VenueNotices, MarketFeeds

`VenueNotices`: announcement, page, feed, cache, the engine's copy and the veto, for one coin;
a notice is its kind and its place. `MarketFeeds`: the DVOL, NASDAQ and fear & greed caches by
their ages, a boot in any hour, failures. A NASDAQ row each day; a reading is its day or bar.

### Simulator, EngineReplay, PortfolioReplay, WalkForward

`Simulator` is the backtest account: the paper account with costs, a clock and bars met as
open, low, high, close. `EngineReplay` is the event loop over it, `PortfolioReplay` the
backtester's `run` beside it on the same history, from equal accounts at each cycle, except
where the two are known to differ (`Differing`, section 5). Left out: partial rides,
notional bumps, equity marks, total fees, several core coins, the options that are off by
default. `WalkForward`: folds, the stitched curve, baseline windows, daily returns, with prices
and balances as logarithms, one coin, all in or all out, no costs.

### MC modules

`MCLiveTrader` and `MCWalletRestore` declare model values. `MCSleeve`, `MCEntries`, `MCPaper`,
`MCOrders`, `MCReplay` and `MCMarket` each check several models in one run: the variable
`subject` is chosen at the start, steps of the other models are disabled, and a model at rest
has one state. The models share no variable, so a run's behaviours are exactly those of its
models. No symmetry is used (the liveness properties would not allow it).

## 3. The runs

| run | configuration | instance | what it shows |
|---|---|---|---|
| `legs` | MCLiveTrader.cfg | 1 coin, 2 callers, orders to 3, legs to 4, wallet to 5 lots, floors 2, with and without failing reads and lost answers | `TrackedBacked`: the legs' coins are in the wallet. `OneOrderPerMarket`, `LockIsReleased`: the lock, whatever fails. `SellsItsOwnCoins`: a sale takes only coins of a leg that holds them. |
| `restore` | MCWalletRestore.cfg | the same, wallet to 6, two environments | `TrackedBacked` over restarts, `RecordKept`: what the sleeve owns stays on record; `BootReconciles`: after a boot no leg has coins the wallet lacks. |
| `sleeve` | MCSleeve.cfg | 1 coin, 2 passes, 2 crashes, 2 faults; bars of 8 and 4 ticks; 3 rungs, equity to 12, 2 days, 1 lost file | `StuckExitIsRetried`, `SoldByItsVote`, `BoughtBackOnProof`, `ExitHappens`; `CyclesGoOn`, `HangIsReported`; `RungRatchets`. |
| `cycle` | MCEntries.cfg | 3 coins (2 correlated), 2 slots, 2 bars of 2 ticks; 4 days, 4 sales | `EntriesSeeEachOther`, `BearPolicyHolds`, `OldPositionsAreSold`; `LossStopsEntries`, `RestartKeepsTheLoss`, `WeeklyBlockHolds`. |
| `paper` | MCPaper.cfg | 3 legs of 1 coin, 3 trades; a log of 3 and page of 2 for 2 coins, 1 mishap, 1 boot | `CashKept`, `SettledRestart`, `NoTradeForgotten`; `NoTradeTwice`, `BoughtOnce`, `PageCatchesUp`. |
| `signals` | MCOrders.cfg | 3 strategies, 3 sources; 2 orders of up to 3 lots, 1 crash, failing polls, lost answers of placements and sales | `BetterNeverHurts`; `FillsCreditedOnce` (the refinement), `ExitSticks`; `ExitCompletes`: the order is off the book and the leg gone, or its coins are. |
| `replay` | MCReplay.cfg | 2 coins over 3-4 bars, with and without costs; or 1 coin with its sleeves; tapes of 7 bars | `FillsAreFair`, `SimulatorIsPaper`, `SameTradesOtherwise`; `PastStands`, `CurveFollowsTheMarket`. |
| `market` | MCMarket.cfg | 2 coins, window 4, load 5, periods 5-8, 2 faults; every short history of readings; 3 notices over 4 periods; 21 feed periods, 3 failures | `DecidesOnClosedBars`, `HistoryIsKept`; `VotesMirror`; `NoticesAreHeeded`; `SizesKeepUp`. |
| `short_history` | MCShortHistory.cfg | 1 coin, 1 failed load | violated: `FullHistory` |
| `never_back_up` | MCNeverBackUp.cfg | the ladder, 2 days | violated: `NeverBackUp` |
| `fear_greed` | MCFearGreed.cfg | the feeds, a boot in any hour | violated: `MoodIsKept` |
| `deleted_stays` | MCDeleted.cfg | the log, nothing lost | violated: `DeletedStaysDeleted` |

The four violations are disagreements between a comment of the code and what it does;
`PROJECT.json` quotes each comment, section 5 tells them.

### Bounds, and why they are enough

- One coin in the trader's runs: markets share neither wallet balance nor lock, and meet only
  in the slot count, which is `EngineCycle`'s. The proofs are for any number of markets. Two
  callers: a conflict is between two calls; the satellites add a third actor.
- Two or three lots to a buy, wallets of five or six, floors of two (one for the satellites): a
  lot is half a floor, so a fill can be nothing, dust, a part an order can sell, or all, and a
  rest can be each of these too. `MaxLeg` and `MaxWallet` only stop growth.
- Two satellite orders in a row: an order's leftovers meet the next. One crash: with two, and a
  sale whose answer was lost between them, `FillsCreditedOnce` and `ExitSticks` fail (section 5).
  Beside the order the aggregator rests in one reachable state. CHECK_DEADLOCK is off
  where order ids, days, bars or periods run out.
- Two crashes of the sleeve: a restart can follow a restart. Three coins and two slots: a coin
  finds the slots full, and two correlated ones meet with a third between them.
- `MCMarket`: `Total` > `Window`, so what a load finds and a fetch does not differs; outages there
  are shorter than a window (the proof names the exact hypothesis). Periods 5..8 see a boot,
  an outage, a restart and the cycles after it. Days of the feeds are six periods: 21 reach
  over three midnights.
- Every bound is a CONSTANT in a cfg and stands in a guard of its module.

### Fairness, and why the code justifies it

- `LiveTrader!FairSpec`: a suspended call resumes. Every request of the exchange client has
  a 15 s timeout (`src/exchange/binanceClient.js`), so each await settles with a value or an
  exception.
- Satellite orders (`SatFairSpec`, in `MCOrders`): the risk loop is a `setInterval`, so ticks
  keep coming and a tick's requests settle (weak fairness); docker restarts the process; a
  read, a cancel and a sale retried for ever succeed at some time (strong fairness; a sale the
  exchange refuses for want of coins is not one that can). That a retried sale succeeds and is
  answered is assumed here and of the sleeve, not shown.
- The sleeve (`SleeveCycle!FairSpec`, in `MCSleeve`): the cycle and the passes go on (timers);
  strong fairness on a retry of a coin and on its success, as a pass may miss a ticker and a
  sell may fail, but not for ever. `StartCycle` waits for a risk pass since the last cycle:
  12 hours against 2 minutes.
- The clock (`CycleClock!ClockSpec`): time passes, due timers fire, a cycle that does not hang
  ends. A hang is not excluded: it is what the watchdog is for.
- The log (`LogFairSpec`, in `MCPaper`): docker restarts the process, boots come to their end, an
  `EventSource` reconnects by itself, what was sent on an open stream arrives.

## 4. What is proved

Eight modules of proofs, every leaf checked by TLAPS. Each theorem is about the
specification of its module for every value of the constants that the named assumptions
(`LiveTraderAssumption` and the like) admit: any sets of coins, callers, orders, passes, any
sizes and lengths. Where a theorem needs more, the table says so.

| theorem | property | what it needs beyond the named assumptions |
|---|---|---|
| `LiveTraderProofs!TypeCorrect` | `TypeOK` | nothing |
| `LiveTraderProofs!MarketLockHolds` | `OneOrderPerMarket` | nothing: holds with every fault |
| `LiveTraderProofs!WalletBacksTheLegs` | `TrackedBacked` | nothing (the property speaks of behaviours with `faults = {}`) |
| `LiveTraderProofs!ExitsSellTheirOwn` | `SellsItsOwnCoins` | nothing (likewise) |
| `LiveTraderProofs!RecordSurvives` | `RecordKept` | in each environment that is not lossy: no overlap, the core ticker and the boot's balance read do not fail |
| `LiveTraderProofs!BootsReconcile` | `BootReconciles` | no environment with satellites (as shipped: `config/default.js:884`); any deaths, lost answers, overlaps and failing reads |
| `OrderProofs!PollsKeepTheLedger` | `FillsCreditedOnce` (refinement of `OrderLedger`) | no kill between the two saves of a fill (`betweenFiles`) or between a sale and its booking (`midSale`), no sale whose answer is lost (`sale`) |
| `OrderProofs!ExitIsKept` | `ExitSticks` | the same, and `Floor = 1` |
| `OrderProofs!BetterNeverCosts` | `BetterNeverHurts` | nothing |
| `SleeveProofs!SleeveTypeCorrect` | `SleeveTypeOK` | nothing |
| `SleeveProofs!ExitsAreFlagged` | `StuckExitIsRetried` | nothing: holds with every fault |
| `SleeveProofs!SoldOnItsVote` | `SoldByItsVote` | no retry in flight at a cycle's status read (`race`) |
| `SleeveProofs!NoBuyBackUnproven` | `BoughtBackOnProof` | no `race`, no failed write of the state file (`save`) |
| `EntryProofs!EntriesKeepTheSlots` | `EntriesSeeEachOther` | nothing |
| `EntryProofs!BearsAreKeptOut` | `BearPolicyHolds` | one bear label |
| `EntryProofs!OldPositionsAreAsked` | `OldPositionsAreSold` | nothing |
| `SleeveProofs!RungsAreKept` | `RungRatchets` | nothing |
| `EntryProofs!RestartsKeepTheLoss` | `RestartKeepsTheLoss` | nothing (the property exempts a restart whose log has other sales of the day, or has dropped some) |
| `EntryProofs!LossesStopEntries` | `LossStopsEntries` | `InitialBalance > 0`, `MaxDailyLossPct > 0`: there is a limit |
| `EntryProofs!WeeklyBlocksHold` | `WeeklyBlockHolds` | `WeeklyLossPct > 0`: the breaker is on |
| `RecordProofs!TradesAreOnce` | `NoTradeTwice` | nothing |
| `RecordProofs!HoldingsAreWrittenOnce` | `BoughtOnce` | `MaxMishaps <= 1`, `FileTrades <= LogLimit` |
| `RecordProofs!BooksBalance` | `CashKept` | nothing |
| `RecordProofs!TradesAreRemembered` | `NoTradeForgotten` | nothing |
| `RecordProofs!RestartsFindThePositions` | `SettledRestart` | nothing |
| `MarketProofs!FilesKeepTheirBars` | `HistoryIsKept` | nothing |
| `MarketProofs!DecisionsSeeTheClosedBars` | `DecidesOnClosedBars` | `MaxStale <= 2`, and `[]NoLongOutage` |
| `MarketProofs!StandingNoticesHold` | `NoticesAreHeeded` | nothing |
| `MarketProofs!ReadingsKeepUp` | `SizesKeepUp` | nothing |
| `MarketProofs!RunsStand` | `PastStands` | nothing |
| `ReplayProofs!FillsStayFair` | `FillsAreFair` | `LocksClear`: a break-even trigger is off or at least 2 ‰, and the first stage of an entry is at least 2 ‰ above what it cost |
| `ReplayProofs!SimulatorStaysPaper` | `SimulatorIsPaper` | nothing |

`FoldLemmas` is the eighth module: what the folds and sums of the community modules compute, for
the proofs about records, sums and days. The library states induction for an operator; here it is
stated for a set, of naturals (`NatInductive`) or of the subsets of a finite set (`FiniteInductive`),
and from it follow that a fold over a sequence is what its steps make it (`FoldExists`), how a sum
changes when a member is taken or the members are renamed (`SumTakes`, `SumMoves`), that `Max` is
the greatest (`MaxIsGreatest`), and that an increasing choice among as many places as there are takes
them all (`PlacesFit`).

### Why each hypothesis is there

Each one excludes something the code really lets happen and that breaks the property; TLC
has shown the counterexample of each, and section 5 tells those that contradict a comment.

- `race`, `save`: a retried close in flight across a cycle's status read is planned again from
  the old status; a state file that could not be written forgets a gate at the next boot.
- `betweenFiles`: a fill saved with the position and not yet with its order is credited again
  by the first poll after the restart if the poll before a sale failed. `midSale`: a sale whose
  booking the crash took is sold again. `sale`: a leg that was sold without an answer is not
  restored but stays in the file, and a second restart can take the next order's coins for it.
  `Floor = 1`: a leg too small to be restored is dropped
  at boot, and between `DecideExit` and `MarkOrder` its exit goes with it while the order rests on.
- One bear label: `restrictTo = 'trend_only'`, the default, has one. With `'all_bear'` two labels
  that alternate reset each other's streak in `RegimeTracker.update`, and a bear market of any
  length is never confirmed.
- The environments of `RecordKept` are those in which none of the recorded disagreements
  (overlap, a failed ticker of a core leg, a failed balance read at boot) occurs.
- No satellites, for `BootReconciles`: a coin with a saved core leg and a saved satellite leg
  gets the smaller of each and the whole free balance (`liveTrader.js:318`), so both together
  may be given more than there is, if coins were lost.
- `MaxStale <= 2`: `maxCandleStalenessPeriods` of `src/config/default.js:29`. At three, a series whose
  newest bar is a period behind the last close is decided on.
- `NoLongOutage`: a fetch brings the newest `Window` bars. After an outage of exactly `Window`
  periods the bar that was fetched half-way is not among them and stays half a bar for ever;
  after a longer one there is a gap. With 200 bars of 12 hours that is 100 days. TLC refutes
  `DecidesOnClosedBars` without it and finds no violation with it (the proof's invariant was
  checked the same way, window 2, load 3, 577,521 states).

- `MaxMishaps <= 1`: with a lost save and then lost legs the restore finds coins that neither the
  memory nor the legs know, and writes a second BUY of them. `FileTrades <= LogLimit`: a log
  shorter than the file's trades would drop the BUY that opened a holding. The code keeps 100
  (`dashboardState.js:4`), and the restore does write a second BUY of a coin older than that
  whose leg is lost.
- `MaxDailyLossPct > 0`, `InitialBalance > 0`, `WeeklyLossPct > 0`: at 0 the code has no limit,
  and the two properties would ask for one (`riskManager.js:182`, `WeeklyBlocked`). Shipped: 5 %.
- `LocksClear`: a stop locks break-even at 2 ‰ over the entry, the fees of a round trip. A trigger
  nearer than that would set the stop over the price that pulled it, and the replay would sell there,
  above the bar's high: TLC refutes `FillsAreFair` with a trigger of 1 ‰. Shipped: a trigger of 10 %,
  and a first stage at half of a target of 18 % (`config/default.js:70`). `ReplayInv` holds
  without it, and `SimulatorStaysPaper` does not need it.

### The arguments

**LiveTrader.** Typing has one non-trivial part: quantities are naturals, so every
subtraction needs to know that a sale takes no more than there is; this comes from the
exchange (`Accepted`) and from `LeftAfter`. The lock is inductive as part of `LockInv`: typing,
`OneOrderPerMarket`, the same for the satellites' guard (`GuardExact`), and that a call is on a
leg of its kind (`CallsOnTheirLegs`). `TrackedBacked` is not inductive: when a sale is booked,
`qty` falls by what was filled and `unbooked` returns to zero, and nothing in it says that these
are the same number, or that the two legs' calls do not share an `unbooked`. `WalletInv` adds, for
each leg, that `unbooked` is exactly the fill of the one call suspended on it, that a sale's
order never exceeds the leg (`SaleOK`), that a buy's fill is already in the wallet (`BuyOK`), and
that the `Slack` of a market (what its wallet holds beyond legs and uncredited fills) is never
negative. With a lost answer the equality breaks: `CleanInv` is `WalletInv` under `faults = {}`.
`SellsItsOwnCoins` then follows step by step: only `LimitSell` and `MarketSell` take coins.

**WalletRestore.** `RecordKept` says that a leg is in memory or in the file. To be inductive it
needs to know where it is at each step of a restore: `KnownInv` (a process that is up has the
sleeve's coins in memory, one that is down has them in the file, one that boots has them in
memory or has the leg still `Waiting`), `SaveInv` (the file is the memory outside a restore, and
until a restore has restored something), `LegInv` (sleeve legs come before scalpers, each to an
empty place) and `ApartInv` (no call is suspended during a restore, which is where overlap
enters). The calls of `LiveTrader` are its steps (`CallsAreSteps`), so its `TypeOK` is reused.
`BootReconciles` needs what a booting process has already given away: `BootInv` says that there
is no call, that the wallet is the one the restore has read, and that at every leg the claims
cover the sleeve's leg, whether it is in memory or still `Reserved`, while the scalper's leg has
no more than the rest (`Covered`). Before the boot nothing needs to be true of the legs.

**SatelliteOrder.** `OrderInv` relates the book, memory, two files and the tick. Its core is
`CreditInv`: what was credited of an order is what `satellite_orders.json` says of it, except
between the two saves (`settle`), where it is the greater of what the order and the position
say. `TickInv` says what each step of a tick may know (a status read as closed is final, what it
read as filled is not more than is), `PlacingInv` that a placement has the key to itself, `FileInv`
what a restart will find, `CoinInv` that a sale finds its coins. The refinement has one step
per action: a credit is `OrderLedger`'s credit, `settle` forgets only what is credited in full,
all else stutters. `ExitInv` adds that the order's exit flag never outlives the position's.

**SignalAggregator.** The invariant is small: what is kept of the signals are signals, and a BUY that
was sent has the size `computePositionSize` gives on what it was sent on (`AggInv`). The rest is about the
operators. The weight behind a direction is a sum over the votes for it; take one vote out and the
others are where they were (`OneVote`, `OthersStay`), so a vote that turns to BUY, or a surer BUY, adds to
BUY's sum and takes from the others' (`TurnedTally`). A BUY is a sum above both others at a sufficient
confidence (`VotedBuy`), the count of votes is the same, so it stays one, at no less confidence
(`TurnedStays`), and the last decision asks no more of it (`TurnedBuys`). A size is a product of the
factors (`SizeIsChain`); each is no greater in a worse market or at a lower confidence, where the two
lines of `applyConfSizing` meet included (`FactorsOfConfidence`), and rounding down keeps the order
(`TimesGrow`), as does the floor (`FloorsGrow`).

**SleeveCycle.** `RetryInv` counts what is voted out and held, but for what had no vote, among the
flagged (`failed`) or still planned (`ToClose`); `VoteInv` keeps plans, flags and suspended retries
apart and says that each was voted out by the last vote; `GateInv` adds that the file is the
memory and that a coin waiting for its proof is gated, not held and not planned.

**EngineCycle.** `EngineInv` is typing, which places each phase allows (`PhaseInv`) and that an
entry in flight still has its slot and its partners (`SlotInv`): between the count of
`processEntries` and the order only sales happen. `BearInv` ties the count of bear readings, which
is auxiliary, to the tracker's streak; `AgeInv` says who has been asked when. `OldIsAged` proves
that the code's rounding of milliseconds to bars is the difference of the bars' numbers.

**CandleSeries.** `BarsInv`: files and series have only bars the market has printed, so a merge
keeps all of a file's. `SeriesInv`: a series has no gap and only its newest bar may be a part;
what a cycle fetched, and what a boot loaded, is exact. The lemmas are about `Newest`, `Tail` and
`Merge` of sets of periods, by the least number of a set (`LeastNat`) and finite cardinalities.

**SleeveLadder.** `LadderInv` is typing, `RungRatchets` and `BestDayKept`: the best finished day's
equity is among the points of the history, or the history was lost since. `selectSleeveRung` reads
the highest of the points (`MaxIsGreatest`), the points of older days are not written again, so
the rung it picks is at least that day's. The orders of a cycle are a fold over the coins, and keep
an account an account (`FoldStays`).

**RiskBrake.** The brake's own sum is reset at midnight and seeded at a restart, the log is cut
at its limit, and the properties speak of neither but of what was truly lost. `Told` says that the
auxiliary day sums are sums of the log as long as nothing was cut: of the engine's exits of today, and
of all sales since any day. A sale in front of the log moves all other entries one place
(`SumMoves`); a restart's sum is then the day's (`RestartReads`). `BrakeInv` adds that the manager's
sum is the day's unless a restart was misled (`skewed`).

**TradeLog.** `LogInv` says that the log, the saved state, the file, the page and every event on its
way are chronicles: well typed, of past times, no time and coin and side twice. `BoughtOnce` is not
about one record: `HoldInv` says that a coin whose holding is written down is
in the wallet, and held while the bot trades, `LegsInv` that a holding written down is known to the legs, `KnownInv` that the log, or the saved log
if nothing is due, still shows it or has it hushed. Each of the two keeps the restore from making up a
second BUY; one mishap can break one of them, never both (`BooksInv`).

**PaperTrader, PaperRestart.** Every method is a function from the book to a book and the rows it
writes. `Sound` says of an outcome that the new book is a book, that its worth changed by what was
realised (`KeepsWorth`), and that the rows retell the change of the positions; one lemma per method
proves it, and `DoWrites` makes of each step that trades the writing of a sound outcome. `PaperInv`
ties three records to each other and the book: `Traced` matches every trade of the memory and of
the saved state to a row of the file, one to one and ties newest first; outside a save the memory is what a
restart would load; and while no trade is missing, reading the record backwards gives the positions
(`Stands`). A restart merges the saved record with the rows (`TogetherIs`), and a trade more on the
record is a position grown or shrunk by it (`ReopenedGrows`). The pigeonhole is in `TracksAll`: a
record as long as the file, matched into it in order, is the file.

**Replay.** `ReplayInv` is about the account alone: it is one of `Accounts`, with a position of each
coin that is `Clear` (under `LocksClear`, its first stage is above its entry and fees) and a limit for each order that
rests. A scalper's bar is walked open, low, high, close. A price moves a stop only up, and to no more
than the price (`Tighter`, under `LocksClear`); so what is left after the open has its stop under the
open and its target over it (`Within`), and what is left after the low has its stop under the low. A
stop pulled up on the way can then be met only by a later price of the same bar, a target only by
the open or the high, and no fill is better than its price (`WayIsFair`, `ReplayBarIsFair`).
Satellites go by the cases of `SatelliteExit` and of a fill that is followed by an exit on its own
bar. Cycles and bars are folds over the coins whose every step stays in `Accounts`.
That the simulator stays the paper trader is a statement about one account, so each method is shown to
commute with `BookOf` (`SoldAlike`, `CheckRiskAlike`, `ExecuteAlike`, `GrowCoreAlike`, `SatelliteAlike`).
The two keep an entry in different fields: the simulator as the price it was opened at, the paper trader
as its cost by its quantity. They agree because the invariant says that without costs every lot of a
scalper or a satellite was bought at its entry (`Even`), and that a limit rests since before now
(`Rests`).

**WalkForward.** `ToldInv`: a span gives on today's tape what it gave when it was first run. Every run is
of a slice that ends with its span (`NoLookahead`), and spans end on the tape (`SpansEnd`).

**VenueNotices, MarketFeeds.** `HeedInv`: a cache of this period, fetched whole, has every older
notice of the page, and what a cycle knows is what the cache has seen. `FeedsInv`: no forming bar
is stored, and a NASDAQ cache holds the row that was newest when it was fetched.

### What stays with TLC

- Liveness under fairness, and ENABLED: `LockIsReleased`, `ExitHappens`, `CyclesGoOn`,
  `HangIsReported`, `ExitCompletes`, `PageCatchesUp`.
- `VotesMirror`: it compares the votes of twenty strategies on two readings, zone by zone, some of them
  through folds over the readings. It is not about steps, and a proof would repeat the table; not attempted.
- `SameTradesOtherwise`: it compares two programs that do one cycle, or one bar of all coins, in a step:
  two folds over the coins with different accounts in them. A proof needs a relation of the two accounts
  through each of the folds; `ReplayInv` is about one of them only.
- `CurveFollowsTheMarket`: a whole walk-forward report, of folds over bars and folds, is one step.
- `TrackedBacked` over `RestoreSpec`: provable in principle, not yet attempted.

## 5. Where code and documentation disagree

Four have a run that shows them (section 3):

- `short_history`: after a boot whose load of a coin failed, `updateCandles` replaces the series by
  each cycle's 200 bars (`dashboardState.js:203`): the full history of `engine.js:140-141` never
  comes back, and BTC has 199 closed bars, one short of its EMA 200.
- `never_back_up`: a day keeps its newest equity only (`equityHistory.js:51-54`), so a high that is
  lost within its day leaves no trace and the ladder steps up again (`config/default.js:797`).
- `fear_greed`: the mood is loaded once, at boot; from the next day on it is neutral
  (`main.js:773` against `:769`).
- `deleted_stays`: an entry removed from the saved log comes back from its row in `trades.csv`
  (`dashboardState.js:36` against `:61`).

Others were met while modelling. Most are the reason for a hypothesis of section 4, a fault or
an environment constant; a fault that is left out of a run's cfg can be put in to see it.

Orders and restarts:

- A balance read that fails after a sale leaves the leg with what it sold (`TrackedBacked` with
  `readAfterSale`), and calls that start while a restore awaits break it too (`overlap`).
- A failed ticker of a core leg at boot drops it from the record (`RecordKept` with `"core"`).
- A part fill under the floor keeps a satellite's exit from completing (`ExitCompletes`, `Floor > 1`).
- A satellite's sell that executed without an answer (`liveTrader.js:1051`, `:1071-1073`) leaves a leg
  with no coins. `:1073` says "retrying next tick", and each retry is of the stored quantity
  (`:1045-1047`) and is refused; the leg blocks its key until a restart. That restart does not
  restore it but does not rewrite `position_state.json` either (`:512`): when nothing else
  saves before a second crash, the leg comes back with the coins of the key's next order, whose
  fills are then taken for credited (`FillsCreditedOnce`, `MaxSatCrashes = 2`).
- A stale cycle forgets the sleeve's retry flags; a close that fills in part is taken for done
  (`StuckExitIsRetried` exempts both); the partial-exit flag survives an order that was skipped
  (`liveTrader.js:162`); a sleeve cycle 12 hours late counts as one (`engine.js:838-850` against `:847`).
- A rung change re-risks coins the ladder dropped and leaves orphans as they are.
- A paper restart loses the cash reserved by resting orders (`main.js:591`), and takes the balance
  of the newest row of a list whose newest trade may be an old one (`main.js:589`): after a kill
  within the save's 500 ms a lost BUY reopens with the cash from before it.
- The daily brake is seeded from all SELLs of the log, those of the sleeve, manual closes and smoke
  tests included, though only the engine's exits feed it while it runs (`engine.js:736-739`,
  `docs/TECHNICAL.md:189`, `:441`). A deposit recorded a day late counts as performance
  (`timeWeightedReturn.js:14-16`).
- After a host suspend the breakout cycle may start before the 12h cycle (`main.js:852-861`).
- A second lost save together with lost legs would buy a holding twice (`BoughtOnce` with two
  mishaps); a reset's `clearHistory` is debounced and may be undone by a kill; a smoke test's sale
  may sell a position that was bought again during its hold; "No-ops after the first write each
  day" (`main.js:820-821`) is not what `equityHistory.js` does.

Decisions:

- The memory of the last decision does not know which bar it was made on: the boot's evaluation and
  the first cycle's see the same bars and confirm each other.
- Twitter's numeric stamps never expire; an agreeing external vote under the average lowers the
  confidence of the others; the loosening by fear never admits an entry (`docs/STRATEGY.md:150-151`);
  sizes may exceed `maxPositionPct` up to 3.9 times; the 4h momentum score is off by one at exactly
  21 bars; an empty MTF reply keeps old bars (`engine.js:722-724`); "any failure is neutral"
  (`engine.js:806`) does not hold of a NASDAQ cache, which has no age limit (`nasdaqTrend.js:54`);
  NASDAQ and mood fetches have no timeout.
- `supertrend.js`'s header promises a continuation vote of 0.50 and more, the code holds at 0.1.

Replays and folds:

- `Differing` exempts where the two replays are known to part: a coin sold by aging or a stop at the
  cycle that the backtester buys again; a refused BUY on a held coin, whose stops only the
  backtester meets; distances taken from a fill with its costs. The engine replay has no intrabar
  stops for a coin without 15m bars, decides on old bars for a coin without one, and alone has the
  daily brake (against `liveParityInventory.test.js:291-295`). Its breakout order can fill in the
  first minute of its bar.
- A fold's last bar is the next one's first (`walkForward.js:66` says "no overlap"); a trade's P&L of
  the training part is counted while the curve's is not (`:286`); Monte Carlo uses unscaled trades
  (`:180`); stress windows take a rally for a drawdown (`baselineFramework.js:284-290`).

## 6. What is left out, and why

- Meta overlay, market context, correlations, regime labels, entry signals of the satellites:
  floating-point functions; where they decide something their result is a free choice.
- Wording, logging, charts, notifications, the telegram and webhook transports, network I/O.
- Parameter searches, reports, Monte Carlo and stress windows: functions of finished results.
- The legs' `.bak` file, rebuilt stop levels, kills between two synchronous statements except where
  a module has a fault for it (a core buy before its save, `liveTrader.js:858`; a satellite
  placement before its save, `:932`: not modelled).
- A file of candles written by the bot and the download script at once.
- Properties of parts that hold by the shape of a single rule (a stop only rises, legs fit their
  slots, strongest coin first) have no run.

## 7. Plan

The system is modelled and its main safety invariants are proved. Next, in order:

1. `TrackedBacked` over `RestoreSpec` in an environment that loses nothing and has no overlap: needs
   that saved legs, claims and uncredited fills together stay within the wallet over restarts.
2. `SameTradesOtherwise`: a relation of the two accounts through the folds over the coins.
3. `CurveFollowsTheMarket`: needs the fold lemmas over the bars of a fold, and the stitching of folds as
   a sum.
4. `CycleClock`: the safety part of `HangIsReported` (an alert only after a threshold, one alert a
   stall).
5. The MTF cache of `engine.js:710-731` as a part of `CandleSeries`.
