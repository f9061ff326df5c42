--------------------------- MODULE PortfolioReplay ---------------------------
(***************************************************************************)
(* src/src/backtester/portfolioBacktester.js (run) beside the engine replay *)
(* on the same history: the same bars, votes, prices and refusals.  It      *)
(* steps from cycle to cycle: the bars of the period that ended, then the   *)
(* cycle.  It has no sleeves, so it runs when the replay has none.           *)
(***************************************************************************)
EXTENDS EngineReplay

CONSTANT Overridden   \* scalpers with stop and target distances of their own (perSymbol)

ASSUME PortfolioAssumption == Overridden \subseteq Scalpers

VARIABLES
  account,   \* the backtester's simulator, as its last step left it
  past,      \* the bars of a coin since, each with the time it began
  owed,      \* the deposits since
  parity     \* auxiliary: what the last cycle left: the same account, or one that differs

pairVars == <<replayVars, account, past, owed, parity>>

PairInit ==
  /\ ReplayInit
  /\ account = sim /\ past = [k \in Scalpers |-> <<>>]
  /\ owed = 0 /\ parity = "same"

-----------------------------------------------------------------------------
(* One step of run, on the account s. *)

\* Mutant of ReplayPast: a position does not meet the bar it was opened in.
ReplayPastAfterEntry(s, k) ==
  FoldLeft(LAMBDA x, b : IF Held(x, k) /\ b.t > x.positions[k].since
                         THEN ReplayBar(x, k, b.bar).sim ELSE x, s, past[k])

\* The stops on the bars of the period: from the position's entry, until one sells it.
ReplayPast(s, k) ==
  FoldLeft(LAMBDA x, b : IF Held(x, k) /\ b.t >= x.positions[k].since
                         THEN ReplayBar(x, k, b.bar).sim ELSE x, s, past[k])

Decided(s, k, decision, p) == Execute(s, k, decision, p, 0, 0, 0, t).sim

SellAged(s, k, c) == IF Aged(s, k) THEN Decided(s, k, "SELL", c.price[k]) ELSE s

\* A BUY waits in the queue; the coin's stops are met at once.
ActOn(s, k, c) ==
  IF ~Held(s, k) THEN s
  ELSE Decided(s, k, IF c.decision[k] = "BUY" THEN "HOLD" ELSE c.decision[k], c.price[k])

BuyQueued(s, k, c) ==
  IF Refused(k, c) \/ Held(s, k) \/ Taken(s) >= MaxOpen THEN s
  ELSE IF k \in Overridden THEN Order(s, k, "BUY", c.price[k])
  ELSE Decided(s, k, "BUY", c.price[k])

PortfolioStep(s, paid, c) ==
  LET stopped == ForAll(s, ReplayPast)
      cash    == Deposit(ForAll(stopped, LAMBDA x, k : CashExit(x, k, c)), paid)
      aged    == ForAll(cash, LAMBDA x, k : SellAged(x, k, c))
      acted   == ForAll(aged, LAMBDA x, k : ActOn(x, k, c))
  IN FoldLeft(LAMBDA x, k : BuyQueued(x, k, c), acted, c.queue)

-----------------------------------------------------------------------------
(* Where the two are known to differ: a coin held at the cycle with a BUY.  *)

HeldBuys(c) == {k \in Scalpers : c.decision[k] = "BUY" /\ Held(sim, k) /\ c.regime # "turned"}

\* The cycle has sold it: the backtester's queue finds it free and buys it again, runCycle
\* has returned.  The entry is refused: only the backtester has met its stops.  And a coin
\* without distances of its own has them from the fill with its costs in the backtester.
Differing(c) ==
  \/ \E k \in HeldBuys(c) : Refused(k, c) \/ ~Held(RunCycle(sim, k, c), k)
  \/ sim.fee + sim.slip > 0 /\ \E k \in Scalpers \ Overridden : Held(sim', k) /\ ~Held(sim, k)

\* Both make the cycle.  They start the next period from the replay's account, so that each
\* cycle is compared on its own.
PairCycle(c) ==
  /\ Cycle(c)
  /\ parity' = IF sleeves \/ PortfolioStep(account, owed, c) = sim' THEN "same"
               ELSE IF Differing(c) THEN "known" ELSE "differs"
  /\ account' = IF sleeves THEN account ELSE sim'
  /\ past' = [k \in Scalpers |-> <<>>] /\ owed' = 0

PairBars(bar, weak) ==
  /\ CloseBars(bar, weak)
  /\ past' = [k \in Scalpers |-> IF sleeves \/ k \notin Coins \/ bar[k] = NoBar THEN past[k]
                                 ELSE Append(past[k], [t |-> t, bar |-> bar[k]])]
  /\ parity' = "same" /\ UNCHANGED <<account, owed>>

PairPayIn(amount) ==
  /\ PayIn(amount)
  /\ owed' = IF sleeves THEN 0 ELSE owed + amount
  /\ UNCHANGED <<account, past, parity>>

PairNext ==
  \/ \E bar \in [Coins -> Bars \cup {NoBar}], weak \in BOOLEAN :
       (\A k \in Coins : price[k] \in {0, bar[k].open}) /\ PairBars(bar, weak)
  \/ \E amount \in Amounts : PairPayIn(amount)
  \/ \E d \in Votes : \E c \in CyclesOf(d) : PairCycle(c)
  \/ SleeveStep /\ UNCHANGED <<account, past, owed, parity>>

PairSpec == PairInit /\ [][PairNext]_pairVars

-----------------------------------------------------------------------------
(* Properties. *)

\* No fill is better than its bar: whatever bar an account of the replay meets, a stop sells
\* inside the bar and never over the open of a bar that opened under it, and a bar that
\* touches the stop it brought, opening under the target, never pays the target.
\* (replayBar and replaySatelliteBar: low before high.)
FillsAreFair ==
  stage = "bars" => \A k \in Scalpers \cup Satellites, bar \in Bars :
    LET p    == sim.positions[k]
        step == IF k \in Scalpers THEN ReplayBar(sim, k, bar) ELSE SatelliteBar(sim, k, bar, t, FALSE)
    IN \A i \in DOMAIN step.fills :
         LET f == step.fills[i] IN
         /\ f.price >= bar.low
         /\ f.side = "SELL" =>
              /\ f.price <= bar.high
              /\ p.qty > 0 /\ bar.open <= p.stop => f.price <= bar.open
              /\ p.qty > 0 /\ bar.low <= p.stop /\ bar.open < p.target
                   => f.reason \notin {"take_profit", "sat_target"}

\* The book of the paper account that stands where an account of the replay does.
BookOf(s) ==
  LET ofPaper(p) == [qty |-> p.qty, cost |-> p.cost, stop |-> p.stop, initial |-> p.initial,
                     target |-> p.target, high |-> p.high, partialDone |-> p.partialDone,
                     tierDue |-> p.tierDue]
      ofOrder(o) == [reserve |-> o.reserve, limit |-> o.limit, stop |-> o.stop]
  IN [balance |-> s.balance, reserved |-> s.reserved, pnl |-> s.pnl,
      positions |-> [k \in Keys |-> ofPaper(s.positions[k])],
      pending |-> [k \in Satellites |-> ofOrder(s.pending[k])]]

\* Without costs, a tick, a decision, an order or a flat bar does to an account of the replay
\* what it does to the paper account.  (orderContract.test.js, satelliteContract.test.js, in
\* every account reached and not in one scenario.)
SimulatorIsPaper ==
  stage = "bars" /\ sim.fee + sim.slip = 0 =>
    \A p \in Prices :
      LET book == BookOf(sim)
          flat == [open |-> p, low |-> p, high |-> p, close |-> p]
      IN /\ \A k \in Scalpers, d \in {"BUY", "SELL", "HOLD"} :
              BookOf(Execute(sim, k, d, p, 0, 0, 0, t).sim) = Paper!Execute(book, k, d, p, 0).book
         /\ \A k \in Cores, a \in Allocations :
              /\ BookOf(OpenCore(sim, k, p, a, t).sim) = Paper!OpenCore(book, k, p, a).book
              /\ BookOf(GrowCore(sim, k, p, a).sim) = Paper!GrowCore(book, k, p, a).book
              /\ BookOf(TrimCore(sim, k, p, a).sim) = Paper!TrimCore(book, k, p, a).book
         /\ \A k \in Satellites :
              LET o == sim.pending[k]
                  late == IF Waiting(sim, k) THEN t >= o.validUntil
                          ELSE t >= sim.positions[k].since + TimeLimit
              IN Waiting(sim, k) \/ t > sim.positions[k].since =>
                   BookOf(SatelliteBar(sim, k, flat, t, FALSE).sim)
                     = Paper!SatelliteTick(book, k, p, IF late THEN "late" ELSE "tick").book

\* From the same account, the backtester and the replay leave the same account at the end of
\* a cycle, position for position, except where they are known to differ.
SameTradesOtherwise == parity # "differs"
===============================================================================
