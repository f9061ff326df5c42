------------------------------ MODULE Simulator ------------------------------
(***************************************************************************)
(* src/src/backtester/backtestSimulator.js: the account a backtest trades   *)
(* on.  It is the paper account (PaperTrader) with the exchange's costs, a   *)
(* clock that the replay sets, and bars: a bar is met as the ticks open,     *)
(* low, high, close.  Every method is a function of the account; it returns  *)
(* the account it leaves and the fills it made on its way.                   *)
(*                                                                          *)
(* A fill keeps the price of the market at which it was made; what was paid  *)
(* or got for it is that price with the costs.  Times count 15m bars.        *)
(***************************************************************************)
EXTENDS StopRules, Sequences, FiniteSets, TLC

CONSTANTS
  Scalpers, Cores, Satellites,   \* position keys: 'SYM', 'SYM#core', 'SYM#bo'
  Coin,                          \* the market of a key
  InitialBalance, MaxPositionPct, Floor,
  TimeLimit,                     \* bars a satellite may be held
  HourBars,                      \* 15m bars of an hour
  \* Of the paper account only.
  Prices, Atrs, Allocations, Signals

Paper == INSTANCE PaperTrader
Keys  == Scalpers \cup Cores \cup Satellites

ASSUME SimulatorAssumption ==
  /\ IsFiniteSet(Keys) /\ Coin \in [Keys -> Scalpers]
  /\ Scalpers \cap Cores = {} /\ Scalpers \cap Satellites = {} /\ Cores \cap Satellites = {}
  /\ InitialBalance \in Nat /\ MaxPositionPct \in 0 .. 1000 /\ Floor \in Nat \ {0}
  /\ TimeLimit \in Nat \ {0} /\ HourBars \in Nat \ {0}
  /\ Prices \subseteq Nat \ {0}

Flat == [qty |-> 0, cost |-> 0, entry |-> 0, ref |-> 0, stop |-> 0, initial |-> 0,
         target |-> 0, high |-> 0, partialDone |-> FALSE, tierDue |-> FALSE, since |-> 0]
NoOrder == [reserve |-> 0, limit |-> 0, stop |-> 0, placedAt |-> 0, validUntil |-> 0]

\* A new account, with its fee and its slippage per mille.
NewAccount(fee, slip) ==
  [fee |-> fee, slip |-> slip, balance |-> InitialBalance, reserved |-> 0, pnl |-> 0,
   positions |-> [k \in Keys |-> Flat], pending |-> [k \in Satellites |-> NoOrder]]

Held(s, k)    == s.positions[k].qty > 0
Waiting(s, k) == k \in Satellites /\ s.pending[k].reserve > 0

Step(s, fills) == [sim |-> s, fills |-> fills]
Nothing(s)     == Step(s, <<>>)
Fill(side, k, price, reason) == [side |-> side, key |-> k, price |-> price, reason |-> reason]

\* What a lot costs, and what it brings, at a market price.
Paid(s, price) == price + Part(price, s.fee + s.slip)
Got(s, price)  == price - Part(price, s.fee + s.slip)

Deposit(s, amount) == [s EXCEPT !.balance = @ + amount]

-----------------------------------------------------------------------------
(* Opening and closing. *)

Bought(s, k, p) == [s EXCEPT !.balance = @ - p.cost, !.positions[k] = p]

\* Sells lots of a position; their share of its cost goes with them.
Sold(s, k, lots, price) ==
  LET p     == s.positions[k]
      basis == IF lots = p.qty THEN p.cost ELSE lots * (p.cost \div p.qty)
  IN [s EXCEPT !.balance = @ + lots * Got(s, price),
               !.pnl = @ + (lots * Got(s, price) - basis),
               !.positions[k] = IF lots = p.qty THEN Flat
                                ELSE [p EXCEPT !.qty = @ - lots, !.cost = @ - basis]]

Close(s, k, price, reason) ==
  IF ~Held(s, k) THEN Nothing(s)
  ELSE Step(Sold(s, k, s.positions[k].qty, price), <<Fill("SELL", k, price, reason)>>)

\* The stop and the target the caller gives, or (0) those of the configuration; the rules
\* measure from `ref`, the fill without its fee.
Open(s, k, price, stop, target, atr, now) ==
  LET paid  == Paid(s, price)
      lots  == Part(s.balance, MaxPositionPct) \div paid
      first == IF stop > 0 THEN stop ELSE FirstStop(paid, atr)
      p     == [Flat EXCEPT !.qty = lots, !.cost = lots * paid, !.entry = paid,
                            !.ref = price + Part(price, s.slip),
                            !.stop = first, !.initial = first,
                            !.target = IF target > 0 THEN target ELSE FirstTarget(paid, atr),
                            !.high = paid, !.since = now]
  IN IF Held(s, k) \/ lots * paid < Floor THEN Nothing(s)
     ELSE Step(Bought(s, k, p), <<Fill("BUY", k, price, "entry")>>)

-----------------------------------------------------------------------------
(* The scalper's stops. *)

PartialClose(s, k, price) ==
  LET half == s.positions[k].qty \div 2
  IN IF half = 0 THEN Nothing(s)
     ELSE Step(Sold(s, k, half, price), <<Fill("SELL", k, price, "partial")>>)

\* One step and then another, on the account the first has left.
After(step, next) == Step(next.sim, step.fills \o next.fills)

\* The trailing stop, then break-even.
Moved(s, k, price) ==
  [s EXCEPT !.positions[k] = BreakEvened(Trailed(@, @.ref, price), @.ref, price)]

Staged(s, k, price) ==
  IF ~PartialDue(s.positions[k], s.positions[k].entry, price) THEN Nothing(s)
  ELSE LET half == PartialClose(s, k, price)
       IN Step([half.sim EXCEPT !.positions[k] = Remainder(@, @.entry)], half.fills)

\* A price that a bar crosses on its way (`crossed`) fills an exit at the level; a tick, and
\* a bar's open, fill it at the price.
Exited(step, k, price, crossed) ==
  LET p     == step.sim.positions[k]
      why   == ExitReason(p, price)
      level == IF ~crossed THEN price ELSE IF why = "take_profit" THEN p.target ELSE p.stop
  IN IF why = "none" THEN step ELSE After(step, Close(step.sim, k, level, why))

\* #checkRisk.
CheckRisk(s, k, price, crossed) ==
  IF Held(s, k) /\ k \in Scalpers
  THEN Exited(Staged(Moved(s, k, price), k, price), k, price, crossed)
  ELSE Nothing(s)

\* The next price of a bar, while the position is open.
Along(step, k, price) ==
  IF Held(step.sim, k) THEN After(step, CheckRisk(step.sim, k, price, TRUE)) ELSE step

\* Mutant of ReplayBar: the bar's high comes before its low.
ReplayBarHighFirst(s, k, bar) ==
  Along(Along(Along(CheckRisk(s, k, bar.open, FALSE), k, bar.high), k, bar.low), k, bar.close)

\* One bar's path: open, low, high, close.
ReplayBar(s, k, bar) ==
  Along(Along(Along(CheckRisk(s, k, bar.open, FALSE), k, bar.low), k, bar.high), k, bar.close)

Act(s, k, decision, price, stop, target, atr, now) ==
  CASE decision = "BUY"  -> Open(s, k, price, stop, target, atr, now)
    [] decision = "SELL" -> Close(s, k, price, "strategy_sell")
    [] OTHER             -> Nothing(s)

\* Mutant of Execute: the decision is taken also after a stop.
ExecuteAfterStop(s, k, decision, price, stop, target, atr, now) ==
  LET risk == CheckRisk(s, k, price, FALSE)
  IN After(risk, Act(risk.sim, k, decision, price, stop, target, atr, now))

\* execute: the stops first; a decision only when none fired.
Execute(s, k, decision, price, stop, target, atr, now) ==
  LET risk == CheckRisk(s, k, price, FALSE)
  IN IF Held(s, k) /\ ~Held(risk.sim, k) THEN risk
     ELSE After(risk, Act(risk.sim, k, decision, price, stop, target, atr, now))

-----------------------------------------------------------------------------
(* The core sleeve. *)

OpenCore(s, k, price, allocation, now) ==
  LET paid == Paid(s, price)
      lots == Min({allocation, s.balance}) \div paid
      p    == [Flat EXCEPT !.qty = lots, !.cost = lots * paid, !.entry = paid, !.high = paid,
                           !.since = now]
  IN IF Held(s, k) \/ lots * paid < Floor THEN Nothing(s)
     ELSE Step(Bought(s, k, p), <<Fill("BUY", k, price, "core")>>)

CloseCore(s, k, price) == Close(s, k, price, "core")

GrowCore(s, k, price, delta) ==
  LET paid == Paid(s, price)
      lots == Min({delta, s.balance}) \div paid
      p    == s.positions[k]
      cost == p.cost + lots * paid
  IN IF ~Held(s, k) \/ lots * paid < Floor THEN Nothing(s)
     ELSE Step([s EXCEPT !.balance = @ - lots * paid,
                         !.positions[k] = [p EXCEPT !.qty = @ + lots, !.cost = cost,
                                                    !.entry = cost \div (p.qty + lots)]],
               <<Fill("BUY", k, price, "resize")>>)

\* A trim of all that is left is a close.
TrimCore(s, k, price, delta) ==
  LET lots == Min({delta \div price, s.positions[k].qty})
  IN IF ~Held(s, k) \/ lots * price < Floor THEN Nothing(s)
     ELSE IF lots = s.positions[k].qty THEN CloseCore(s, k, price)
     ELSE Step(Sold(s, k, lots, price), <<Fill("SELL", k, price, "resize")>>)

-----------------------------------------------------------------------------
(* The satellites. *)

PlaceSatelliteOrder(s, k, limit, stop, size, now, validUntil) ==
  LET reserve == Min({size, s.balance})
  IN IF Held(s, k) \/ Waiting(s, k) \/ reserve < Floor THEN s
     ELSE [s EXCEPT !.balance = @ - reserve, !.reserved = @ + reserve,
                    !.pending[k] = [reserve |-> reserve, limit |-> limit, stop |-> stop,
                                    placedAt |-> now, validUntil |-> validUntil]]

CancelSatelliteOrder(s, k) ==
  [s EXCEPT !.balance = @ + s.pending[k].reserve, !.reserved = @ - s.pending[k].reserve,
            !.pending[k] = NoOrder]

\* A resting buy is a maker's: it fills at its limit and pays the fee alone.  Of the bar
\* that fills it only the low counts, against the stop.
FillSatellite(s, k, bar, t) ==
  LET o    == s.pending[k]
      each == o.limit + Part(o.limit, s.fee)
      lots == o.reserve \div each
      plan == SatellitePlan(o.limit, o.stop)
      p    == [Flat EXCEPT !.qty = lots, !.cost = lots * each, !.entry = o.limit, !.since = t,
                           !.stop = plan.stop, !.initial = plan.initial, !.target = plan.target,
                           !.high = plan.high]
      c    == Bought(CancelSatelliteOrder(s, k), k, p)
      buy  == <<Fill("BUY", k, o.limit, "satellite")>>
      exit == Close(c, k, Min({o.stop, bar.open}), "sat_stop")
  IN IF bar.low <= o.stop THEN Step(exit.sim, buy \o exit.fills)
     ELSE Step([c EXCEPT !.positions[k].high = Max({o.limit, bar.close})], buy)

\* replaySatelliteBar: an order expires or fills; a position runs its plan from the bar
\* after its fill.  `rsiWeak`: the hour this bar closes has its RSI under the tier.
SatelliteBar(s, k, bar, t, rsiWeak) ==
  LET o   == s.pending[k]
      p   == s.positions[k]
      obs == [open |-> bar.open, low |-> bar.low, high |-> bar.high, close |-> bar.close,
              late |-> t >= p.since + TimeLimit,
              weak |-> rsiWeak /\ (t + 1) % HourBars = 0 /\ bar.close > p.entry]
      exit == SatelliteExit(p, p.entry, obs)
  IN IF Waiting(s, k)
     THEN IF t < o.placedAt THEN Nothing(s)
          ELSE IF t >= o.validUntil THEN Nothing(CancelSatelliteOrder(s, k))
          ELSE IF bar.low > o.limit THEN Nothing(s)
          ELSE FillSatellite(s, k, bar, t)
     ELSE IF ~Held(s, k) \/ t <= p.since THEN Nothing(s)
     ELSE IF exit.reason = "none"
          THEN Nothing([s EXCEPT !.positions[k] = SatelliteKept(p, p.entry, obs)])
          ELSE Close(s, k, exit.price, exit.reason)
===============================================================================
