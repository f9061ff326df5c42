---------------------------- MODULE EngineReplay ----------------------------
(***************************************************************************)
(* src/src/backtester/engineReplay.js: history through the engine that live *)
(* runs.  At every event of its clock the 15m bars that have closed are met *)
(* first, then deposits are paid in, then the 12h cycle decides, then the   *)
(* breakout satellite; orders go to the Simulator (SimOrderHandler).        *)
(*                                                                          *)
(* The replay is one thread, so a cycle is one step.  What the strategies   *)
(* vote, which entries the gates and brakes refuse and what regime BTC is   *)
(* in are free choices.  A bar that nothing holds or waits for is not       *)
(* chosen: no one reads it.                                                 *)
(***************************************************************************)
EXTENDS Simulator, SequencesExt

CONSTANTS
  Costs,                  \* [fee, slip] of the account
  Bars,                   \* 15m bars
  PeriodBars,             \* 15m bars of a 12h bar
  MaxOpen, MaxAge,        \* risk.maxOpenPositions, positionAgingExit.maxAgeBars
  Amounts,                \* deposits
  Breakouts,              \* signals: the reference price, the stop, the share of the equity
  OffsetPct, MaxRiskPct,  \* limitOffsetPct and maxStopPct of a satellite
  MaxBars                 \* bound: the replay's last bar

ASSUME ReplayAssumption ==
  /\ \A b \in Bars : /\ b.open \in Nat /\ b.low \in Nat \ {0} /\ b.high \in Nat /\ b.close \in Nat
                      /\ b.low <= b.open /\ b.low <= b.close /\ b.high >= b.open /\ b.high >= b.close
  /\ PeriodBars \in Nat \ {0} /\ MaxOpen \in Nat /\ MaxAge \in Nat \ {0}
  /\ \A c \in Costs : {c.fee, c.slip} \subseteq 0 .. 499
  /\ MaxBars \in Nat /\ Amounts \subseteq Nat /\ Allocations \subseteq Nat
  /\ {OffsetPct, MaxRiskPct} \subseteq 0 .. 999
  /\ \A b \in Breakouts : {b.ref, b.stop, b.want} \subseteq Nat

VARIABLES
  sleeves,   \* config: the core sleeve and the satellites run beside the scalper
  t,         \* 15m bars closed since fromTs
  stage,     \* what the event loop does next
  price,     \* where a coin's next bar opens, as the cycle has shown; 0 when it has not
  sim,       \* the account
  deposited  \* auxiliary: what was paid in

replayVars == <<sleeves, t, stage, price, sim, deposited>>

Opens   == {b.open : b \in Bars}
Unknown == [k \in Scalpers |-> 0]

ScalperSeq == SetToSeq(Scalpers)
KeySeq     == SetToSeq(Keys)

ReplayInit ==
  /\ sleeves \in BOOLEAN
  /\ t = 0 /\ stage = "cycle" /\ deposited = 0
  /\ price = Unknown
  /\ sim \in {NewAccount(c.fee, c.slip) : c \in Costs}

-----------------------------------------------------------------------------
(* One coin in the engine's cycle, on the account s.  `c` is the cycle: the  *)
(* prices, the decisions (for a held coin after resolveDecision), the order  *)
(* of the entries, those refused, and the regime.                            *)

\* SimOrderHandler.execute.
Order(s, k, decision, p) ==
  Execute(s, k, decision, p, p - Part(p, StopPct), p + Part(p, TargetPct), 0, t).sim

Aged(s, k) == Held(s, k) /\ (t - s.positions[k].since) \div PeriodBars >= MaxAge

\* The bear policy's sale of all scalper positions.
CashExit(s, k, c) == IF c.regime = "turned" THEN Order(s, k, "SELL", c.price[k]) ELSE s

Refused(k, c) == k \in c.refused \/ c.regime # "calm"

\* runCycle: an aging exit ends the coin's cycle; what is not an entry is executed at once,
\* a held coin's BUY only when nothing refuses it.
RunCycle(s, k, c) ==
  IF Aged(s, k) THEN Order(s, k, "SELL", c.price[k])
  ELSE IF ~Held(s, k) \/ (c.decision[k] = "BUY" /\ Refused(k, c)) THEN s
  ELSE Order(s, k, c.decision[k], c.price[k])

Taken(s) == Cardinality({k \in Scalpers : Held(s, k)})

\* completeCycle of an entry.
Enter(s, k, c) ==
  IF Refused(k, c) \/ Taken(s) >= MaxOpen THEN s ELSE Order(s, k, "BUY", c.price[k])

ForAll(s, Do(_, _)) == FoldLeft(Do, s, ScalperSeq)

\* runAllSymbols, to the sleeve: the entries are of coins that were not held.
EngineCycle(s, c) ==
  LET a == ForAll(s, LAMBDA x, k : CashExit(x, k, c))
      b == ForAll(a, LAMBDA x, k : RunCycle(x, k, c))
      enters(k) == c.decision[k] = "BUY" /\ ~Held(a, k)
  IN FoldLeft(LAMBDA x, k : IF enters(k) THEN Enter(x, k, c) ELSE x, b, c.queue)

-----------------------------------------------------------------------------
(* The event loop. *)

Coins == {Coin[k] : k \in {k \in Keys : Held(sim, k) \/ Waiting(sim, k)}}
NoBar == [open |-> 0]

\* A bar that has just closed: a stop is met on a bar that began at the position's
\* entry or later.  NoBar is a hole in the coin's series.
MeetBar(s, k, bar, weak) ==
  IF bar = NoBar THEN s
  ELSE IF k \in Scalpers
       THEN IF Held(s, k) /\ t >= s.positions[k].since THEN ReplayBar(s, k, bar).sim ELSE s
  ELSE IF k \in Satellites THEN SatelliteBar(s, k, bar, t, weak).sim
  ELSE s

CloseBars(bar, weak) ==
  /\ stage = "bars" /\ t < MaxBars
  /\ sim' = FoldLeft(LAMBDA s, k : IF Coin[k] \in Coins THEN MeetBar(s, k, bar[Coin[k]], weak) ELSE s,
                      sim, KeySeq)
  /\ t' = t + 1 /\ price' = Unknown
  /\ stage' = IF (t + 1) % PeriodBars = 0 THEN "cycle" ELSE IF sleeves THEN "breakout" ELSE "bars"
  /\ UNCHANGED <<sleeves, deposited>>

PayIn(amount) ==
  /\ stage = "cycle" \/ (stage = "bars" /\ t % PeriodBars # 0)
  /\ deposited = 0
  /\ sim' = Deposit(sim, amount) /\ deposited' = amount
  /\ UNCHANGED <<sleeves, t, stage, price>>

Cycle(c) ==
  /\ stage = "cycle" /\ (sleeves => t < MaxBars)
  /\ sim' = EngineCycle(sim, c) /\ price' = c.price
  /\ stage' = IF sleeves THEN "sleeve" ELSE "bars"
  /\ UNCHANGED <<sleeves, t, deposited>>

\* The sleeve's order for a coin, at the cycle's price, when it has one.
Sleeve(k, step) ==
  /\ stage = "sleeve" /\ price[Coin[k]] > 0
  /\ step # Nothing(sim) /\ sim' = step.sim
  /\ stage' = "breakout"
  /\ UNCHANGED <<sleeves, t, price, deposited>>

SleeveRests ==
  /\ stage = "sleeve"
  /\ stage' = "breakout"
  /\ UNCHANGED <<sleeves, t, price, sim, deposited>>

\* planSatelliteEntry: an order under the reference price, with its stop under it but not
\* too far; planned only when it is worth an order.
Limit(signal) == signal.ref - Part(signal.ref, OffsetPct)
Planned(signal, free) ==
  /\ signal.stop > 0 /\ signal.stop * 1000 < Limit(signal) * 998
  /\ (Limit(signal) - signal.stop) * 1000 <= Limit(signal) * MaxRiskPct
  /\ Min({signal.want, free}) >= Floor

\* runSatelliteCycle: an order for a coin with none and no position; it stands one bar of
\* the breakout's time frame.
Breakout(k, signal) ==
  /\ stage = "breakout" /\ ~Held(sim, k) /\ ~Waiting(sim, k) /\ Planned(signal, sim.balance)
  /\ sim' = PlaceSatelliteOrder(sim, k, Limit(signal), signal.stop,
                                Min({signal.want, sim.balance}), t, t + PeriodBars)
  /\ stage' = "bars"
  /\ UNCHANGED <<sleeves, t, price, deposited>>

\* No signal, or one refused.
BreakoutRests ==
  /\ stage = "breakout"
  /\ stage' = "bars"
  /\ UNCHANGED <<sleeves, t, price, sim, deposited>>

\* Without the sleeves the replay trades all coins, with them one.
Traded == IF sleeves THEN {CHOOSE k \in Scalpers : TRUE} ELSE Scalpers
Decisions(k) == IF k \notin Traded THEN {"HOLD"}
                ELSE IF Held(sim, k) THEN {"BUY", "SELL", "HOLD"} ELSE {"BUY", "HOLD"}
Core   == {k \in Cores : Coin[k] \in Traded}
Bo     == {k \in Satellites : Coin[k] \in Traded}

\* What a cycle may bring.  A coin that is neither held nor bought needs no price, and a
\* regime that blocks every entry no refusals.
Priced(d) == {k \in Scalpers : k \in Coins \/ d[k] = "BUY" \/ (sleeves /\ k \in Traded)}
Votes     == {d \in [Scalpers -> {"BUY", "SELL", "HOLD"}] : \A k \in Scalpers : d[k] \in Decisions(k)}
CyclesOf(d) ==
  LET wanted == {k \in Scalpers : d[k] = "BUY"} IN
  {[decision |-> d, refused |-> r, queue |-> q, regime |-> g,
    price |-> [k \in Scalpers |-> IF k \in Priced(d) THEN p[k] ELSE 0]] :
     p \in [Priced(d) -> Opens], q \in SetToSeqs(wanted), r \in SUBSET wanted,
     g \in {"calm", "bear", "turned"}}

SleeveStep ==
  \/ \E k \in Core :
       \/ \E a \in Allocations :
            \/ Sleeve(k, OpenCore(sim, k, price[Coin[k]], a, t))
            \/ Sleeve(k, GrowCore(sim, k, price[Coin[k]], a))
            \/ Sleeve(k, TrimCore(sim, k, price[Coin[k]], a))
       \/ Sleeve(k, CloseCore(sim, k, price[Coin[k]]))
  \/ SleeveRests
  \/ \E k \in Bo, signal \in Breakouts : Breakout(k, signal)
  \/ BreakoutRests
===============================================================================
