------------------------------ MODULE StopRules ------------------------------
(***************************************************************************)
(* The stop and target rules that live, paper and the simulator share:      *)
(* traderUtils.js for the scalper, satellites.js for the satellites.  They  *)
(* are pure: each takes a position and a price and returns the position it  *)
(* leaves.  Prices are whole numbers, percentages are per mille.            *)
(*                                                                          *)
(* `entry` is the price the rules measure from: the position's entryPrice   *)
(* in paper, the fill without its fee in the simulator (#stopView).         *)
(***************************************************************************)
EXTENDS Integers, FiniteSetsExt

CONSTANTS
  StopPct, TargetPct,   \* stopLossPct and takeProfitPct
  TrailPct, ArmPct,     \* trailingStopPct and trailArmPct; 0 turns them off
  BreakEvenPct,         \* breakEvenTriggerPct; 0 turns it off
  StagePct,             \* twoStageExit.firstStagePctOfTp; 0 turns the stage off
  TargetR,              \* a satellite's target in units of its risk; 0 for none
  NoTarget              \* a target no price reaches (Infinity)

ASSUME StopRulesAssumption ==
  /\ {StopPct, TargetPct, TrailPct, ArmPct, BreakEvenPct, StagePct} \subseteq 0 .. 999
  /\ StopPct > 0 /\ TargetPct > 0
  /\ TargetR \in Nat /\ NoTarget \in Nat

\* A part of an amount, in per mille.
Part(amount, permille) == (amount * permille) \div 1000

\* The stop that locks break-even: the entry and a round trip's fees.
Lock(entry) == Part(entry, 1002)

\* A distance as a share of the price: `factor` ATRs, never under `low` or over `high`.
Clamped(atr, factor, low, high) == Min({Max({(atr * factor) \div 10, low}), high})

\* The first stop and target of a scalper: fixed distances, or 1.5 and 3 ATRs when the
\* ATR stops are on and the ATR is known.
FirstStop(price, atr) ==
  price - Part(price, IF atr = 0 THEN StopPct ELSE Clamped(atr, 15, 20, 120))
FirstTarget(price, atr) ==
  price + Part(price, IF atr = 0 THEN TargetPct ELSE Clamped(atr, 30, 40, 300))

-----------------------------------------------------------------------------
(* The scalper's rules, in the order of every price tick. *)

\* A new high over the entry moves the high-water mark, and the stop up under it.
Trailed(p, entry, price) ==
  IF /\ TrailPct > 0
     /\ ArmPct > 0 => price >= entry + Part(entry, ArmPct)
     /\ price > entry /\ price > p.high
  THEN [p EXCEPT !.high = price, !.stop = Max({@, Part(price, 1000 - TrailPct)})]
  ELSE p

BreakEvened(p, entry, price) ==
  IF BreakEvenPct > 0 /\ p.stop < entry /\ price >= entry + Part(entry, BreakEvenPct)
  THEN [p EXCEPT !.stop = Lock(entry)]
  ELSE p

\* The first stage of a two-stage exit falls due once.
PartialDue(p, entry, price) ==
  /\ StagePct > 0 /\ ~p.partialDone
  /\ p.target > entry
  /\ price >= entry + Part(p.target - entry, StagePct)

\* What is left after the first stage cannot lose: its stop is at least the entry.
Remainder(p, entry) ==
  [p EXCEPT !.partialDone = TRUE, !.stop = IF @ < entry THEN Lock(entry) ELSE @]

ExitReason(p, price) ==
  CASE price <= p.stop   -> IF TrailPct > 0 /\ p.stop > p.initial
                            THEN "trailing_stop" ELSE "stop_loss"
    [] price > p.stop /\ price >= p.target -> "take_profit"
    [] OTHER             -> "none"

-----------------------------------------------------------------------------
(* The satellites' rules. *)

\* The exit plan of a satellite filled at `fill` with its stop at `stop`.
SatellitePlan(fill, stop) ==
  [stop |-> stop, initial |-> stop, high |-> fill,
   target |-> IF TargetR = 0 THEN NoTarget ELSE fill + TargetR * (fill - stop)]

\* One observation of a held satellite: a bar, or a price tick whose four prices are
\* equal.  `late` is the time limit, `weak` an hour that closed with its RSI under the
\* tier its profit has reached.
SatelliteExit(p, entry, o) ==
  CASE o.late               -> [reason |-> "sat_time", price |-> o.open]
    [] ~o.late /\ p.tierDue -> [reason |-> "sat_tier", price |-> o.open]
    [] ~o.late /\ ~p.tierDue /\ o.low <= p.stop ->
         [reason |-> IF p.stop >= entry THEN "sat_breakeven" ELSE "sat_stop",
          price  |-> Min({p.stop, o.open})]
    [] ~o.late /\ ~p.tierDue /\ o.low > p.stop /\ o.high >= p.target ->
         [reason |-> "sat_target", price |-> Max({p.target, o.open})]
    [] OTHER                -> [reason |-> "none", price |-> o.close]

\* The position an observation without an exit leaves: at +1R the stop goes to the entry.
SatelliteKept(p, entry, o) ==
  LET top == Max({p.high, o.high}) IN
  [p EXCEPT !.high = top,
            !.stop = IF top >= entry + (entry - p.initial) THEN Max({@, entry}) ELSE @,
            !.tierDue = o.weak]
===============================================================================
