---------------------------- MODULE SleeveLadder ----------------------------
(***************************************************************************)
(* How much the core sleeve holds: the equity ladder on the account's       *)
(* highest recorded equity (engine/tsmCore.js: selectSleeveRung), the daily  *)
(* snapshots it reads (dashboard/equityHistory.js), and the opens, closes    *)
(* and resizes of a cycle (core/engine.js: runTsmCoreCycle).                 *)
(*                                                                          *)
(* Money is whole dollars, a leg is its value at the current price.  When a  *)
(* sold coin may be bought back, and what becomes of orders that fail, is    *)
(* SleeveCycle; here a vote that holds an entry back is "stay".              *)
(***************************************************************************)
EXTENDS Integers, Sequences, FiniteSetsExt, SequencesExt

CONSTANTS
  Ladder,        \* the rungs by rising threshold: [min, symbols, pct]
  Fractions,     \* percents a slot is scaled by: volatility target and macro overlay
  ResizePct,     \* resizeThresholdPct
  MinNotional,   \* the exchange's floor
  Deposits,      \* what may come onto the account, or leave it
  Opening,       \* the first balance
  MaxEquity, MaxDays, MaxLosses   \* bounds; MaxDays is less than MAX_POINTS

SleeveCoins == UNION {Range(Ladder[i].symbols) : i \in DOMAIN Ladder}

ASSUME LadderAssumption ==
  /\ Ladder \in Seq([min : Nat, symbols : Seq(SleeveCoins), pct : 1 .. 100])
  /\ Ladder # <<>> /\ Ladder[1].min = 0
  /\ \A i, j \in DOMAIN Ladder : i < j => Ladder[i].min < Ladder[j].min
  /\ \A i \in DOMAIN Ladder : Ladder[i].symbols # <<>>
  /\ Fractions \subseteq 0 .. 100 /\ ResizePct \in Nat /\ MinNotional \in Nat \ {0}
  /\ Deposits \subseteq Int /\ Opening \in Nat

VARIABLES
  balance,   \* free quote, the scalper's profits and losses included
  slots,     \* the sleeve's legs: their values, 0 when not held
  points,    \* equity_history.json: the last equity of each day there was one
  today,     \* the last point is of this day
  days,      \* days so far
  losses,    \* times the file was unreadable
  rung,      \* the rung of the last cycle, 0 before the first
  ended,     \* auxiliary: the highest equity a finished day was recorded with since the file was lost
  fresh      \* auxiliary: the rung was chosen by a cycle of the same day, and no money has moved since

ladderVars == <<balance, slots, points, today, days, losses, rung, ended, fresh>>

Worth == balance + SumFunction(slots)

-----------------------------------------------------------------------------
(* The ladder. *)

\* selectSleeveRung: the highest rung whose threshold the equity has crossed.
RungOf(equity) == Max({i \in DOMAIN Ladder : Ladder[i].min <= equity \/ i = 1})

\* The highest equity there is a record of.
HighWater == Max({Worth} \cup Range(points))

\* Mutant of Recorded: the last point is replaced whatever its day.
RecordedOver(equity) == IF points = <<>> THEN <<equity>> ELSE [points EXCEPT ![Len(points)] = equity]

\* recordEquitySnapshot: the last write of a day wins; no point for an account that reads as zero.
Recorded(equity) ==
  IF equity <= 0 THEN points
  ELSE IF today THEN [points EXCEPT ![Len(points)] = equity] ELSE Append(points, equity)

-----------------------------------------------------------------------------
(* A cycle's orders, on an account a == [cash, legs]. *)

PerSlot(r, equity) == (equity * r.pct) \div (100 * Len(r.symbols))
Desired(r, equity, f) == (PerSlot(r, equity) * f) \div 100

\* planCoreResize: nothing inside the tolerance, and nothing the exchange would reject.
ResizeDelta(want, value, perSlot) ==
  LET d == want - value
      size == IF d < 0 THEN -d ELSE d
  IN IF 100 * size <= perSlot * ResizePct \/ size < MinNotional THEN 0 ELSE d

\* openCorePosition, and resizeCorePosition up: as much of it as there is cash for.
Buy(a, s, usd) ==
  LET spend == Min({usd, a.cash}) IN
  IF spend < MinNotional THEN a
  ELSE [cash |-> a.cash - spend, legs |-> [a.legs EXCEPT ![s] = @ + spend]]

\* closeCorePosition, and resizeCorePosition down.
SellOff(a, s, usd) == [cash |-> a.cash + usd, legs |-> [a.legs EXCEPT ![s] = @ - usd]]

\* planCoreActions, for one coin: an entry or an exit.
Act(a, s, vote, want) ==
  CASE vote = "enter" /\ slots[s] = 0 -> Buy(a, s, want)
    [] vote = "leave" /\ slots[s] > 0 -> SellOff(a, s, slots[s])
    [] OTHER -> a

\* The resize pass, for one coin that was held before and has not been acted on.
Resize(a, s, vote, delta) ==
  IF slots[s] = 0 \/ vote \notin {"enter", "stay"} THEN a
  ELSE IF delta > 0 THEN Buy(a, s, delta) ELSE SellOff(a, s, -delta)

Traded(r, votes, f) ==
  LET equity == Worth
      want   == Desired(r, equity, f)
      acted  == FoldLeft(LAMBDA a, s : Act(a, s, votes[s], want), [cash |-> balance, legs |-> slots], r.symbols)
  IN FoldLeft(LAMBDA a, s : Resize(a, s, votes[s], ResizeDelta(want, slots[s], PerSlot(r, equity))), acted, r.symbols)

-----------------------------------------------------------------------------
LadderInit ==
  /\ balance = Opening /\ slots = [s \in SleeveCoins |-> 0]
  /\ points = <<>> /\ today = FALSE /\ days = 0 /\ losses = 0
  /\ rung = 0 /\ ended = 0 /\ fresh = FALSE

History == <<points, today, days, losses, ended>>

\* A price moves, a scalper's sale is won or lost, or the owner pays in or out.
Moves(s, d) ==
  /\ slots[s] > 0 /\ slots[s] + d > 0 /\ Worth + d <= MaxEquity
  /\ slots' = [slots EXCEPT ![s] = @ + d]
  /\ fresh' = FALSE
  /\ UNCHANGED <<balance, History, rung>>

Pays(d) ==
  /\ balance + d >= 0 /\ Worth + d <= MaxEquity
  /\ balance' = balance + d
  /\ fresh' = FALSE
  /\ UNCHANGED <<slots, History, rung>>

\* A balance poll or the end of a cycle.
Snapshot ==
  /\ points' = Recorded(Worth) /\ today' = (today \/ Worth > 0)
  /\ UNCHANGED <<balance, slots, days, losses, rung, ended, fresh>>

NextDay ==
  /\ days < MaxDays /\ days' = days + 1
  /\ today' = FALSE
  /\ ended' = IF today THEN Max({ended, points[Len(points)]}) ELSE ended
  /\ fresh' = FALSE
  /\ UNCHANGED <<balance, slots, points, losses, rung>>

\* A write that was cut off: the file reads as no history, and the next point overwrites it.
LoseHistory ==
  /\ losses < MaxLosses /\ losses' = losses + 1
  /\ points' = <<>> /\ today' = FALSE /\ ended' = 0
  /\ UNCHANGED <<balance, slots, days, rung, fresh>>

\* runTsmCoreCycle, with the snapshot that runAllSymbols takes after it.
SleeveRuns(votes, f) ==
  LET r == Ladder[RungOf(HighWater)]
      done == Traded(r, votes, f)
  IN /\ rung' = RungOf(HighWater)
     /\ balance' = done.cash /\ slots' = done.legs
     /\ fresh' = TRUE
     /\ points' = Recorded(Worth) /\ today' = (today \/ Worth > 0)
     /\ UNCHANGED <<days, losses, ended>>

LadderNext ==
  \/ Snapshot \/ NextDay \/ LoseHistory
  \/ \E d \in Deposits : Pays(d) \/ \E s \in SleeveCoins : Moves(s, d)
  \/ \E votes \in [SleeveCoins -> {"enter", "stay", "leave", "stale"}], f \in Fractions : SleeveRuns(votes, f)

LadderSpec == LadderInit /\ [][LadderNext]_ladderVars

-----------------------------------------------------------------------------
(* Properties. *)

\* An equity that a day ended with is never forgotten: no later cycle takes a rung under the
\* one it earned, through losses, withdrawals and any number of snapshots.
\* (equityHistory.js, selectSleeveRung: "de-risk as the account grows".)
RungRatchets == fresh => rung >= RungOf(ended)

\* config/default.js:797: "stepping DOWN in risk as thresholds are crossed and NEVER back up".
NeverBackUp == [][rung' >= rung]_ladderVars
=============================================================================
