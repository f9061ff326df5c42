----------------------------- MODULE RiskManager -----------------------------
(***************************************************************************)
(* src/src/risk/riskManager.js: the daily loss brake and the entry gate.    *)
(* Its methods run to their end without an await; each is a function of     *)
(* the manager's fields `rm`, the calendar day and its arguments, and       *)
(* starts with the day rollover.                                            *)
(*                                                                          *)
(* Money is whole units; an equity of 0 is a status that could not be       *)
(* valued.                                                                  *)
(***************************************************************************)
EXTENDS Integers

CONSTANTS
  InitialBalance,
  MaxDailyLossPct,    \* per mille; 0 turns the brake off
  MaxOpenPositions

ASSUME RiskAssumption ==
  /\ InitialBalance \in Nat /\ MaxDailyLossPct \in 0 .. 1000
  /\ MaxOpenPositions \in Nat

\* The constructor.
NewManager(today) == [pnl |-> 0, count |-> 0, blocked |-> FALSE, equity |-> 0, day |-> today]

\* #referenceEquity and #dailyLossLimitExceeded.
Reference(rm)   == IF rm.equity > 0 THEN rm.equity ELSE InitialBalance
LimitOf(equity) == equity * MaxDailyLossPct
Exceeded(rm)    == LimitOf(Reference(rm)) > 0 /\ rm.pnl * 1000 <= -LimitOf(Reference(rm))

\* #checkDayRollover and resetDailyStats.
Rolled(rm, today) ==
  IF rm.day = today THEN rm
  ELSE [rm EXCEPT !.pnl = 0, !.count = 0, !.blocked = FALSE, !.day = today]

\* Mutant of Recorded: the day rolls over after the loss is booked.
RecordedBeforeRollover(rm, today, pnl) ==
  LET r == [rm EXCEPT !.pnl = @ + pnl, !.count = @ + 1] IN Rolled([r EXCEPT !.blocked = Exceeded(r)], today)

\* recordTrade.
Recorded(rm, today, pnl) ==
  LET r == [Rolled(rm, today) EXCEPT !.pnl = @ + pnl, !.count = @ + 1]
  IN [r EXCEPT !.blocked = Exceeded(r)]

\* canOpenRisk, for a status of this equity: the manager it leaves; its answer is ~blocked.
Assessed(rm, today, equity) ==
  LET r == [Rolled(rm, today) EXCEPT !.equity = IF equity > 0 THEN equity ELSE @]
  IN [r EXCEPT !.blocked = Exceeded(r)]

\* canTrade, in the order of its returns: a hold, a held symbol, the confidence, the
\* slots, the account.  A hold leaves the equity reading alone.
CanTrade(rm, today, trade) ==
  LET r == IF trade.decision = "HOLD" THEN Rolled(rm, today)
           ELSE Assessed(rm, today, trade.equity)
  IN [manager |-> r,
      allowed |-> \/ trade.decision = "HOLD"
                  \/ trade.held
                  \/ /\ trade.confident
                     /\ trade.open < MaxOpenPositions
                     /\ ~r.blocked]

\* seedFromHistory, for the sum and the number of the day's sales in the log.
Seeded(rm, pnl, count) ==
  IF pnl = 0 THEN rm
  ELSE LET r == [rm EXCEPT !.pnl = pnl, !.count = count] IN [r EXCEPT !.blocked = Exceeded(r)]
===============================================================================
