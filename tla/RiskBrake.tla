------------------------------ MODULE RiskBrake ------------------------------
(***************************************************************************)
(* The daily loss brake over days and restarts: who feeds it, what the      *)
(* trade log keeps of it, and what a restart makes of the log (main.js);    *)
(* and the weekly breaker, which reads the log at each entry                *)
(* (src/src/risk/portfolioRisk.js).                                         *)
(*                                                                          *)
(* Sales reach the log and the manager by different ways: an exit of the    *)
(* engine is logged and recorded (engine.js: cycle, venue, aging and cash   *)
(* exits, risk loop, satellites); a sale of the core sleeve, a manual close *)
(* and a smoke test are logged only.  The log keeps buys too; a small       *)
(* MaxTrades stands for the places they take.                               *)
(***************************************************************************)
EXTENDS RiskManager, Sequences, SequencesExt

CONSTANTS
  Coins,
  Equities,     \* what a status is valued at; 0 when it cannot be
  Gains,        \* the P&L of a sale
  Kinds,        \* who sells: "engine", and "core", "manual" or "smoke"
  WeeklyLossPct,        \* lossThreshold per mille; 0 turns the weekly breaker off
  Week, Cooldown,       \* in days
  MaxTrades,    \* MAX_TRADES: the log keeps so many
  MaxDay, MaxSales   \* bounds: days, and sales in all

ASSUME BrakeAssumption ==
  /\ Equities \subseteq Nat /\ Gains \subseteq Int
  /\ WeeklyLossPct \in 0 .. 1000 /\ Week \in Nat /\ Cooldown \in 0 .. Week
  /\ MaxTrades \in Nat \ {0} /\ MaxDay \in Nat /\ MaxSales \in Nat

VARIABLES
  rm,        \* the RiskManager
  today,     \* the calendar day
  log,       \* the sales in dashboardState.trades, newest first
  admitted,  \* the symbols whose entry canTrade has allowed and whose order is under way
  sales,     \* how many sales there were
  own,       \* auxiliary: the engine's P&L of the day
  skewed,    \* auxiliary: a restart seeded a sum that is not the engine's P&L of the day
  ledger,    \* auxiliary: the P&L of each day, of all sales
  weeks      \* auxiliary: the worst P&L of a week that a sale of this day ended

brakeVars == <<rm, today, log, admitted, sales, own, skewed, ledger, weeks>>

\* The places in the log of the sales of a day, and the sum of the sales at some places.
OfDay(day) == {i \in DOMAIN log : log[i].day = day}
PnL(places) == SumFunctionOnSet([i \in DOMAIN log |-> log[i].pnl], places)

\* pushWithLimit: the log keeps MAX_TRADES.
Newest(entries) == SubSeq(entries, 1, Min({Len(entries), MaxTrades}))

Since(days, first) ==
  SumFunctionOnSet(days, {d \in 0 .. today : d >= first})

\* Mutant of Breached: the week is the one that ends today.
BreachedToday(equity) ==
  PnL({i \in DOMAIN log : today - log[i].day <= Week}) * 1000 <= -(equity * WeeklyLossPct)

\* calcWeeklyDDBreaker: of the sales no older than the cooldown, one ended a week of such a loss.
Breached(equity) ==
  \E last \in DOMAIN log :
    /\ today - log[last].day < Cooldown
    /\ PnL({i \in last .. Len(log) : log[last].day - log[i].day <= Week}) * 1000 <= -(equity * WeeklyLossPct)

WeeklyBlocked(equity) == WeeklyLossPct > 0 /\ equity > 0 /\ Breached(equity)

BrakeInit ==
  /\ rm = NewManager(0) /\ today = 0
  /\ log = <<>> /\ sales = 0 /\ own = 0
  /\ admitted = {}
  /\ skewed = FALSE
  /\ ledger = [d \in 0 .. MaxDay |-> 0] /\ weeks = [d \in 0 .. MaxDay |-> 0]

-----------------------------------------------------------------------------
\* A sale: the engine's are recorded in the same step that logs them.
Sell(kind) ==
  /\ sales < MaxSales
  /\ sales' = sales + 1
  /\ \E g \in Gains :
       /\ log' = Newest(<<[day |-> today, kind |-> kind, pnl |-> g]>> \o log)
       /\ rm' = IF kind = "engine" THEN Recorded(rm, today, g) ELSE rm
       /\ own' = IF kind = "engine" THEN own + g ELSE own
       /\ ledger' = [ledger EXCEPT ![today] = @ + g]
       /\ weeks' = [weeks EXCEPT ![today] = Min({@, Since(ledger', today - Week)})]
  /\ UNCHANGED <<today, admitted, skewed>>

\* An entry asks the weekly breaker, then the gate, with the status of its turn.
Ask(s, equity) ==
  LET answer == CanTrade(rm, today, [decision |-> "BUY", held |-> FALSE, confident |-> TRUE,
                                     open |-> 0, equity |-> equity])
      blocked == WeeklyBlocked(IF equity > 0 THEN equity ELSE InitialBalance)
  IN /\ s \notin admitted
     /\ rm' = IF blocked THEN rm ELSE answer.manager
     /\ admitted' = IF ~blocked /\ answer.allowed THEN admitted \cup {s} ELSE admitted
     /\ UNCHANGED <<today, log, sales, own, skewed, ledger, weeks>>

\* Its order comes back, filled or not.
Answered(s) ==
  /\ s \in admitted
  /\ admitted' = admitted \ {s}
  /\ UNCHANGED <<rm, today, log, sales, own, skewed, ledger, weeks>>

Midnight ==
  /\ today < MaxDay
  /\ today' = today + 1
  /\ own' = 0
  /\ UNCHANGED <<rm, log, admitted, sales, skewed, ledger, weeks>>

\* The minute's timer, or a getDailyStats for the dashboard.
CheckRollover ==
  /\ rm' = Rolled(rm, today)
  /\ UNCHANGED <<today, log, admitted, sales, own, skewed, ledger, weeks>>

\* The process starts again with what the log has of the day.
Reseeded(places) ==
  /\ rm' = Seeded(NewManager(today), PnL(places), Cardinality(places))
  /\ skewed' = (sales > MaxTrades \/ \E i \in DOMAIN log : log[i].day = today /\ log[i].kind # "engine")
  /\ admitted' = {}
  /\ UNCHANGED <<today, log, sales, own, ledger, weeks>>

\* Mutant of Restart: the sum is taken over the whole log.
RestartWithAllDays == Reseeded(DOMAIN log)

Restart == Reseeded(OfDay(today))

BrakeNext ==
  \/ (\E k \in Kinds : Sell(k)) \/ Midnight \/ CheckRollover \/ Restart
  \/ \E s \in Coins : Answered(s) \/ \E equity \in Equities : Ask(s, equity)
BrakeSpec == BrakeInit /\ [][BrakeNext]_brakeVars

-----------------------------------------------------------------------------
(* Properties. *)

\* No entry is admitted on a day whose engine exits have lost the limit, whatever sales of
\* other kinds, midnights, failed valuations and restarts came between, as long as no
\* restart took its sum from a log with other sales in it.  (recordTrade, canOpenRisk and
\* seedFromHistory.)
LossStopsEntries ==
  [][\/ admitted' \subseteq admitted
     \/ skewed
     \/ own * 1000 > -LimitOf(Reference(rm'))]_brakeVars

\* A restart neither forgives nor adds to the day's loss when the log has all of the day's
\* sales and only the engine's.  (seedFromHistory: "so the daily loss limit survives bot
\* restarts".)
RestartKeepsTheLoss ==
  [][Restart /\ ~skewed' => rm'.pnl = own]_brakeVars

\* No entry is admitted within the cooldown of a sale that ended a week of the limit's loss:
\* neither a later gain, nor an old loss that leaves the week, nor a restart lifts the block,
\* as long as the log has kept every sale.  The limit is a share of the equity of the day of
\* the entry.  (calcWeeklyDDBreaker: "naturally survives restarts".)
WeeklyBlockHolds ==
  [][\A s \in Coins, equity \in Equities \ {0} :
       Ask(s, equity) /\ s \in admitted' /\ sales <= MaxTrades =>
         \A d \in 0 .. today : today - d < Cooldown => weeks[d] * 1000 > -(equity * WeeklyLossPct)]_brakeVars
===============================================================================
