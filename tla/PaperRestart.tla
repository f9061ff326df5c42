----------------------------- MODULE PaperRestart -----------------------------
(***************************************************************************)
(* The paper account between restarts.  The trader's book lives in memory;  *)
(* what a restart finds is the trade file, to which each trade is appended  *)
(* at once (logger.js), and the dashboard's saved state, a longer record of *)
(* the last trades written half a second later (dashboardState.js,          *)
(* persistence.js).  main.js rebuilds the book from the two.                *)
(***************************************************************************)
EXTENDS PaperTrader, TradeTimes

CONSTANTS
  MaxTrades,   \* MAX_TRADES of the dashboard
  MaxClock     \* bound: operations that trade

ASSUME RestartAssumption == MaxTrades \in Nat \ {0} /\ MaxClock \in Nat

VARIABLES
  book,     \* the trader: cash, positions, resting satellite orders
  trades,   \* dashboardState.trades, newest first
  file,     \* dashboard_persist.json: its trades, and whether a write of it was cut short
  csv,      \* trades.csv, oldest first
  dirty,    \* _saveTimer is set
  clock     \* the time of the last trade

paperVars == <<book, trades, file, csv, dirty, clock>>

Invested(b) == SumFunctionOnSet([k \in Keys |-> b.positions[k].cost], Keys)
Worth(b)    == b.balance + b.reserved + Invested(b)

PaperInit ==
  /\ book = NewBook
  /\ trades = <<>> /\ csv = <<>>
  /\ file = [trades |-> <<>>, torn |-> FALSE]
  /\ dirty = FALSE
  /\ clock = 0

-----------------------------------------------------------------------------
(* Trading. *)

Stamped(r, t) == [r EXCEPT !.at = t]
Newest(s)     == SubSeq(s, 1, Min({Len(s), MaxTrades}))

\* An operation of the trader, its rows appended to the file and its record pushed.  Two
\* rows of one call may or may not carry the same time; a record has the last row's.
Do(s) ==
  \E apart \in BOOLEAN :
    LET n    == Len(s.rows)
        time == [i \in 1 .. n |-> clock + (IF apart THEN i ELSE 1)]
    IN /\ s # Nothing(book)
       /\ apart => n > 1
       /\ n > 0 => time[n] <= MaxClock
       /\ book' = s.book
       /\ csv' = csv \o [i \in 1 .. n |-> Stamped(s.rows[i], time[i])]
       /\ clock' = IF n = 0 THEN clock ELSE time[n]
       /\ IF s.record = NoRecord THEN UNCHANGED <<trades, dirty>>
          ELSE trades' = Newest(<<Stamped(s.record, time[n])>> \o trades) /\ dirty' = TRUE
       /\ UNCHANGED file

Scalp == \E k \in Scalpers, d \in {"BUY", "SELL", "HOLD"}, p \in Prices, a \in Atrs :
           Do(Execute(book, k, d, p, a))

Sleeve == \E k \in Cores, p \in Prices :
            \/ Do(CloseCore(book, k, p))
            \/ \E a \in Allocations : \/ Do(OpenCore(book, k, p, a))
                                      \/ Do(GrowCore(book, k, p, a))
                                      \/ Do(TrimCore(book, k, p, a))

PlaceOrder == \E k \in Satellites, s \in Signals :
                Do(PlaceSatelliteOrder(book, k, s.limit, s.stop, s.size))

CancelOrder == \E k \in Satellites :
                 Waiting(book, k) /\ Do(Nothing(CancelSatelliteOrder(book, k)))

Tick == \E k \in Satellites, p \in Prices, event \in {"none", "late", "weak"} :
          Do(SatelliteTick(book, k, p, event))

-----------------------------------------------------------------------------
(* Saving. *)

\* The timer fires: the trades of this moment go out, in a write that takes its time.
StartSave ==
  /\ dirty
  /\ dirty' = FALSE
  /\ file' = [trades |-> trades, torn |-> TRUE]
  /\ UNCHANGED <<book, trades, csv, clock>>

EndSave ==
  /\ file.torn
  /\ file' = [file EXCEPT !.torn = FALSE]
  /\ UNCHANGED <<book, trades, csv, dirty, clock>>

-----------------------------------------------------------------------------
(* Restarting. *)

\* A row of the trade file names the trade and not the position it left.
FromRow(r) == [r EXCEPT !.reason = "row", !.position = Flat]

\* Mutant of Loaded: the file's rows are only read when there are no saved trades.
LoadedOnce ==
  LET saved == IF file.torn THEN <<>> ELSE file.trades IN
  IF saved # <<>> THEN saved
  ELSE Newest([i \in 1 .. Len(csv) |-> FromRow(csv[Len(csv) + 1 - i])])

\* The saved trades, then those of the file's rows that no saved trade has the time of.
Loaded ==
  LET saved == IF file.torn THEN <<>> ELSE file.trades
      rows  == Newest([i \in 1 .. Len(csv) |-> FromRow(csv[Len(csv) + 1 - i])])
      known == {saved[i].at : i \in DOMAIN saved}
      extra == Without(rows, known)
  IN IF saved = <<>> THEN rows ELSE Newest(saved \o extra)

\* restorePosition: a saved record carries the position; a row only what was traded.
Restored(r) ==
  IF r.reason # "row" THEN [r.position EXCEPT !.partialDone = FALSE, !.tierDue = FALSE]
  ELSE [Flat EXCEPT !.qty = r.qty, !.cost = r.qty * r.price, !.high = r.price,
                    !.target = IF r.key \in Satellites THEN NoTarget ELSE 0]

\* Mutant of Reopened: every sale closes its key, a trim too.
ReopenedWithoutTrims(log) ==
  LET step(open, t) == [open EXCEPT ![t.key] = IF t.side = "BUY" THEN Restored(t) ELSE Flat]
  IN FoldLeft(step, [k \in Keys |-> Flat], Reverse(log))

\* The trades in the order of the log, oldest first: a buy opens its key, a sale closes
\* it unless it is known as a resize.
Reopened(log) ==
  LET step(open, t) == [open EXCEPT ![t.key] =
                          IF t.side = "BUY" \/ t.reason = "resize" THEN Restored(t) ELSE Flat]
  IN FoldLeft(step, [k \in Keys |-> Flat], Reverse(log))

\* The process ends, by itself or not, and starts again.
Restart ==
  LET log  == Loaded
      cash == IF log # <<>> /\ log[1].balance > 0 THEN log[1].balance ELSE InitialBalance
  IN /\ book' = [NewBook EXCEPT !.balance = cash, !.positions = Reopened(log)]
     /\ trades' = log
     /\ dirty' = FALSE
     /\ file' = IF file.torn THEN [trades |-> <<>>, torn |-> FALSE] ELSE file
     /\ UNCHANGED <<csv, clock>>

-----------------------------------------------------------------------------
PaperNext == Scalp \/ Sleeve \/ PlaceOrder \/ CancelOrder \/ Tick \/ StartSave \/ EndSave \/ Restart
PaperSpec == PaperInit /\ [][PaperNext]_paperVars

-----------------------------------------------------------------------------
(* Properties. *)

Lots(b, k)  == b.positions[k].qty
Pending(b)  == {k \in Satellites : Waiting(b, k)}

\* Cash, reserves and what was paid for the open positions change by what is realised and
\* by nothing else: no path of opening, resizing, staging, filling,
\* expiring or closing makes or loses money on the books.  (Every method of PaperTrader.)
CashKept ==
  [][Worth(book') - book'.pnl = Worth(book) - book.pnl \/ Restart]_paperVars

\* No save is due or under way, no order rests, and the record holds every trade there
\* was, in order: none is past its limit, of a first stage, or lost to an earlier restart.
Settled ==
  /\ ~dirty /\ ~file.torn
  /\ Pending(book) = {}
  /\ [i \in DOMAIN trades |-> trades[i].at] = [i \in DOMAIN csv |-> csv[Len(csv) + 1 - i].at]
  /\ csv # <<>> => csv[Len(csv)].balance > 0

\* A restart of a settled account finds every position as it was, and the cash that the
\* newest trade recorded.  (The rebuild of the paper account in main.js, restorePosition.)
SettledRestart ==
  [][Settled /\ Restart =>
       /\ csv # <<>> => book'.balance = csv[Len(csv)].balance
       /\ \A k \in Keys : /\ Lots(book', k) = Lots(book, k)
                          /\ book'.positions[k].cost = book.positions[k].cost]_paperVars

\* Whenever the process ends, before a save or in the middle of one, the restart knows of
\* every trade as long as the record's limit was not passed.  (The merge of the saved
\* trades with trades.csv in the constructor of DashboardState.)
NoTradeForgotten ==
  [][Len(csv) <= MaxTrades /\ Restart
       => \A i \in DOMAIN csv : \E j \in DOMAIN trades' : trades'[j].at = csv[i].at]_paperVars
===============================================================================
