----------------------------- MODULE WalkForward -----------------------------
(***************************************************************************)
(* How the bot's record on past bars is measured: the walk-forward folds,    *)
(* their runs and the curve that is stitched of them (walkForward.js,         *)
(* runWalkForward.mjs), the baseline windows (baselineFramework.js) and the    *)
(* daily returns of a curve (metrics.js).                                    *)
(*                                                                          *)
(* One coin, and an account that is in it with all it has, or out of it.      *)
(* Prices and balances are logarithms: a return is a difference of two, and    *)
(* scaling a curve is adding to it.  Stops, costs and sizes are               *)
(* PortfolioReplay's.                                                        *)
(***************************************************************************)
EXTENDS Integers, Sequences, SequencesExt, FiniteSetsExt

CONSTANTS
  Train, Forward,   \* trainBars, forwardBars
  MinBars,          \* bars a coin needs inside a span to be run on it
  Lookbacks, Year,  \* the baseline windows: bars back from the newest, the longest a year
  DayBars,          \* bars of a day
  Levels,           \* what a price may be
  MaxTape,          \* bound: bars
  MaxGaps           \* bound: bars that are missing

ASSUME WalkAssumption ==
  /\ {Train, Forward, MinBars, Year, DayBars} \subseteq Nat \ {0}
  /\ Lookbacks \subseteq Nat \ {0} /\ Levels \subseteq Nat
  /\ MaxTape \in Nat /\ MaxGaps \in Nat

VARIABLES
  tape,    \* the bars so far: where each opened and what was decided there, or Missing
  report,  \* what the scripts report on them
  told     \* auxiliary: every span that was ever run, with what it gave

walkVars == <<tape, report, told>>

Missing  == [price |-> 0, side |-> "none"]
TapeBars == [price : Levels, side : {"BUY", "SELL"}]

Budget == 0

-----------------------------------------------------------------------------
(* The backtester on the bars first .. end, trading from `from`. *)

Account == [cash |-> Budget, entry |-> 0, curve |-> <<>>, trades |-> <<>>]

\* One bar: the decision is filled where the bar opens, and the account is valued there.
Stepped(acc, bars, i) ==
  LET b     == bars[i]
      held  == acc.entry # 0
      gain  == IF held THEN b.price - bars[acc.entry].price ELSE 0
      sells == held /\ b.side = "SELL"
      buys  == ~held /\ b.side = "BUY"
  IN [cash   |-> IF sells THEN acc.cash + gain ELSE acc.cash,
      entry  |-> IF sells THEN 0 ELSE IF buys THEN i ELSE acc.entry,
      curve  |-> Append(acc.curve, [at |-> i, balance |-> acc.cash + gain]),
      trades |-> IF sells THEN Append(acc.trades, [entry |-> acc.entry, exit |-> i, gain |-> gain])
                 ELSE acc.trades]

\* A position that is open at the end stays open: the curve has its value, the trades do not.
Backtest(bars, from) ==
  LET run[i \in 0 .. Len(bars)] ==
        IF i = 0 THEN Account
        ELSE IF bars[i] = Missing \/ i < from THEN run[i - 1] ELSE Stepped(run[i - 1], bars, i)
  IN run[Len(bars)]

\* Mutant of Sliced: with the bars after the end.
SlicedOpen(bars, start, end) == bars

\* sliceWithHistory: every bar up to the end, the end's own included.
Sliced(bars, start, end) == SubSeq(bars, 1, end)

Covered(bars, start, end) == Cardinality({i \in start .. end : i > 0 /\ bars[i] # Missing}) >= MinBars

-----------------------------------------------------------------------------
(* Folds. *)

Fold(s, end) == [start |-> 1 + s, forward |-> 1 + s + Train, end |-> end]

\* generateFolds, on bars 1 .. last: whole folds, and a last one that is at least half of one.
Folds(last) ==
  LET total == last - 1
      whole == IF total < Train + Forward THEN 0 ELSE (total - Train) \div Forward
      next  == whole * Forward
      rest  == whole > 0 /\ next + Train + Forward \div 2 <= total
  IN [k \in 1 .. whole |-> Fold((k - 1) * Forward, 1 + (k - 1) * Forward + Train + Forward)]
     \o IF rest THEN <<Fold(next, last)>> ELSE <<>>

\* runFold: of the run over training and forward bars, what falls into the forward part.
RunFold(bars, fold) ==
  LET acc     == Backtest(Sliced(bars, fold.start, fold.end), fold.start)
      before  == SelectSeq(acc.curve, LAMBDA p : p.at <= fold.forward)
      equity  == SelectSeq(acc.curve, LAMBDA p : p.at >= fold.forward)
      opening == IF before = <<>> THEN Budget ELSE before[Len(before)].balance
  IN [skipped |-> ~Covered(bars, fold.start, fold.end),
      equity  |-> equity,
      trades  |-> SelectSeq(acc.trades, LAMBDA t : t.exit >= fold.forward),
      from    |-> opening,
      to      |-> IF equity = <<>> THEN opening ELSE equity[Len(equity)].balance]

\* Mutant of Stitched: each fold's curve starts again from the budget.
StitchedAfresh(results) ==
  LET valid == SelectSeq(results, LAMBDA f : ~f.skipped /\ f.equity # <<>>)
  IN [curve  |-> FlattenSeq([k \in DOMAIN valid |->
                   [i \in DOMAIN valid[k].equity |->
                      [valid[k].equity[i] EXCEPT !.balance = @ - valid[k].from]]]),
      trades |-> FlattenSeq([k \in DOMAIN valid |-> valid[k].trades])]

\* aggregateFolds: a fold's curve is moved to begin where the one before it ended.
Stitched(results) ==
  LET valid == SelectSeq(results, LAMBDA f : ~f.skipped /\ f.equity # <<>>)
      scale[k \in DOMAIN valid] ==
        IF k = 1 THEN Budget - valid[1].from
        ELSE valid[k - 1].to + scale[k - 1] - valid[k].from
  IN [curve  |-> FlattenSeq([k \in DOMAIN valid |->
                   [i \in DOMAIN valid[k].equity |-> [valid[k].equity[i] EXCEPT !.balance = @ + scale[k]]]]),
      trades |-> FlattenSeq([k \in DOMAIN valid |-> valid[k].trades])]

-----------------------------------------------------------------------------
(* The baseline windows, and the returns of a curve. *)

\* defineWindows: the last so many bars, the year before the last and both, and all there is.
Windows(last) ==
  {[start |-> last - d, end |-> last] : d \in Lookbacks \cup {Year}}
  \cup (IF 1 > last - 2 * Year THEN {}
        ELSE {[start |-> last - 2 * Year, end |-> last - Year], [start |-> last - 2 * Year, end |-> last]})
  \cup {[start |-> 1, end |-> last]}

\* runWindow.
RunWindow(bars, w) == Backtest(Sliced(bars, w.start, w.end), w.start)

DayOf(i) == (i - 1) \div DayBars

\* The returns between one point and the one before it, of the points of a day.
ReturnsOf(curve, day) ==
  {[at |-> i, gain |-> curve[i].balance - (IF i = 1 THEN Budget ELSE curve[i - 1].balance)] :
     i \in {i \in DOMAIN curve : DayOf(curve[i].at) = day}}

\* dailyReturnsFromEquity: the returns of a day compound; a day without a point has none.
DailyReturn(curve, day) == MapThenSumSet(LAMBDA r : r.gain, ReturnsOf(curve, day))

DailyReturns(curve) ==
  IF curve = <<>> THEN <<>>
  ELSE LET first == DayOf(curve[1].at)
       IN [d \in 1 .. DayOf(curve[Len(curve)].at) - first + 1 |-> DailyReturn(curve, first + d - 1)]

-----------------------------------------------------------------------------
(* The scripts are run again whenever a bar is added. *)

NewestBar(bars) == Max({0} \cup {i \in DOMAIN bars : bars[i] # Missing})

Report(bars) ==
  LET folds   == Folds(NewestBar(bars))
      results == [k \in DOMAIN folds |-> RunFold(bars, folds[k])]
      agg     == Stitched(results)
  IN [folds |-> folds, results |-> results, curve |-> agg.curve, trades |-> agg.trades,
      daily |-> DailyReturns(agg.curve)]

\* The spans of a report that were run.
Spans(bars) ==
  LET last == NewestBar(bars)
      runs == {[start |-> f.start, end |-> f.end] : f \in Range(Folds(last))} \cup Windows(last)
  IN {w \in runs : Covered(bars, w.start, w.end)}

WalkInit == /\ tape = <<>> /\ told = {}
            /\ report = [folds |-> <<>>, results |-> <<>>, curve |-> <<>>, trades |-> <<>>, daily |-> <<>>]

AddBar(b) ==
  /\ Len(tape) < MaxTape
  /\ b = Missing => tape # <<>> /\ Cardinality({i \in DOMAIN tape : tape[i] = Missing}) < MaxGaps
  /\ tape' = Append(tape, b)
  /\ report' = Report(tape')
  /\ told' = told \cup {[span |-> w, gave |-> RunWindow(tape', w)] : w \in Spans(tape')}

WalkNext == \E b \in TapeBars \cup {Missing} : AddBar(b)
WalkSpec == WalkInit /\ [][WalkNext]_walkVars

-----------------------------------------------------------------------------
(* Properties. *)

\* What a span gives does not depend on what came after it: run again when there are more bars,
\* as a fold, as the last year and then as the year before it, it gives the same curve and the
\* same trades.  (walkForward.js:27: "Strict no-lookahead".)
PastStands == \A u, v \in told : u.span = v.span => u.gave = v.gave

\* The stitched curve moves with the market or stands still, over the seams of its folds and the
\* folds that were skipped: it gains nothing from being put together.  And its daily returns
\* compound to what it made, with two points of one time at a seam, several points a day, and
\* days without any.  (walkForward.js: aggregateFolds, "chain the percentage returns";
\* metrics.js: dailyReturnsFromEquity.)
CurveFollowsTheMarket ==
  LET curve == report.curve IN
  /\ \A i \in 1 .. Len(curve) - 1 :
       LET seen == {j \in curve[i].at .. curve[i + 1].at : tape[j] # Missing}
       IN /\ curve[i].at <= curve[i + 1].at
          /\ curve[i + 1].balance - curve[i].balance
               \in {0} \cup {tape[curve[i + 1].at].price - tape[j].price : j \in seen}
  /\ curve # <<>> => FoldSeq(LAMBDA x, y : x + y, 0, report.daily) = curve[Len(curve)].balance - Budget
=============================================================================
