----------------------------- MODULE MarketFeeds -----------------------------
(***************************************************************************)
(* The caches of the readings that sizes and thresholds use: implied         *)
(* volatility (data/dvolFeed.js), the NASDAQ's trend (data/nasdaqTrend.js)    *)
(* and fear & greed (data/fearGreed.js), as the 12h cycle (core/engine.js)    *)
(* and the boot (main.js) load them.                                         *)
(*                                                                          *)
(* Time is in periods of four hours from a midnight; a cycle runs a few      *)
(* seconds into every third.  A reading is the bar or the day it is of.      *)
(***************************************************************************)
EXTENDS Integers, FiniteSetsExt

CONSTANTS
  Horizon, MaxFailures   \* bounds: periods, and failures with restarts

ASSUME FeedsAssumption == Horizon \in Nat /\ MaxFailures \in Nat

HalfDay == 3   \* a bar of implied volatility, and the TTL of the NASDAQ's rows
Day     == 6   \* the TTL of fear & greed, and the age limit of a volatility

VolCoins == {"BTC", "ETH"}
Never == -1    \* of no bar, or no day

VARIABLES
  hour,       \* the clock
  turn,       \* "boot": its cycle is due; "loading": fear & greed is; "due": a timer's cycle is; "idle"
  dvol,       \* dvol.json: the newest bar of each coin, and whether one was stored half-formed
  nasdaq,     \* nasdaqTrend.json: when it was fetched, and its newest row
  fear,       \* fearGreed.json: the same
  mood,       \* engine.state.fearGreedData: its newest day
  failures,   \* failures and restarts so far
  down,       \* auxiliary: the feeds whose last fetch failed or was late
  used        \* auxiliary: what the last cycle read; NoReading before it

feedVars == <<hour, turn, dvol, nasdaq, fear, mood, failures, down, used>>

NoFile == [at |-> Never, newest |-> Never]
NoReading == [vol |-> [c \in VolCoins |-> Never], row |-> Never, mood |-> Never, partial |-> FALSE]

FeedsInit ==
  /\ hour \in Day .. 2 * Day - 1 /\ turn = "boot"
  /\ dvol = [last |-> [c \in VolCoins |-> Never], partial |-> FALSE]
  /\ nasdaq = NoFile /\ fear = NoFile /\ mood = Never
  /\ failures = 0 /\ down = {} /\ used = NoReading

Failure == failures < MaxFailures /\ failures' = failures + 1

\* A file is within its time to live.  At the limit, it depends on the seconds.
Within(file, ttl, close) == file.at # Never /\ (hour - file.at < ttl \/ (hour - file.at = ttl /\ close))

-----------------------------------------------------------------------------
(* Implied volatility. *)

LastClosed == hour \div HalfDay - 1

FreshVol(d) == \A c \in VolCoins : d.last[c] >= LastClosed

\* Mutant of Stored: the forming bar is stored with the others.
WithTheForming(answer) == [c \in VolCoins |-> answer[c] + 1]

\* The closed bars of an answer.
Stored(answer) == answer

\* loadDvolHistory, given each coin's newest closed bar in the answer; no answer changes nothing.
\* The window that is fetched covers, and so corrects, all bars stored lately.
VolLoaded(d, answer) ==
  IF FreshVol(d) \/ answer = [c \in VolCoins |-> Never] THEN d
  ELSE LET stored == Stored(answer)
       IN [last |-> [c \in VolCoins |-> Max({d.last[c], stored[c]})],
           partial |-> \E c \in VolCoins : stored[c] > LastClosed]

\* An answer: all closed bars, without a coin's newest, or none at all.
Answers == {[c \in VolCoins |-> Never]} \cup [VolCoins -> {LastClosed - 1, LastClosed} \cap Nat]
Full(answer) == \A c \in VolCoins : answer[c] = LastClosed

\* impliedVolAsOf: the newest closed bar, unless it closed a day ago.
VolOf(d, c) ==
  LET bar == Min({d.last[c], LastClosed})
  IN IF bar = Never \/ hour - HalfDay * (bar + 1) >= Day THEN Never ELSE bar

-----------------------------------------------------------------------------
(* The NASDAQ. *)

\* A day's close is printed in the day's last hours, and usable from the next midnight on.
Printed(h) == (h + 1) \div Day - 1
Visible == hour \div Day - 1

NasdaqTtl == HalfDay

\* loadNasdaqHistory: a failed fetch leaves the stale file in use, however old.
NasdaqLoaded(ok, close) ==
  IF Within(nasdaq, NasdaqTtl, close) \/ ~ok THEN nasdaq
  ELSE [at |-> hour, newest |-> Printed(hour)]

\* computeEquityRiskOff reads no row of today.
RowOf(file) == Min({file.newest, Visible})

-----------------------------------------------------------------------------
(* Fear & greed. *)

\* loadFearGreedHistory, once, after the cycle of the boot.
LoadMood ==
  /\ turn = "loading" /\ turn' = "idle"
  /\ \E ok, close \in BOOLEAN :
       LET file == IF Within(fear, Day, close) \/ ~ok THEN fear ELSE [at |-> hour, newest |-> hour \div Day]
       IN /\ Within(fear, Day, close) => ok
          /\ IF ok THEN UNCHANGED failures ELSE Failure
          /\ fear' = file
          /\ mood' = IF ok THEN file.newest ELSE Never
  /\ UNCHANGED <<hour, dvol, nasdaq, down, used>>

\* getFearGreedValue: the entry of today, or neutral.
MoodOf == IF mood = hour \div Day THEN mood ELSE Never

-----------------------------------------------------------------------------
(* The cycle, time and restarts. *)

\* The sleeve loads the NASDAQ once and the volatility for each coin, the second a retry.
FeedCycle ==
  /\ turn \in {"boot", "due"}
  /\ turn' = IF turn = "boot" THEN "loading" ELSE "idle"
  /\ \E ok, close \in BOOLEAN, first, second \in Answers :
       LET dvol1 == VolLoaded(dvol, first)
           late  == {a \in {<<dvol, first>>, <<dvol1, second>>} : ~FreshVol(a[1]) /\ ~Full(a[2])}
       IN /\ FreshVol(dvol) => Full(first)
          /\ FreshVol(dvol1) => Full(second)
          /\ Within(nasdaq, NasdaqTtl, close) => ok
          /\ IF ok /\ late = {} THEN UNCHANGED failures ELSE Failure
          /\ nasdaq' = NasdaqLoaded(ok, close)
          /\ dvol' = VolLoaded(dvol1, second)
          /\ down' = {f \in {"nasdaq"} : IF Within(nasdaq, NasdaqTtl, close) THEN f \in down ELSE ~ok}
                     \cup {f \in {"dvol"} : late # {}}
          /\ used' = [vol |-> [c \in VolCoins |-> VolOf(IF c = "BTC" THEN dvol1 ELSE dvol', c)],
                      row |-> RowOf(nasdaq'), mood |-> MoodOf, partial |-> dvol1.partial \/ dvol'.partial]
  /\ UNCHANGED <<hour, fear, mood>>

Passes4h ==
  /\ turn = "idle" /\ hour < Horizon
  /\ hour' = hour + 1 /\ turn' = IF hour' % HalfDay = 0 THEN "due" ELSE "idle"
  /\ used' = NoReading
  /\ UNCHANGED <<dvol, nasdaq, fear, mood, failures, down>>

\* The process ends and boots.  The files that are not renamed into place may be torn: they read as none.
Restart ==
  /\ Failure /\ turn' = "boot" /\ mood' = Never /\ used' = NoReading
  /\ \/ UNCHANGED <<nasdaq, fear>>
     \/ turn \in {"boot", "due"} /\ nasdaq' = NoFile /\ UNCHANGED fear
     \/ turn = "loading" /\ fear' = NoFile /\ UNCHANGED nasdaq
  /\ UNCHANGED <<hour, dvol, down>>

FeedsNext == LoadMood \/ FeedCycle \/ Passes4h \/ Restart
FeedsSpec == FeedsInit /\ [][FeedsNext]_feedVars

-----------------------------------------------------------------------------
(* Properties. *)

\* The sleeve sizes on the volatility that closed at the last boundary, and on its final
\* value, unless the feed failed or was late in this very cycle: no bar that was fetched while
\* it formed, in a boot at any hour, is ever taken for its close; and the overlay is at most
\* one daily close behind, unless its last fetch failed.  (loadDvolHistory: "a time-to-live
\* would let a cycle size on the bar before it, which the replay never does"; "a stored
\* forming bar would ... freeze a partial value into the series"; loadNasdaqHistory.)
SizesKeepUp ==
  used # NoReading =>
    /\ ~used.partial
    /\ "dvol" \notin down => \A c \in VolCoins : used.vol[c] = LastClosed
    /\ "nasdaq" \notin down => used.row >= Visible - 1

\* main.js:769: "Load Fear & Greed history once (its own TTL handles staleness)".  With no
\* failure so far, what a timer's cycle has in memory is not older than that TTL of a day.
MoodIsKept == used # NoReading /\ turn = "idle" /\ failures = 0 => mood >= hour \div Day - 1
=============================================================================
