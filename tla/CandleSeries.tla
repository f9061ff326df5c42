---------------------------- MODULE CandleSeries ----------------------------
(***************************************************************************)
(* The bars a decision is made on, from the exchange to the reader: the     *)
(* history on disk (exchange/candleCache.js), its load at boot (main.js),    *)
(* the download script, the series in memory (dashboardState.updateCandles), *)
(* the fetch of a cycle and the series its readers take (core/engine.js).    *)
(*                                                                          *)
(* Time counts periods; a cycle runs seconds after a period opens, or at     *)
(* boot.  A bar is "part" when it was fetched while its period ran, and      *)
(* "whole" after.  A series is a function from the periods of its bars.      *)
(***************************************************************************)
EXTENDS Integers, FiniteSets, FiniteSetsExt

CONSTANTS
  Coins,
  Btc,           \* the coin of the macro filter and the regime: always traded
  Frozen,        \* coins that may stop trading
  Window,        \* candleLimit: bars of a cycle's fetch
  Total,         \* historicalCandles: bars of a cold load
  Kept,          \* CANDLE_WINDOW: bars a merge keeps
  Overlap,       \* bars a warm load fetches again
  MaxStale,      \* maxCandleStalenessPeriods
  Start, MaxT,   \* bounds: the first and the last period
  MaxFaults      \* bound: failed fetches, crashes and missed cycles

ASSUME CandleAssumption ==
  /\ Btc \in Coins /\ Frozen \subseteq Coins \ {Btc}
  /\ {Window, Total, Kept, Overlap, MaxStale} \subseteq Nat \ {0}
  /\ Kept >= Total /\ Total > Window
  /\ Start \in Nat /\ MaxT \in Nat /\ MaxFaults \in Nat

VARIABLES
  t,         \* the period that runs
  printed,   \* coins whose running period has a bar
  frozen,    \* coins that have stopped trading: the period of the last bar
  disk,      \* data/candles: the series of each coin
  mem,       \* dashboardState.candleMap
  stage,     \* the process: "down", "booted", "deciding", "idle", "due"
  fetched,   \* coins whose fetch brought bars this cycle
  ok,        \* auxiliary: successful fetches of a coin since its series was last empty
  faults     \* faults so far

candleVars == <<t, printed, frozen, disk, mem, stage, fetched, ok, faults>>

None    == <<>>
Empty(s)    == DOMAIN s = {}
Newest(s)   == Max(DOMAIN s)
From(s, k)  == [i \in {i \in DOMAIN s : i >= k} |-> s[i]]
Trimmed(s, n)  == IF Empty(s) THEN s ELSE From(s, Newest(s) - n + 1)

\* The bars of two series, of a period that both have the first one's.
Over(new, old) == [k \in DOMAIN new \cup DOMAIN old |-> IF k \in DOMAIN new THEN new[k] ELSE old[k]]

-----------------------------------------------------------------------------
(* The exchange. *)

Top(c) == IF c \in DOMAIN frozen THEN frozen[c] ELSE IF c \in printed THEN t ELSE t - 1
Bars(c) == [k \in 0 .. Top(c) |-> IF k < t THEN "whole" ELSE "part"]

\* fetchOHLCV, and fetchHistoricalOHLCV: the bars that opened in the last n periods.
Fetch(c, n)   == Trimmed(Bars(c), n)
History(c, n) == From(Bars(c), t - n + 1)

-----------------------------------------------------------------------------
(* Merging. *)

\* mergeCandles: payload-wins.
Merged(old, payload) == Trimmed(Over(payload, old), Kept)

Size(s) == Cardinality(DOMAIN s)

\* updateCandles.
Updated(old, payload) == IF Size(payload) >= Size(old) THEN Trimmed(payload, Kept) ELSE Merged(old, payload)

\* Mutant of Saved: the file is overwritten.
SavedOver(file, s) == IF Empty(s) THEN file ELSE s

\* saveCachedCandles: the file keeps its bars older than the first new one, and nothing empties it.
Saved(file, s) ==
  IF Empty(s) THEN file ELSE Over(s, [k \in {k \in DOMAIN file : k < Min(DOMAIN s)} |-> file[k]])

-----------------------------------------------------------------------------
(* The series a reader takes. *)

Fresh(s) == t - Newest(s) < MaxStale

\* Mutant of WithFormingBar: no placeholder for a bar that has not printed.
WithoutPlaceholder(s) == s

\* withFormingBar: when the newest bar is the one before the running period's.
WithFormingBar(s) == IF Newest(s) = t - 1 THEN Over([k \in {t} |-> "part"], s) ELSE s

\* closedCandles, and what a strategy makes of its series: all but the last.
ClosedOf(s) == LET f == WithFormingBar(s) IN [k \in DOMAIN f \ {Newest(f)} |-> f[k]]

\* The closed bars of the market, up to the last.
IsClosed(s) == ~Empty(s) => /\ DOMAIN s = Min(DOMAIN s) .. t - 1
                            /\ \A k \in DOMAIN s : s[k] = "whole"

-----------------------------------------------------------------------------
Init ==
  /\ t = Start /\ printed \in {Coins, {Btc}} /\ frozen = None
  /\ disk = [c \in Coins |-> None]
  /\ mem = [c \in Coins |-> None]
  /\ stage = "down" /\ fetched = {}
  /\ ok = [c \in Coins |-> 0] /\ faults = 0

Process == <<mem, fetched, ok>>
Market  == <<t, printed, frozen>>

\* A step with n faults.
Faults(n) == faults + n <= MaxFaults /\ faults' = faults + n

\* The next period opens; a coin other than BTC may print its bar later.  A cycle that was
\* due and has not run (a suspended host) is missed.
Tick ==
  /\ t < MaxT /\ stage \in {"down", "idle", "due"}
  /\ t' = t + 1
  /\ \E q \in SUBSET (Coins \ DOMAIN frozen) : Btc \in q /\ printed' = q
  /\ stage' = IF stage = "down" THEN "down" ELSE "due"
  /\ Faults(IF stage = "due" THEN 1 ELSE 0)
  /\ UNCHANGED <<frozen, disk, Process>>

Prints(c) ==
  /\ c \notin printed /\ c \notin DOMAIN frozen
  /\ printed' = printed \cup {c}
  /\ UNCHANGED <<t, frozen, disk, Process, stage, faults>>

Freeze(c) ==
  /\ c \in Frozen \ DOMAIN frozen
  /\ frozen' = Over([k \in {c} |-> Top(c)], frozen)
  /\ UNCHANGED <<t, printed, disk, Process, stage, faults>>

\* The series a boot makes of a coin's file: all of it, the bars since its last one with the
\* tail again, or the file as it is when that bar is still forming.
Loaded(c) ==
  IF Empty(disk[c]) THEN History(c, Total)
  ELSE IF Newest(disk[c]) < t THEN Merged(disk[c], History(c, t - Newest(disk[c]) + Overlap))
  ELSE disk[c]

\* initializeHistoricalData: a coin whose load fails stays empty.
Boot(failing) ==
  /\ stage = "down" /\ Faults(Cardinality(failing))
  /\ failing \subseteq {c \in Coins : Empty(disk[c]) \/ Newest(disk[c]) < t}
  /\ mem' = [c \in Coins |-> IF c \in failing THEN None ELSE Updated(None, Loaded(c))]
  /\ disk' = [c \in Coins |-> IF c \in failing THEN disk[c] ELSE Saved(disk[c], Loaded(c))]
  /\ fetched' = {} /\ ok' = [c \in Coins |-> 0]
  /\ stage' = "booted"
  /\ UNCHANGED Market

\* The process dies in the write of a file: the next load finds no series in it.
TornSave(c) ==
  /\ stage = "down" /\ Faults(1)
  /\ disk' = [disk EXCEPT ![c] = None]
  /\ UNCHANGED <<Market, Process, stage>>

Kill ==
  /\ stage \in {"booted", "idle", "due"} /\ Faults(1)
  /\ stage' = "down" /\ mem' = [c \in Coins |-> None] /\ fetched' = {}
  /\ ok' = [c \in Coins |-> 0]
  /\ UNCHANGED <<Market, disk>>

\* downloadHistory.js, beside the bot or alone: the whole history when the file is short (or
\* to repair it), or forward from its last bar unless that is the running period's or the one
\* before.
Download(c, repair) ==
  /\ LET file == disk[c] IN
       \/ /\ Size(file) < Total \/ repair
          /\ disk' = [disk EXCEPT ![c] = Saved(file, History(c, Total))]
       \/ /\ Size(file) >= Total /\ ~repair /\ Newest(file) < t - 1
          /\ disk' = [disk EXCEPT ![c] = Saved(file, Over(History(c, t - Newest(file) + Overlap), file))]
  /\ UNCHANGED <<Market, Process, stage, faults>>

\* refreshSymbolCandles for every coin: a fetch that fails twice, or brings nothing, leaves
\* the series as it was.
Cycle(failing) ==
  /\ stage \in {"booted", "due"} /\ Faults(Cardinality(failing))
  /\ fetched' = Coins \ failing
  /\ mem' = [c \in Coins |-> IF c \in failing THEN mem[c] ELSE Updated(mem[c], Fetch(c, Window))]
  /\ ok' = [c \in Coins |-> IF c \in failing THEN ok[c] ELSE Min({ok[c] + 1, 2})]
  /\ stage' = "deciding"
  /\ UNCHANGED <<Market, disk>>

Decided ==
  /\ stage = "deciding" /\ stage' = "idle" /\ fetched' = {}
  /\ UNCHANGED <<Market, disk, mem, ok, faults>>

Next ==
  \/ Tick \/ Kill \/ Decided
  \/ \E failing \in SUBSET Coins : Boot(failing) \/ Cycle(failing)
  \/ \E c \in Coins : Prints(c) \/ Freeze(c) \/ TornSave(c) \/ \E repair \in BOOLEAN : Download(c, repair)

Spec == Init /\ [][Next]_candleVars

-----------------------------------------------------------------------------
(* Properties. *)

Loads == {c \in Coins : ~Empty(mem[c]) /\ Fresh(mem[c])}

\* What a cycle's scalper, macro filter and regime decide on, and the signals a boot shows
\* before its first cycle, is exactly the closed bars: the one that has just closed is there,
\* whole, also when the next has not printed; through failed fetches, restarts in any part of
\* a period, downloads and coins that stop trading.  (engine.js: runCycle, closedCandles.)
DecidesOnClosedBars ==
  /\ stage = "deciding" => \A c \in Loads \cap fetched : IsClosed(ClosedOf(mem[c]))
  /\ stage = "booted"   => \A c \in Loads : IsClosed(ClosedOf(mem[c]))

\* No load, save or download loses a bar of the file, though memory keeps fewer; only a write
\* that was cut off does.  (candleCache.js: "a paper boot destroyed the 6yr 12h backfill".)
HistoryIsKept ==
  [][\A c \in Coins : DOMAIN disk[c] \subseteq DOMAIN disk'[c] \/ TornSave(c)]_candleVars

\* engine.js:140-141: "Fetches a symbol's newest candles and merges them into the historical
\* cache, so indicators use the full history, not just the last 200 bars from the exchange."
FullHistory == stage = "deciding" => \A c \in fetched : ok[c] >= 2 => Size(mem[c]) > Window
=============================================================================
