------------------------------ MODULE MarketProofs ------------------------------
(***************************************************************************)
(* Proofs about what the bot reads of the market, for any coins, lengths of    *)
(* window, load, overlap and page, and any number of failures: no load, save   *)
(* or download loses a bar of a file, and every decision is made on exactly    *)
(* the closed bars (CandleSeries); the notices that stand are heeded            *)
(* (VenueNotices); the readings a cycle sizes on keep up (MarketFeeds); and      *)
(* what a span of past bars gives never changes (WalkForward).                 *)
(***************************************************************************)
EXTENDS CandleSeries, VenueNotices, MarketFeeds, WalkForward, FoldLemmas, TLAPS

(***************************************************************************)
(* Part one: the bars are the market's.                                     *)
(***************************************************************************)

MarketTypeOK ==
  /\ t \in Nat
  /\ \A c \in DOMAIN frozen : frozen[c] \in Int /\ frozen[c] <= t

\* A file and a series have no bar the market has not printed.
BarsInv ==
  /\ MarketTypeOK
  /\ DOMAIN disk = Coins
  /\ \A c \in Coins : DOMAIN disk[c] \subseteq 0 .. Top(c)

(***************************************************************************)
(* Part two: the bars of a series.                                          *)
(***************************************************************************)

\* A series has no gap, and only its newest bar may have been fetched while its period ran.
Series(s, top) ==
  /\ DOMAIN s \subseteq 0 .. top
  /\ \A i, j \in DOMAIN s : i .. j \subseteq DOMAIN s
  /\ \A i, j \in DOMAIN s : i < j => s[i] = "whole"

\* The bars of the periods that are over were fetched, or fetched again, after.
Exact(s) == \A k \in DOMAIN s : k < t => s[k] = "whole"

SeriesInv ==
  /\ MarketTypeOK
  /\ DOMAIN disk = Coins /\ DOMAIN mem = Coins
  /\ \A c \in Coins : Series(disk[c], Top(c)) /\ Series(mem[c], Top(c))
  /\ fetched \subseteq Coins
  /\ stage = "deciding" => \A c \in fetched : Exact(mem[c])
  /\ stage = "booted"   => \A c \in Coins : Exact(mem[c])

\* No fetch of a cycle begins after the newest bar in memory, and no whole download after the
\* newest bar of the file, unless the coin has none newer.
NoLongOutage ==
  \A c \in Coins :
    /\ ~Empty(mem[c])  => Top(c) - Newest(mem[c]) < Window
    /\ ~Empty(disk[c]) => t - Newest(disk[c]) < Total \/ Newest(disk[c]) = Top(c)

-----------------------------------------------------------------------------
(* The least and the greatest of a set of periods. *)

LEMMA LeastNat ==
  ASSUME NEW S \in SUBSET Nat, S # {}
  PROVE  \E n \in S : \A k \in S : n <= k
  <1>1. PICK n \in S : \A k \in S : ~(<<k, n>> \in OpToRel(<, Nat))
    BY NatLessThanWellFounded, WFMin
  <1>2. \A k \in S : ~(k < n)
    BY <1>1, Zenon DEF OpToRel
  <1> QED BY <1>2

LEMMA MinIs ==
  ASSUME NEW top \in Int, NEW S \in SUBSET (0 .. top), S # {}
  PROVE  Min(S) \in S /\ \A k \in S : Min(S) <= k
  <1>1. \E n \in S : \A k \in S : n <= k
    BY LeastNat
  <1> QED BY <1>1 DEF Min

LEMMA MaxIs ==
  ASSUME NEW top \in Int, NEW S \in SUBSET (0 .. top), S # {}
  PROVE  Max(S) \in S /\ \A k \in S : k <= Max(S)
  <1> DEFINE R == {n \in Nat : top - n \in S}
  <1>1. R # {}
    <2>1. PICK k \in S : TRUE
      OBVIOUS
    <2>2. top - k \in Nat /\ top - (top - k) = k
      OBVIOUS
    <2>3. top - k \in R
      BY <2>2
    <2> QED BY <2>3
  <1>2. PICK n \in R : \A m \in R : n <= m
    BY <1>1, LeastNat
  <1>3. ASSUME NEW k \in S PROVE k <= top - n
    <2>1. top - k \in Nat /\ top - (top - k) = k
      OBVIOUS
    <2>2. top - k \in R
      BY <2>1
    <2> QED BY <1>2, <2>2
  <1>4. top - n \in S
    BY <1>2
  <1> QED BY <1>3, <1>4 DEF Max

LEMMA NewestIs ==
  ASSUME NEW top \in Int, NEW s, DOMAIN s \subseteq 0 .. top, ~Empty(s)
  PROVE  /\ Newest(s) \in DOMAIN s /\ Newest(s) \in Int
         /\ \A k \in DOMAIN s : k <= Newest(s)
  <1>1. DOMAIN s \in SUBSET (0 .. top) /\ DOMAIN s # {}
    BY DEF Empty
  <1>2. Max(DOMAIN s) \in DOMAIN s /\ \A k \in DOMAIN s : k <= Max(DOMAIN s)
    BY <1>1, MaxIs
  <1> QED BY <1>2 DEF Newest

-----------------------------------------------------------------------------
(* The market only prints: its newest bar is never after the running period and never lost. *)

LEMMA TopIs == MarketTypeOK => \A c : Top(c) \in Int /\ Top(c) <= t
  BY DEF MarketTypeOK, Top

LEMMA TopGrows ==
  ASSUME MarketTypeOK, [Next]_candleVars
  PROVE  MarketTypeOK' /\ \A c \in Coins : Top(c) <= Top(c)'
  <1>1. CASE Tick
    BY <1>1 DEF Tick, Faults, MarketTypeOK, Top
  <1>2. ASSUME NEW d \in Coins, Prints(d) PROVE MarketTypeOK' /\ \A c \in Coins : Top(c) <= Top(c)'
    BY <1>2 DEF Prints, MarketTypeOK, Top
  <1>3. ASSUME NEW d \in Coins, Freeze(d) PROVE MarketTypeOK' /\ \A c \in Coins : Top(c) <= Top(c)'
    <2>1. /\ DOMAIN frozen' = {d} \cup DOMAIN frozen
          /\ \A c \in DOMAIN frozen' : frozen'[c] = IF c = d THEN Top(d) ELSE frozen[c]
          /\ UNCHANGED <<t, printed>>
      BY <1>3 DEF Freeze, Over
    <2>2. Top(d) \in Int /\ Top(d) <= t
      BY TopIs
    <2>3. MarketTypeOK'
      BY <2>1, <2>2 DEF MarketTypeOK
    <2>4. \A c \in Coins : Top(c)' = Top(c)
      BY <1>3, <2>1 DEF Freeze, Top
    <2> QED BY <2>3, <2>4, TopIs
  <1>4. CASE UNCHANGED <<t, printed, frozen>>
    BY <1>4 DEF MarketTypeOK, Top
  <1> QED
    BY <1>1, <1>2, <1>3, <1>4
    DEF Next, candleVars, Kill, Decided, Boot, Cycle, TornSave, Download, Market

-----------------------------------------------------------------------------
(* The domains of the operators. *)

LEMMA BarsAre ==
  ASSUME NEW c, NEW k
  PROVE  DOMAIN From(Bars(c), k) = {i \in 0 .. Top(c) : i >= k}
  BY DEF From, Bars

\* A trimmed series has every bar after its first.
LEMMA TrimmedIs ==
  ASSUME NEW top \in Int, NEW s, DOMAIN s \subseteq 0 .. top, NEW n \in Int
  PROVE  \/ Empty(s) /\ Trimmed(s, n) = s
         \/ ~Empty(s) /\ Newest(s) - n + 1 \in Int /\ Trimmed(s, n) = From(s, Newest(s) - n + 1)
  BY NewestIs DEF Trimmed

\* The bars of Over, and which of the two it takes.
LEMMA OverIs ==
  ASSUME NEW new, NEW old
  PROVE  /\ DOMAIN Over(new, old) = DOMAIN new \cup DOMAIN old
         /\ \A k \in DOMAIN new : Over(new, old)[k] = new[k]
         /\ \A k \in DOMAIN old : k \notin DOMAIN new => Over(new, old)[k] = old[k]
  BY DEF Over

\* A save keeps what the file has before the first new bar.
LEMMA SavedIs ==
  ASSUME NEW file, NEW s, ~Empty(s)
  PROVE  /\ DOMAIN Saved(file, s) = DOMAIN s \cup {k \in DOMAIN file : k < Min(DOMAIN s)}
         /\ \A k \in DOMAIN s : Saved(file, s)[k] = s[k]
         /\ \A k \in DOMAIN file : k < Min(DOMAIN s) /\ k \notin DOMAIN s => Saved(file, s)[k] = file[k]
  <1> DEFINE rest == [k \in {k \in DOMAIN file : k < Min(DOMAIN s)} |-> file[k]]
  <1>1. Saved(file, s) = Over(s, rest)
    BY DEF Saved
  <1>2. DOMAIN rest = {k \in DOMAIN file : k < Min(DOMAIN s)} /\ \A k \in DOMAIN rest : rest[k] = file[k]
    OBVIOUS
  <1> HIDE DEF rest
  <1>3. DOMAIN Over(s, rest) = DOMAIN s \cup DOMAIN rest
    BY OverIs
  <1>4. \A k \in DOMAIN s : Over(s, rest)[k] = s[k]
    BY OverIs
  <1>5. \A k \in DOMAIN rest : k \notin DOMAIN s => Over(s, rest)[k] = rest[k]
    BY OverIs
  <1> QED BY <1>1, <1>2, <1>3, <1>4, <1>5

\* What a save keeps: every bar of the file that the new series either has or begins after.
LEMMA SavedKeeps ==
  ASSUME NEW top \in Int, NEW file, NEW s, DOMAIN s \subseteq 0 .. top, DOMAIN file \subseteq 0 .. top,
         \A k \in DOMAIN file : \A i \in DOMAIN s : i <= k => k \in DOMAIN s
  PROVE  DOMAIN file \subseteq DOMAIN Saved(file, s) /\ DOMAIN Saved(file, s) \subseteq 0 .. top
  <1>1. CASE Empty(s)
    BY <1>1 DEF Saved
  <1>2. CASE ~Empty(s)
    <2>1. Min(DOMAIN s) \in DOMAIN s
      BY <1>2, MinIs DEF Empty
    <2>2. \A k \in DOMAIN file : k < Min(DOMAIN s) \/ k \in DOMAIN s
      BY <2>1
    <2> QED BY <1>2, <2>2, SavedIs
  <1> QED BY <1>1, <1>2

-----------------------------------------------------------------------------
(* Part one. *)

LEMMA BarsInit == Init => BarsInv
  <1>1. DOMAIN None = {}
    BY DEF None
  <1>2. Start \in Nat
    BY CandleAssumption
  <1> QED BY <1>1, CandleAssumption DEF Init, BarsInv, MarketTypeOK

\* The load of a boot: the bars of the market, and of the file's those after its first.
LEMMA LoadedKeeps ==
  ASSUME BarsInv, NEW c \in Coins
  PROVE  /\ DOMAIN Loaded(c) \subseteq 0 .. Top(c)
         /\ \A k \in DOMAIN disk[c] : \A i \in DOMAIN Loaded(c) : i <= k => k \in DOMAIN Loaded(c)
  <1> DEFINE H(n) == History(c, n)
  <1>0. Top(c) \in Int /\ DOMAIN disk[c] \subseteq 0 .. Top(c)
    BY TopIs DEF BarsInv
  <1>1. CASE Empty(disk[c])
    <2>1. Loaded(c) = From(Bars(c), t - Total + 1)
      BY <1>1 DEF Loaded, History
    <2>2. DOMAIN Loaded(c) = {i \in 0 .. Top(c) : i >= t - Total + 1}
      BY <2>1, BarsAre
    <2> QED BY <1>1, <2>2 DEF Empty
  <1>2. CASE ~Empty(disk[c]) /\ Newest(disk[c]) < t
    <2> DEFINE p == History(c, t - Newest(disk[c]) + Overlap)
               u == Over(p, disk[c])
    <2>1. Loaded(c) = Trimmed(u, Kept)
      BY <1>2 DEF Loaded, Merged
    <2>2. DOMAIN p \subseteq 0 .. Top(c)
      BY BarsAre DEF History
    <2>3. DOMAIN u = DOMAIN p \cup DOMAIN disk[c]
      BY OverIs
    <2> HIDE DEF p, u
    <2>4. ~Empty(u) /\ DOMAIN u \subseteq 0 .. Top(c)
      BY <1>0, <1>2, <2>2, <2>3 DEF Empty
    <2>5. Newest(u) \in Int /\ Trimmed(u, Kept) = From(u, Newest(u) - Kept + 1)
      BY <2>4, <1>0, NewestIs DEF Trimmed
    <2>6. DOMAIN Loaded(c) = {i \in DOMAIN u : i >= Newest(u) - Kept + 1}
      BY <2>1, <2>5 DEF From
    <2>7. Kept \in Int
      BY CandleAssumption
    <2> QED BY <1>0, <2>3, <2>4, <2>5, <2>6, <2>7
  <1>3. CASE ~Empty(disk[c]) /\ ~(Newest(disk[c]) < t)
    BY <1>0, <1>3 DEF Loaded
  <1> QED BY <1>1, <1>2, <1>3

\* What a download writes: all the bars of the last Total periods, or the file with those
\* after its last.
LEMMA DownloadKeeps ==
  ASSUME BarsInv, NEW c \in Coins, NEW repair \in BOOLEAN, Download(c, repair)
  PROVE  /\ DOMAIN disk' = Coins
         /\ \A d \in Coins : DOMAIN disk[d] \subseteq DOMAIN disk'[d] /\ DOMAIN disk'[d] \subseteq 0 .. Top(d)
  <1> DEFINE whole == History(c, Total)
             ahead == Over(History(c, t - Newest(disk[c]) + Overlap), disk[c])
  <1>0. \A d \in Coins : Top(d) \in Int /\ DOMAIN disk[d] \subseteq 0 .. Top(d)
    BY TopIs DEF BarsInv
  <1>1. \/ disk' = [disk EXCEPT ![c] = Saved(disk[c], whole)]
        \/ disk' = [disk EXCEPT ![c] = Saved(disk[c], ahead)]
    BY DEF Download
  <1>2. DOMAIN whole = {i \in 0 .. Top(c) : i >= t - Total + 1}
    BY BarsAre DEF History
  <1>3. DOMAIN ahead = DOMAIN History(c, t - Newest(disk[c]) + Overlap) \cup DOMAIN disk[c]
    BY OverIs
  <1>4. DOMAIN History(c, t - Newest(disk[c]) + Overlap) \subseteq 0 .. Top(c)
    BY BarsAre DEF History
  <1> HIDE DEF whole, ahead
  <1>5. DOMAIN disk[c] \subseteq DOMAIN Saved(disk[c], whole) /\ DOMAIN Saved(disk[c], whole) \subseteq 0 .. Top(c)
    <2>1. t - Total + 1 \in Int
      BY CandleAssumption DEF BarsInv, MarketTypeOK
    <2>2. \A k \in DOMAIN disk[c] : \A i \in DOMAIN whole : i <= k => k \in DOMAIN whole
      BY <1>0, <1>2, <2>1
    <2>3. DOMAIN whole \subseteq 0 .. Top(c)
      BY <1>2
    <2> QED BY <1>0, <2>2, <2>3, SavedKeeps
  <1>6. DOMAIN disk[c] \subseteq DOMAIN Saved(disk[c], ahead) /\ DOMAIN Saved(disk[c], ahead) \subseteq 0 .. Top(c)
    BY <1>0, <1>3, <1>4, SavedKeeps
  <1>7. ASSUME NEW d \in Coins
        PROVE  DOMAIN disk[d] \subseteq DOMAIN disk'[d] /\ DOMAIN disk'[d] \subseteq 0 .. Top(d)
    <2>1. CASE d # c
      <3>1. disk'[d] = disk[d]
        BY <1>1, <2>1 DEF BarsInv
      <3> QED BY <1>0, <3>1
    <2>2. CASE d = c
      <3>1. disk'[c] = Saved(disk[c], whole) \/ disk'[c] = Saved(disk[c], ahead)
        BY <1>1 DEF BarsInv
      <3> QED BY <1>5, <1>6, <2>2, <3>1
    <2> QED BY <2>1, <2>2
  <1> QED BY <1>1, <1>7 DEF BarsInv

\* What a boot writes.
LEMMA BootKeeps ==
  ASSUME BarsInv, NEW failing, Boot(failing)
  PROVE  /\ DOMAIN disk' = Coins
         /\ \A d \in Coins : DOMAIN disk[d] \subseteq DOMAIN disk'[d] /\ DOMAIN disk'[d] \subseteq 0 .. Top(d)
  <1>1. disk' = [c \in Coins |-> IF c \in failing THEN disk[c] ELSE Saved(disk[c], Loaded(c))]
    BY DEF Boot
  <1>2. ASSUME NEW d \in Coins
        PROVE  DOMAIN disk[d] \subseteq DOMAIN disk'[d] /\ DOMAIN disk'[d] \subseteq 0 .. Top(d)
    <2>1. Top(d) \in Int /\ DOMAIN disk[d] \subseteq 0 .. Top(d)
      BY TopIs DEF BarsInv
    <2>2. DOMAIN disk[d] \subseteq DOMAIN Saved(disk[d], Loaded(d)) /\ DOMAIN Saved(disk[d], Loaded(d)) \subseteq 0 .. Top(d)
      BY <2>1, LoadedKeeps, SavedKeeps
    <2> QED BY <1>1, <2>1, <2>2
  <1> QED BY <1>1, <1>2

\* Every step keeps the bars of every file, a write that is cut off excepted.
LEMMA BarsStep ==
  ASSUME BarsInv, [Next]_candleVars
  PROVE  BarsInv' /\ \A c \in Coins : DOMAIN disk[c] \subseteq DOMAIN disk'[c] \/ TornSave(c)
  <1>1. MarketTypeOK' /\ \A c \in Coins : Top(c) <= Top(c)'
    BY TopGrows DEF BarsInv
  <1>2. /\ MarketTypeOK /\ DOMAIN disk = Coins
        /\ \A c \in Coins : DOMAIN disk[c] \subseteq 0 .. Top(c)
    BY DEF BarsInv
  <1>3. \A c \in Coins : Top(c) \in Int /\ Top(c)' \in Int
    <2>1. MarketTypeOK' => \A c : Top(c)' \in Int
      BY DEF MarketTypeOK, Top
    <2> QED BY <1>1, <1>2, <2>1, TopIs
  <1>4. ASSUME DOMAIN disk' = Coins,
               \A c \in Coins : DOMAIN disk[c] \subseteq DOMAIN disk'[c] /\ DOMAIN disk'[c] \subseteq 0 .. Top(c)
        PROVE  BarsInv' /\ \A c \in Coins : DOMAIN disk[c] \subseteq DOMAIN disk'[c] \/ TornSave(c)
    <2>1. \A c \in Coins : DOMAIN disk'[c] \subseteq 0 .. Top(c)'
      BY <1>1, <1>3, <1>4
    <2> QED BY <1>1, <1>4, <2>1 DEF BarsInv
  <1>5. ASSUME NEW d \in Coins, TornSave(d)
        PROVE  BarsInv' /\ \A c \in Coins : DOMAIN disk[c] \subseteq DOMAIN disk'[c] \/ TornSave(c)
    <2>1. disk' = [disk EXCEPT ![d] = None] /\ DOMAIN None = {}
      BY <1>5 DEF TornSave, None
    <2>2. \A c \in Coins : IF c = d THEN DOMAIN disk'[c] = {} ELSE disk'[c] = disk[c]
      BY <1>2, <2>1
    <2>3. \A c \in Coins : DOMAIN disk'[c] \subseteq 0 .. Top(c)'
      BY <1>1, <1>2, <1>3, <2>2
    <2>4. \A c \in Coins : DOMAIN disk[c] \subseteq DOMAIN disk'[c] \/ TornSave(c)
      BY <1>5, <2>2
    <2> QED BY <1>1, <1>2, <2>1, <2>3, <2>4 DEF BarsInv
  <1>6. ASSUME NEW failing \in SUBSET Coins, Boot(failing)
        PROVE  BarsInv' /\ \A c \in Coins : DOMAIN disk[c] \subseteq DOMAIN disk'[c] \/ TornSave(c)
    BY <1>4, <1>6, BootKeeps
  <1>7. ASSUME NEW c \in Coins, NEW repair \in BOOLEAN, Download(c, repair)
        PROVE  BarsInv' /\ \A d \in Coins : DOMAIN disk[d] \subseteq DOMAIN disk'[d] \/ TornSave(d)
    BY <1>4, <1>7, DownloadKeeps
  <1>8. CASE UNCHANGED disk
    BY <1>2, <1>4, <1>8
  <1> QED
    BY <1>5, <1>6, <1>7, <1>8
    DEF Next, candleVars, Tick, Kill, Decided, Cycle, Prints, Freeze

(* No load, save or download loses a bar of a file, whatever memory keeps of it *)
(* (saveCachedCandles and mergeCandles in src/src/exchange/candleCache.js,        *)
(* initializeHistoricalData in src/src/main.js): for any coins, lengths and       *)
(* outages.                                                                      *)
THEOREM FilesKeepTheirBars == Spec => HistoryIsKept
  <1>1. BarsInv /\ [Next]_candleVars => BarsInv'
    BY BarsStep
  <1>2. BarsInv /\ [Next]_candleVars
          => [\A c \in Coins : DOMAIN disk[c] \subseteq DOMAIN disk'[c] \/ TornSave(c)]_candleVars
    BY BarsStep
  <1> QED BY BarsInit, <1>1, <1>2, PTL DEF Spec, HistoryIsKept

-----------------------------------------------------------------------------
(* What the operators make of a series. *)

LEMMA EmptySeries == \A top : Series(None, top) /\ Exact(None)
  <1>1. DOMAIN None = {}
    BY DEF None
  <1> QED BY <1>1 DEF Series, Exact

\* The bars the exchange gives.
LEMMA PayloadIs ==
  ASSUME MarketTypeOK, NEW c, NEW k \in Int
  PROVE  Series(From(Bars(c), k), Top(c)) /\ Exact(From(Bars(c), k))
  <1> DEFINE p == From(Bars(c), k)
  <1>1. DOMAIN p = {i \in 0 .. Top(c) : i >= k}
    BY BarsAre
  <1>2. \A i \in DOMAIN p : p[i] = IF i < t THEN "whole" ELSE "part"
    BY DEF From, Bars
  <1>3. Top(c) \in Int /\ Top(c) <= t /\ t \in Nat
    BY TopIs DEF MarketTypeOK
  <1> HIDE DEF p
  <1>4. \A i, j \in DOMAIN p : i .. j \subseteq DOMAIN p
    BY <1>1, <1>3
  <1>5. \A i, j \in DOMAIN p : i < j => p[i] = "whole"
    BY <1>1, <1>2, <1>3
  <1>6. Series(p, Top(c)) /\ Exact(p)
    BY <1>1, <1>2, <1>4, <1>5 DEF Series, Exact
  <1> QED BY <1>6 DEF p

\* The newest n bars of a series.
LEMMA TrimmedSeries ==
  ASSUME NEW top \in Int, NEW s, Series(s, top), NEW n \in Int
  PROVE  Series(Trimmed(s, n), top) /\ (Exact(s) => Exact(Trimmed(s, n)))
  <1>1. CASE Empty(s)
    BY <1>1 DEF Trimmed
  <1>2. CASE ~Empty(s)
    <2>1. Newest(s) - n + 1 \in Int
      BY <1>2, NewestIs DEF Series
    <2> DEFINE lo == Newest(s) - n + 1
               r  == From(s, lo)
    <2>2. Trimmed(s, n) = r
      BY <1>2 DEF Trimmed
    <2> HIDE DEF lo
    <2>3. DOMAIN r = {i \in DOMAIN s : i >= lo} /\ \A i \in DOMAIN r : r[i] = s[i]
      BY DEF From
    <2> HIDE DEF r
    <2>4. \A i, j \in DOMAIN r : i .. j \subseteq DOMAIN r
      BY <2>1, <2>3 DEF Series, lo
    <2>5. \A i, j \in DOMAIN r : i < j => r[i] = "whole"
      BY <2>3 DEF Series
    <2>6. Series(r, top)
      BY <2>3, <2>4, <2>5 DEF Series
    <2>7. Exact(s) => Exact(r)
      BY <2>3 DEF Exact
    <2> QED BY <2>2, <2>6, <2>7
  <1> QED BY <1>1, <1>2

\* Bars fetched from k on, over a series that reaches k: no gap, and its newest bar again.
LEMMA OverSeries ==
  ASSUME MarketTypeOK, NEW c, NEW k \in Int, NEW s, Series(s, Top(c)),
         \A i \in DOMAIN s : \E x \in DOMAIN s : x >= k
  PROVE  Series(Over(From(Bars(c), k), s), Top(c)) /\ Exact(Over(From(Bars(c), k), s))
  <1> DEFINE p == From(Bars(c), k)
             u == Over(p, s)
  <1>1. DOMAIN p = {i \in 0 .. Top(c) : i >= k}
    BY BarsAre
  <1>2. Series(p, Top(c)) /\ Exact(p)
    BY PayloadIs
  <1>3. Top(c) \in Int /\ Top(c) <= t /\ t \in Nat
    BY TopIs DEF MarketTypeOK
  <1> HIDE DEF p
  <1>4. DOMAIN u = DOMAIN p \cup DOMAIN s
    BY OverIs
  <1>5. /\ \A i \in DOMAIN p : u[i] = p[i]
        /\ \A i \in DOMAIN s : i \notin DOMAIN p => u[i] = s[i]
    BY OverIs
  <1> HIDE DEF u
  <1>6. DOMAIN s \subseteq 0 .. Top(c) /\ DOMAIN u \subseteq 0 .. Top(c)
    BY <1>1, <1>4 DEF Series
  \* A bar that is not fetched again is older than one of the series.
  <1>7. ASSUME NEW i \in DOMAIN s, i \notin DOMAIN p
        PROVE  i < k /\ \E x \in DOMAIN s : x >= k /\ i < x
    <2>1. PICK x \in DOMAIN s : x >= k
      OBVIOUS
    <2> QED BY <1>1, <1>6, <1>7, <2>1
  <1>8. ASSUME NEW i \in DOMAIN s, i \notin DOMAIN p PROVE u[i] = "whole"
    BY <1>5, <1>7, <1>8 DEF Series
  <1>9. ASSUME NEW i \in DOMAIN u, NEW j \in DOMAIN u, NEW h \in i .. j PROVE h \in DOMAIN u
    <2>1. h \in 0 .. Top(c)
      BY <1>3, <1>6
    <2>2. CASE h >= k
      BY <1>1, <1>4, <2>1, <2>2
    <2>3. CASE h < k
      <3>1. i \in DOMAIN s
        BY <1>1, <1>4, <1>6, <2>3
      <3>2. PICK x \in DOMAIN s : x >= k
        BY <3>1
      <3>3. h \in i .. x
        BY <1>6, <2>1, <2>3, <3>2
      <3>4. h \in DOMAIN s
        BY <3>1, <3>2, <3>3 DEF Series
      <3> QED BY <1>4, <3>4
    <2> QED BY <2>1, <2>2, <2>3
  <1>10. \A i, j \in DOMAIN u : i .. j \subseteq DOMAIN u
    BY <1>9
  <1>11. \A i, j \in DOMAIN u : i < j => u[i] = "whole"
    <2> SUFFICES ASSUME NEW i \in DOMAIN u, NEW j \in DOMAIN u, i < j PROVE u[i] = "whole"
      OBVIOUS
    <2>1. i < t
      BY <1>3, <1>6
    <2> QED BY <1>2, <1>4, <1>5, <1>8, <2>1 DEF Exact
  <1>12. Exact(u)
    BY <1>2, <1>4, <1>5, <1>8 DEF Exact
  <1>13. Series(u, Top(c))
    BY <1>6, <1>10, <1>11 DEF Series
  <1> QED BY <1>12, <1>13 DEF u, p

\* A save of a series that begins no later than the file's newest bar.
LEMMA SavedSeries ==
  ASSUME NEW top \in Int, NEW file, NEW s, Series(file, top), Series(s, top),
         \A k \in DOMAIN file : \A m \in DOMAIN s : \E x \in DOMAIN file : \E i \in DOMAIN s : i <= x
  PROVE  Series(Saved(file, s), top)
  <1>1. CASE Empty(s)
    BY <1>1 DEF Saved
  <1>2. CASE ~Empty(s)
    <2> DEFINE r  == Saved(file, s)
               lo == Min(DOMAIN s)
    <2>1. lo \in DOMAIN s /\ \A k \in DOMAIN s : lo <= k
      BY <1>2, MinIs DEF Empty, Series
    <2> HIDE DEF lo
    <2>2. /\ DOMAIN r = DOMAIN s \cup {k \in DOMAIN file : k < lo}
          /\ \A k \in DOMAIN s : r[k] = s[k]
          /\ \A k \in DOMAIN file : k < lo /\ k \notin DOMAIN s => r[k] = file[k]
      BY <1>2, SavedIs DEF lo
    <2> HIDE DEF r
    <2>3. DOMAIN s \subseteq 0 .. top /\ DOMAIN file \subseteq 0 .. top
      BY DEF Series
    <2>4. ASSUME NEW k \in DOMAIN file PROVE \E x \in DOMAIN file : lo <= x
      <3>1. PICK x \in DOMAIN file, i \in DOMAIN s : i <= x
        BY <2>1
      <3> QED BY <2>1, <2>3, <3>1
    <2>5. ASSUME NEW i \in DOMAIN r, NEW j \in DOMAIN r, NEW h \in i .. j PROVE h \in DOMAIN r
      <3>1. h \in 0 .. top /\ i \in 0 .. top /\ j \in 0 .. top
        BY <2>2, <2>3
      <3>2. CASE h >= lo
        <4>1. j \in DOMAIN s
          BY <2>1, <2>2, <2>3, <3>1, <3>2
        <4>2. h \in lo .. j
          BY <2>1, <2>3, <3>1, <3>2
        <4> QED BY <2>1, <2>2, <4>1, <4>2 DEF Series
      <3>3. CASE h < lo
        <4>1. i \in DOMAIN file
          BY <2>1, <2>2, <2>3, <3>1, <3>3
        <4>2. PICK x \in DOMAIN file : lo <= x
          BY <2>4, <4>1
        <4>3. h \in i .. x
          BY <2>1, <2>3, <3>1, <3>3, <4>2
        <4>4. h \in DOMAIN file
          BY <4>1, <4>2, <4>3 DEF Series
        <4> QED BY <2>2, <3>3, <4>4
      <3> QED BY <2>1, <2>3, <3>1, <3>2, <3>3
    <2>6. ASSUME NEW i \in DOMAIN r, NEW j \in DOMAIN r, i < j PROVE r[i] = "whole"
      <3>1. CASE i \in DOMAIN s
        <4>1. j \in DOMAIN s
          BY <2>1, <2>2, <2>3, <2>6, <3>1
        <4> QED BY <2>2, <2>6, <3>1, <4>1 DEF Series
      <3>2. CASE i \notin DOMAIN s
        <4>1. i \in DOMAIN file /\ i < lo /\ r[i] = file[i]
          BY <2>2, <3>2
        <4>2. PICK x \in DOMAIN file : lo <= x
          BY <2>4, <4>1
        <4>3. i < x
          BY <2>1, <2>3, <4>1, <4>2
        <4> QED BY <4>1, <4>2, <4>3 DEF Series
      <3> QED BY <3>1, <3>2
    <2>7. DOMAIN r \subseteq 0 .. top
      BY <2>2, <2>3
    <2>8. Series(r, top)
      BY <2>5, <2>6, <2>7 DEF Series
    <2> QED BY <2>8 DEF r
  <1> QED BY <1>1, <1>2

\* A series over an empty one is itself.
LEMMA OverNone ==
  ASSUME NEW top, NEW s, Series(s, top), Exact(s)
  PROVE  Series(Over(s, None), top) /\ Exact(Over(s, None))
  <1>1. DOMAIN None = {}
    BY DEF None
  <1>2. DOMAIN Over(s, None) = DOMAIN s
    BY <1>1 DEF Over
  <1>3. \A k \in DOMAIN s : Over(s, None)[k] = s[k]
    BY OverIs
  <1> QED BY <1>2, <1>3 DEF Series, Exact

LEMMA SeriesGrows ==
  ASSUME NEW top \in Int, NEW top2 \in Int, top <= top2, NEW s, Series(s, top)
  PROVE  Series(s, top2)
  BY DEF Series

-----------------------------------------------------------------------------
(* Part two. *)

LEMMA SeriesInit == Init => SeriesInv
  <1> SUFFICES ASSUME Init PROVE SeriesInv
    OBVIOUS
  <1>1. MarketTypeOK /\ DOMAIN disk = Coins
    BY BarsInit DEF BarsInv
  <1>2. \A c \in Coins : disk[c] = None /\ mem[c] = None
    BY DEF Init
  <1>3. DOMAIN mem = Coins /\ stage = "down" /\ fetched = {}
    BY DEF Init
  <1>4. \A c \in Coins : Series(disk[c], Top(c)) /\ Series(mem[c], Top(c))
    BY <1>2, EmptySeries
  <1> QED BY <1>1, <1>3, <1>4 DEF SeriesInv

\* The load of a boot.
LEMMA LoadedSeries ==
  ASSUME SeriesInv, NoLongOutage, NEW c \in Coins
  PROVE  /\ Series(Loaded(c), Top(c)) /\ Exact(Loaded(c))
         /\ Series(Saved(disk[c], Loaded(c)), Top(c))
  <1> DEFINE file == disk[c]
             n    == Newest(file)
  <1>0. /\ MarketTypeOK /\ Series(file, Top(c))
        /\ Top(c) \in Int /\ Top(c) <= t /\ t \in Nat
    BY TopIs DEF SeriesInv, MarketTypeOK
  <1>1. CASE Empty(file)
    <2>1. Loaded(c) = From(Bars(c), t - Total + 1) /\ t - Total + 1 \in Int
      BY <1>0, <1>1, CandleAssumption DEF Loaded, History
    <2>2. Series(Loaded(c), Top(c)) /\ Exact(Loaded(c))
      BY <1>0, <2>1, PayloadIs
    <2>3. \A k \in DOMAIN file : FALSE
      BY <1>1 DEF Empty
    <2>4. Series(Saved(file, Loaded(c)), Top(c))
      BY <1>0, <2>2, <2>3, SavedSeries
    <2> QED BY <2>2, <2>4
  <1>2. CASE ~Empty(file)
    <2>1. n \in DOMAIN file /\ n \in Int /\ (\A k \in DOMAIN file : k <= n) /\ n <= Top(c)
      BY <1>0, <1>2, NewestIs DEF Series
    <2>2. CASE n < t
      <3> DEFINE u == Over(From(Bars(c), n - Overlap + 1), file)
      <3>1. Overlap \in Nat \ {0} /\ Kept \in Nat \ {0} /\ Total \in Nat /\ Total <= Kept
        BY CandleAssumption
      <3>2. n - Overlap + 1 \in Int /\ t - (t - n + Overlap) + 1 = n - Overlap + 1 /\ n >= n - Overlap + 1
        BY <1>0, <2>1, <3>1
      <3>3. Loaded(c) = Trimmed(u, Kept)
        BY <1>2, <2>2, <3>2 DEF Loaded, Merged, History
      <3>4. Series(u, Top(c)) /\ Exact(u)
        BY <1>0, <2>1, <3>2, OverSeries
      <3>5. Series(Loaded(c), Top(c)) /\ Exact(Loaded(c))
        BY <1>0, <3>1, <3>3, <3>4, TrimmedSeries
      <3>6. DOMAIN file \subseteq DOMAIN u
        BY DEF Over
      <3> HIDE DEF u
      <3>7. ~Empty(u) /\ Newest(u) \in Int /\ Newest(u) <= Top(c)
        <4>1. ~Empty(u)
          BY <1>2, <3>6 DEF Empty
        <4> QED BY <1>0, <3>4, <4>1, NewestIs DEF Series
      <3>8. n \in DOMAIN Loaded(c)
        <4>1. t - n < Total \/ n = Top(c)
          BY <1>2 DEF NoLongOutage
        <4>2. n >= Newest(u) - Kept + 1
          BY <1>0, <2>1, <3>1, <3>7, <4>1
        <4>3. Loaded(c) = From(u, Newest(u) - Kept + 1)
          BY <3>3, <3>7 DEF Trimmed
        <4> QED BY <2>1, <3>6, <4>2, <4>3 DEF From
      <3>9. Series(Saved(file, Loaded(c)), Top(c))
        <4>1. \A k \in DOMAIN file : \A m \in DOMAIN Loaded(c) : \E x \in DOMAIN file : \E i \in DOMAIN Loaded(c) : i <= x
          BY <2>1, <3>8
        <4> QED BY <1>0, <3>5, <4>1, SavedSeries
      <3> QED BY <3>5, <3>9
    <2>3. CASE ~(n < t)
      <3>1. Loaded(c) = file
        BY <1>2, <2>3 DEF Loaded
      <3>2. \A k \in DOMAIN file : k < t => k < n
        BY <1>0, <2>1, <2>3 DEF Series
      <3>3. Exact(file)
        BY <1>0, <2>1, <3>2 DEF Series, Exact
      <3>4. \A k \in DOMAIN file : k <= k
        BY <1>0 DEF Series
      <3>5. Series(Saved(file, file), Top(c))
        BY <1>0, <3>4, SavedSeries
      <3> QED BY <1>0, <3>1, <3>3, <3>5
    <2> QED BY <2>2, <2>3
  <1> QED BY <1>1, <1>2

\* The fetch of a cycle, merged into memory.
LEMMA FetchIs ==
  ASSUME MarketTypeOK, NEW c
  PROVE  \E k \in Int : Fetch(c, Window) = From(Bars(c), k) /\ (k = 0 \/ k = Top(c) - Window + 1)
  <1>1. Top(c) \in Int /\ Window \in Nat
    BY TopIs, CandleAssumption
  <1>2. DOMAIN Bars(c) = 0 .. Top(c)
    BY DEF Bars
  <1>3. CASE Empty(Bars(c))
    <2>1. Bars(c) = From(Bars(c), 0)
      BY <1>1 DEF From, Bars
    <2>2. Fetch(c, Window) = Bars(c)
      BY <1>3 DEF Fetch, Trimmed
    <2> QED BY <2>1, <2>2
  <1>4. CASE ~Empty(Bars(c))
    <2>1. Newest(Bars(c)) \in 0 .. Top(c) /\ \A k \in 0 .. Top(c) : k <= Newest(Bars(c))
      BY <1>1, <1>2, <1>4, NewestIs
    <2>2. Newest(Bars(c)) = Top(c)
      BY <1>1, <2>1
    <2>3. Fetch(c, Window) = From(Bars(c), Top(c) - Window + 1)
      BY <1>4, <2>2 DEF Fetch, Trimmed
    <2> QED BY <1>1, <2>3
  <1> QED BY <1>3, <1>4

LEMMA CycleSeries ==
  ASSUME SeriesInv, NoLongOutage, NEW c \in Coins
  PROVE  Series(Updated(mem[c], Fetch(c, Window)), Top(c)) /\ Exact(Updated(mem[c], Fetch(c, Window)))
  <1>0. MarketTypeOK /\ Series(mem[c], Top(c)) /\ Top(c) \in Int /\ Window \in Nat /\ Kept \in Int
    BY TopIs, CandleAssumption DEF SeriesInv
  <1>1. PICK k \in Int : Fetch(c, Window) = From(Bars(c), k) /\ (k = 0 \/ k = Top(c) - Window + 1)
    BY <1>0, FetchIs
  <1> DEFINE p == From(Bars(c), k)
  <1>2. Series(p, Top(c)) /\ Exact(p)
    BY <1>0, PayloadIs
  <1>3. ASSUME NEW i \in DOMAIN mem[c] PROVE \E x \in DOMAIN mem[c] : x >= k
    <2>1. ~Empty(mem[c]) /\ DOMAIN mem[c] \subseteq 0 .. Top(c)
      BY <1>0, <1>3 DEF Empty, Series
    <2>2. Newest(mem[c]) \in DOMAIN mem[c] /\ Newest(mem[c]) \in Int
      BY <1>0, <2>1, NewestIs
    <2>3. Top(c) - Newest(mem[c]) < Window
      BY <2>1 DEF NoLongOutage
    <2>4. Newest(mem[c]) >= k
      BY <1>0, <1>1, <2>1, <2>2, <2>3
    <2> QED BY <2>2, <2>4
  <1>4. Series(Over(p, mem[c]), Top(c)) /\ Exact(Over(p, mem[c]))
    BY <1>0, <1>3, OverSeries
  <1> HIDE DEF p
  <1>5. \/ Updated(mem[c], p) = Trimmed(p, Kept)
        \/ Updated(mem[c], p) = Trimmed(Over(p, mem[c]), Kept)
    BY DEF Updated, Merged
  <1>6. Series(Updated(mem[c], p), Top(c)) /\ Exact(Updated(mem[c], p))
    BY <1>0, <1>2, <1>4, <1>5, TrimmedSeries
  <1> QED BY <1>1, <1>6 DEF p

\* What a download leaves in the file.
LEMMA DownloadSeries ==
  ASSUME SeriesInv, NoLongOutage, NEW c \in Coins, NEW repair \in BOOLEAN, Download(c, repair)
  PROVE  DOMAIN disk' = Coins /\ \A d \in Coins : Series(disk'[d], Top(d))
  <1> DEFINE file  == disk[c]
             n     == Newest(file)
             whole == From(Bars(c), t - Total + 1)
             ahead == Over(From(Bars(c), n - Overlap + 1), file)
  <1>0. /\ MarketTypeOK /\ Series(file, Top(c))
        /\ Top(c) \in Int /\ Top(c) <= t /\ t \in Nat
        /\ Total \in Nat \ {0} /\ Overlap \in Nat \ {0}
    BY TopIs, CandleAssumption DEF SeriesInv, MarketTypeOK
  <1>1. ~Empty(file) => n \in DOMAIN file /\ n \in Int /\ n <= Top(c) /\ n >= 0 /\ (t - n < Total \/ n = Top(c))
    BY <1>0, NewestIs DEF Series, NoLongOutage
  <1>2. CASE disk' = [disk EXCEPT ![c] = Saved(file, whole)]
    <2>1. Series(whole, Top(c))
      BY <1>0, PayloadIs
    <2>2. DOMAIN whole = {i \in 0 .. Top(c) : i >= t - Total + 1}
      BY BarsAre
    <2> HIDE DEF whole
    <2>3. ASSUME NEW k \in DOMAIN file, NEW m \in DOMAIN whole
          PROVE  \E x \in DOMAIN file : \E i \in DOMAIN whole : i <= x
      <3>1. n \in DOMAIN file /\ n \in Int /\ n <= Top(c) /\ n >= 0 /\ (t - n < Total \/ n = Top(c))
        BY <1>1, <2>3 DEF Empty
      <3>2. n \in DOMAIN whole
        BY <1>0, <2>2, <2>3, <3>1
      <3> QED BY <3>1, <3>2
    <2>4. Series(Saved(file, whole), Top(c))
      BY <1>0, <2>1, <2>3, SavedSeries
    <2> QED BY <1>2, <2>4 DEF SeriesInv
  <1>3. CASE ~(disk' = [disk EXCEPT ![c] = Saved(file, whole)])
    <2>1. /\ Size(file) >= Total /\ n < t - 1
          /\ disk' = [disk EXCEPT ![c] = Saved(file, Over(From(Bars(c), t - (t - n + Overlap) + 1), file))]
      BY <1>3 DEF Download, History
    <2>2. ~Empty(file)
      <3>1. SUFFICES ASSUME DOMAIN file = {} PROVE FALSE
        BY DEF Empty
      <3>2. Size(file) = 0
        BY <3>1, FS_EmptySet DEF Size
      <3> QED BY <1>0, <2>1, <3>2
    <2>3. n - Overlap + 1 \in Int /\ t - (t - n + Overlap) + 1 = n - Overlap + 1 /\ n >= n - Overlap + 1
      BY <1>0, <1>1, <2>2
    <2>4. Series(ahead, Top(c))
      BY <1>0, <1>1, <2>2, <2>3, OverSeries
    <2>5. DOMAIN file \subseteq DOMAIN ahead
      BY DEF Over
    <2>6. disk' = [disk EXCEPT ![c] = Saved(file, ahead)]
      BY <2>1, <2>3
    <2> HIDE DEF ahead
    <2>7. \A k \in DOMAIN file : k \in DOMAIN ahead /\ k <= k
      BY <1>0, <2>5 DEF Series
    <2>8. Series(Saved(file, ahead), Top(c))
      BY <1>0, <2>4, <2>7, SavedSeries
    <2> QED BY <2>6, <2>8 DEF SeriesInv
  <1> QED BY <1>2, <1>3

LEMMA SeriesStep == SeriesInv /\ NoLongOutage /\ [Next]_candleVars => SeriesInv'
  <1> SUFFICES ASSUME SeriesInv, NoLongOutage, [Next]_candleVars PROVE SeriesInv'
    OBVIOUS
  <1>0. /\ MarketTypeOK /\ DOMAIN disk = Coins /\ DOMAIN mem = Coins /\ fetched \subseteq Coins
        /\ \A c \in Coins : Series(disk[c], Top(c)) /\ Series(mem[c], Top(c))
        /\ stage = "deciding" => \A c \in fetched : Exact(mem[c])
        /\ stage = "booted"   => \A c \in Coins : Exact(mem[c])
    BY DEF SeriesInv
  <1>1. MarketTypeOK' /\ \A c \in Coins : Top(c) <= Top(c)'
    BY <1>0, TopGrows
  <1>2. \A c \in Coins : Top(c) \in Int /\ Top(c)' \in Int
    <2>1. MarketTypeOK' => \A c : Top(c)' \in Int
      BY DEF MarketTypeOK, Top
    <2> QED BY <1>0, <1>1, <2>1, TopIs
  \* A series of now is one of the next state.
  <1>3. ASSUME NEW c \in Coins, NEW s, Series(s, Top(c)) PROVE Series(s, Top(c)')
    BY <1>1, <1>2, <1>3, SeriesGrows
  <1>4. ASSUME UNCHANGED <<disk, mem>>, fetched' \subseteq Coins, stage' \notin {"deciding", "booted"}
        PROVE  SeriesInv'
    <2>1. \A c \in Coins : Series(disk[c], Top(c)') /\ Series(mem[c], Top(c)')
      BY <1>0, <1>3
    <2> QED BY <1>0, <1>1, <1>4, <2>1 DEF SeriesInv
  <1>5. ASSUME UNCHANGED <<t, mem, fetched, stage>>, DOMAIN disk' = Coins,
               \A c \in Coins : Series(disk'[c], Top(c))
        PROVE  SeriesInv'
    <2>1. \A c \in Coins : Series(disk'[c], Top(c)') /\ Series(mem[c], Top(c)')
      <3> SUFFICES ASSUME NEW c \in Coins PROVE Series(disk'[c], Top(c)') /\ Series(mem[c], Top(c)')
        OBVIOUS
      <3>1. Series(disk'[c], Top(c)) /\ Series(mem[c], Top(c))
        BY <1>0, <1>5
      <3>2. /\ Series(disk'[c], Top(c)) => Series(disk'[c], Top(c)')
            /\ Series(mem[c], Top(c)) => Series(mem[c], Top(c)')
        BY <1>1, <1>2 DEF Series
      <3> QED BY <3>1, <3>2
    <2>2. \A c \in Coins : Exact(mem[c])' <=> Exact(mem[c])
      BY <1>5 DEF Exact
    <2> QED BY <1>0, <1>1, <1>5, <2>1, <2>2 DEF SeriesInv
  <1>6. CASE Tick
    BY <1>0, <1>4, <1>6 DEF Tick, Process
  <1>7. CASE Kill
    <2>1. \A c \in Coins : mem'[c] = None /\ disk'[c] = disk[c]
      BY <1>7 DEF Kill
    <2>2. \A c \in Coins : Series(disk[c], Top(c)') /\ Series(None, Top(c)')
      BY <1>0, <1>3, EmptySeries
    <2>3. DOMAIN disk' = Coins /\ DOMAIN mem' = Coins /\ fetched' = {} /\ stage' = "down"
      BY <1>0, <1>7 DEF Kill
    <2> QED BY <1>1, <2>1, <2>2, <2>3 DEF SeriesInv
  <1>8. CASE Decided
    BY <1>0, <1>4, <1>8 DEF Decided
  <1>9. ASSUME NEW failing \in SUBSET Coins, Boot(failing) PROVE SeriesInv'
    <2>1. /\ UNCHANGED <<t, printed, frozen>> /\ fetched' = {} /\ stage' = "booted"
          /\ mem' = [c \in Coins |-> IF c \in failing THEN None ELSE Updated(None, Loaded(c))]
          /\ disk' = [c \in Coins |-> IF c \in failing THEN disk[c] ELSE Saved(disk[c], Loaded(c))]
      BY <1>9 DEF Boot, Market
    <2>2. ASSUME NEW c \in Coins
          PROVE  Series(disk'[c], Top(c)) /\ Series(mem'[c], Top(c)) /\ Exact(mem'[c])
      <3>1. /\ Series(Loaded(c), Top(c)) /\ Exact(Loaded(c))
            /\ Series(Saved(disk[c], Loaded(c)), Top(c))
        BY LoadedSeries
      <3>2. \/ Updated(None, Loaded(c)) = Trimmed(Loaded(c), Kept)
            \/ Updated(None, Loaded(c)) = Trimmed(Over(Loaded(c), None), Kept)
        BY DEF Updated, Merged
      <3>3. Kept \in Int /\ Top(c) \in Int
        BY <1>2, CandleAssumption
      <3>4. Series(Over(Loaded(c), None), Top(c)) /\ Exact(Over(Loaded(c), None))
        BY <3>1, OverNone
      <3>5. Series(Updated(None, Loaded(c)), Top(c)) /\ Exact(Updated(None, Loaded(c)))
        BY <3>1, <3>2, <3>3, <3>4, TrimmedSeries
      <3> QED BY <1>0, <2>1, <3>1, <3>5, EmptySeries
    <2>3. \A c \in Coins : Top(c)' = Top(c) /\ (Exact(mem'[c]) => Exact(mem[c])')
      BY <2>1 DEF Top, Exact
    <2> QED BY <1>1, <2>1, <2>2, <2>3 DEF SeriesInv
  <1>10. ASSUME NEW failing \in SUBSET Coins, Cycle(failing) PROVE SeriesInv'
    <2>1. /\ UNCHANGED <<t, printed, frozen, disk>> /\ fetched' = Coins \ failing /\ stage' = "deciding"
          /\ mem' = [c \in Coins |-> IF c \in failing THEN mem[c] ELSE Updated(mem[c], Fetch(c, Window))]
      BY <1>10 DEF Cycle, Market
    <2>2. ASSUME NEW c \in Coins
          PROVE  Series(mem'[c], Top(c)) /\ (c \in fetched' => Exact(mem'[c]))
      BY <1>0, <2>1, CycleSeries
    <2>3. \A c \in Coins : Top(c)' = Top(c) /\ (Exact(mem'[c]) => Exact(mem[c])')
      BY <2>1 DEF Top, Exact
    <2> QED BY <1>0, <1>1, <2>1, <2>2, <2>3 DEF SeriesInv
  <1>11. ASSUME NEW d \in Coins, Prints(d) \/ Freeze(d) PROVE SeriesInv'
    <2>1. UNCHANGED <<t, disk, mem, fetched, stage>>
      BY <1>11 DEF Prints, Freeze, Process
    <2> QED BY <1>0, <1>5, <2>1
  <1>12. ASSUME NEW d \in Coins, TornSave(d) PROVE SeriesInv'
    <2>1. UNCHANGED <<t, mem, fetched, stage>> /\ disk' = [disk EXCEPT ![d] = None]
      BY <1>12 DEF TornSave, Market, Process
    <2>2. \A c \in Coins : disk'[c] = None \/ disk'[c] = disk[c]
      BY <1>0, <2>1
    <2>3. \A c \in Coins : Series(disk'[c], Top(c))
      BY <1>0, <2>2, EmptySeries
    <2> QED BY <1>0, <1>5, <2>1, <2>3
  <1>13. ASSUME NEW c \in Coins, NEW repair \in BOOLEAN, Download(c, repair) PROVE SeriesInv'
    <2>1. UNCHANGED <<t, mem, fetched, stage>>
      BY <1>13 DEF Download, Market, Process
    <2>2. DOMAIN disk' = Coins /\ \A d \in Coins : Series(disk'[d], Top(d))
      BY <1>13, DownloadSeries
    <2> QED BY <1>5, <2>1, <2>2
  <1>14. CASE UNCHANGED candleVars
    <2>1. UNCHANGED <<t, disk, mem, fetched, stage>>
      BY <1>14 DEF candleVars
    <2> QED BY <1>0, <1>5, <2>1
  <1> QED
    BY <1>6, <1>7, <1>8, <1>9, <1>10, <1>11, <1>12, <1>13, <1>14 DEF Next

\* What a reader makes of a series that reaches the last closed bar.
LEMMA ClosedSeries ==
  ASSUME MarketTypeOK, MaxStale <= 2, NEW top \in Int, top <= t,
         NEW s, Series(s, top), Exact(s), ~Empty(s), Fresh(s)
  PROVE  IsClosed(ClosedOf(s))
  <1> DEFINE n == Newest(s)
             f == WithFormingBar(s)
             r == ClosedOf(s)
  <1>1. n \in DOMAIN s /\ n \in Int /\ (\A k \in DOMAIN s : k <= n) /\ DOMAIN s \subseteq 0 .. top
    BY NewestIs DEF Series
  <1>2. n = t \/ n = t - 1
    BY <1>1, CandleAssumption DEF Fresh, MarketTypeOK
  <1>3. DOMAIN f = DOMAIN s \cup {t} /\ \A k \in DOMAIN s : k < t => f[k] = s[k]
    <2>1. CASE n = t
      <3>1. f = s
        BY <2>1 DEF WithFormingBar, MarketTypeOK
      <3> QED BY <1>1, <2>1, <3>1
    <2>2. CASE n = t - 1
      <3>1. f = Over([k \in {t} |-> "part"], s)
        BY <2>2 DEF WithFormingBar
      <3>2. DOMAIN f = DOMAIN s \cup {t}
        BY <3>1 DEF Over
      <3>3. \A k \in DOMAIN s : k < t => f[k] = s[k]
        BY <1>1, <3>1 DEF Over, MarketTypeOK
      <3> QED BY <3>2, <3>3
    <2> QED BY <1>2, <2>1, <2>2
  <1> HIDE DEF f
  <1>4. Newest(f) = t
    <2>1. ~Empty(f) /\ DOMAIN f \subseteq 0 .. t
      BY <1>1, <1>3 DEF Empty, MarketTypeOK
    <2>2. Newest(f) \in DOMAIN f /\ \A k \in DOMAIN f : k <= Newest(f)
      BY <2>1, NewestIs DEF MarketTypeOK
    <2> QED BY <1>3, <2>1, <2>2 DEF MarketTypeOK
  <1>5. r = [k \in DOMAIN f \ {t} |-> f[k]]
    BY <1>4 DEF ClosedOf, f
  <1> HIDE DEF r
  <1>6. DOMAIN r = DOMAIN s \ {t} /\ \A k \in DOMAIN r : k < t /\ r[k] = s[k]
    BY <1>1, <1>3, <1>5 DEF MarketTypeOK
  <1>7. ASSUME ~Empty(r)
        PROVE  DOMAIN r = Min(DOMAIN r) .. t - 1 /\ \A k \in DOMAIN r : r[k] = "whole"
    <2> DEFINE m == Min(DOMAIN r)
    <2>1. m \in DOMAIN r /\ (\A k \in DOMAIN r : m <= k) /\ DOMAIN r \subseteq 0 .. top
      BY <1>1, <1>6, <1>7, MinIs DEF Empty
    <2> HIDE DEF m
    <2>2. \A k \in DOMAIN r : k \in m .. t - 1
      BY <1>1, <1>6, <2>1 DEF MarketTypeOK
    <2>3. ASSUME NEW k \in m .. t - 1 PROVE k \in DOMAIN r
      <3>1. k \in m .. n /\ k # t
        BY <1>1, <1>2, <2>1 DEF MarketTypeOK
      <3>2. k \in DOMAIN s
        BY <1>1, <1>6, <2>1, <3>1 DEF Series
      <3> QED BY <1>6, <3>1, <3>2
    <2>4. \A k \in DOMAIN r : r[k] = "whole"
      BY <1>6 DEF Exact
    <2> QED BY <2>2, <2>3, <2>4 DEF m
  <1> QED BY <1>7 DEF r, IsClosed

(* What a cycle decides on, and what a boot shows before its first cycle, is exactly     *)
(* the closed bars, for any windows, loads, overlaps and failures (closedCandles,         *)
(* withFormingBar and refreshSymbolCandles in src/src/core/engine.js), provided a series  *)
(* two periods old is refused (config/default.js) and no outage is longer than the fetch  *)
(* that follows it: one that is leaves a gap, or a bar of half a period, in the series.   *)
THEOREM DecisionsSeeTheClosedBars ==
  ASSUME MaxStale <= 2
  PROVE  Spec /\ []NoLongOutage => []DecidesOnClosedBars
  <1>1. SeriesInv => DecidesOnClosedBars
    <2> SUFFICES ASSUME SeriesInv PROVE DecidesOnClosedBars
      OBVIOUS
    <2>1. ASSUME NEW c \in Coins, c \in Loads, Exact(mem[c]) PROVE IsClosed(ClosedOf(mem[c]))
      <3>1. /\ MarketTypeOK /\ Top(c) \in Int /\ Top(c) <= t /\ Series(mem[c], Top(c))
            /\ ~Empty(mem[c]) /\ Fresh(mem[c])
        BY <2>1, TopIs DEF SeriesInv, Loads
      <3> QED BY <2>1, <3>1, ClosedSeries
    <2>2. stage = "deciding" => \A c \in Loads \cap fetched : IsClosed(ClosedOf(mem[c]))
      BY <2>1 DEF SeriesInv, Loads
    <2>3. stage = "booted" => \A c \in Loads : IsClosed(ClosedOf(mem[c]))
      BY <2>1 DEF SeriesInv, Loads
    <2> QED BY <2>2, <2>3 DEF DecidesOnClosedBars
  <1> QED BY SeriesInit, SeriesStep, <1>1, PTL DEF Spec

(***************************************************************************)
(* VenueNotices.                                                              *)
(***************************************************************************)

-----------------------------------------------------------------------------
(* The values the variables take. *)

Notice == [kind : NoticeKinds, at : Nat]
Vetoes == {"idle", "exit", "block", "free"}

NoticesTypeOK ==
  /\ period \in Nat
  /\ notices \in Seq(Notice)
  /\ cache \in [at : Nat \cup {-1}, seen : SUBSET (DOMAIN notices)]
  /\ cache.at <= period
  /\ known \subseteq DOMAIN notices
  /\ heeded \subseteq DOMAIN notices
  /\ behind \in BOOLEAN
  /\ veto \in Vetoes

\* What is known was cached, and the cache of no fetch holds nothing.
SeenInv ==
  /\ heeded \subseteq cache.seen
  /\ cache.at < 0 => cache.seen = {} /\ known = {}

\* A cache of this period, fetched whole, holds the older notices of the page.
PageInv ==
  cache.at = period /\ ~behind =>
    \A i \in Pages : notices[i].at < period => i \in cache.seen

\* A cycle that has run in this period went by the cache, and fetched it unless it failed to.
CycleInv ==
  veto # "idle" =>
    /\ known = cache.seen
    /\ veto = VetoOf(known)
    /\ ~behind => cache.at = period

HeedInv == NoticesTypeOK /\ SeenInv /\ PageInv /\ CycleInv

-----------------------------------------------------------------------------
(* The rule and the page. *)

\* A removal among some notices is one among more of them.
LEMMA RemovedGrows ==
  ASSUME NEW a, NEW b, a \subseteq b, Removed(a)
  PROVE  Removed(b)
  BY DEF Removed

\* A notice that a new one leaves on the page was on it.
LEMMA PageShrinks ==
  ASSUME NoticesTypeOK, NEW kind \in NoticeKinds, Announce(kind)
  PROVE  /\ notices' \in Seq(Notice) /\ DOMAIN notices \subseteq DOMAIN notices'
         /\ \A i \in DOMAIN notices : notices'[i] = notices[i]
         /\ \A i \in Pages' : i \in DOMAIN notices => i \in Pages
         /\ \A i \in DOMAIN notices' : i \in DOMAIN notices \/ notices'[i].at = period
  <1>1. /\ notices \in Seq(Notice) /\ notices' = Append(notices, [kind |-> kind, at |-> period])
        /\ [kind |-> kind, at |-> period] \in Notice
    BY DEF NoticesTypeOK, Announce, Notice
  <1>2. /\ notices' \in Seq(Notice) /\ DOMAIN notices = 1 .. Len(notices) /\ Len(notices) \in Nat
        /\ DOMAIN notices' = 1 .. Len(notices) + 1
        /\ \A i \in DOMAIN notices : notices'[i] = notices[i]
        /\ notices'[Len(notices) + 1] = [kind |-> kind, at |-> period]
    BY <1>1
  <1>3. ASSUME NEW i \in Pages', i \in DOMAIN notices PROVE i \in Pages
    <2> DEFINE newer  == {j \in DOMAIN notices : j > i /\ Catalog(j) = Catalog(i)}
               newer2 == {j \in DOMAIN notices' : j > i /\ Catalog(j)' = Catalog(i)'}
    <2>1. newer \subseteq newer2
      BY <1>2, <1>3 DEF Catalog
    <2>2. newer2 \subseteq 1 .. Len(notices) + 1
      BY <1>2
    <2>3. IsFiniteSet(newer2)
      <3>1. Len(notices) + 1 \in Int
        BY <1>2
      <3>2. IsFiniteSet(1 .. Len(notices) + 1)
        BY <3>1, FS_Interval
      <3> QED BY <2>2, <3>2, FS_Subset
    <2>4. Cardinality(newer) <= Cardinality(newer2) /\ Cardinality(newer) \in Nat /\ Cardinality(newer2) \in Nat
      BY <2>1, <2>3, FS_Subset, FS_CardinalityType
    <2>5. Cardinality(newer2) < PageSize
      BY <1>3 DEF Pages
    <2>6. Cardinality(newer) < PageSize
      BY <2>4, <2>5, NoticesAssumption
    <2> QED BY <1>3, <2>6 DEF Pages
  <1> QED BY <1>2, <1>3

-----------------------------------------------------------------------------
(* The steps. *)

LEMMA HeedInit == NoticesInit => HeedInv
  <1> SUFFICES ASSUME NoticesInit PROVE HeedInv
    OBVIOUS
  <1>1. /\ notices \in Seq(Notice) /\ DOMAIN notices = {} /\ cache = [at |-> -1, seen |-> {}] /\ period = 0
        /\ known = {} /\ heeded = {} /\ behind = FALSE /\ veto = "idle"
    BY DEF NoticesInit, NoCache
  <1>2. cache.at = -1 /\ cache.seen = {} /\ cache \in [at : Nat \cup {-1}, seen : SUBSET (DOMAIN notices)]
    BY <1>1
  <1>3. NoticesTypeOK
    <2>1. period \in Nat /\ cache.at <= period
      BY <1>1, <1>2
    <2>2. behind \in BOOLEAN /\ veto \in Vetoes
      BY <1>1, Zenon DEF Vetoes
    <2>3. known \subseteq DOMAIN notices /\ heeded \subseteq DOMAIN notices
      BY <1>1
    <2>4. notices \in Seq(Notice) /\ cache \in [at : Nat \cup {-1}, seen : SUBSET (DOMAIN notices)]
      BY <1>1, <1>2
    <2> QED BY <2>1, <2>2, <2>3, <2>4, Zenon DEF NoticesTypeOK
  <1>4. SeenInv /\ PageInv /\ CycleInv
    BY <1>1, <1>2 DEF SeenInv, PageInv, CycleInv
  <1> QED BY <1>3, <1>4 DEF HeedInv

LEMMA HeedAnnounce ==
  ASSUME HeedInv, NEW kind \in NoticeKinds, Announce(kind)
  PROVE  HeedInv'
  <1>1. /\ notices' \in Seq(Notice) /\ DOMAIN notices \subseteq DOMAIN notices'
        /\ \A i \in DOMAIN notices : notices'[i] = notices[i]
        /\ \A i \in Pages' : i \in DOMAIN notices => i \in Pages
        /\ \A i \in DOMAIN notices' : i \in DOMAIN notices \/ notices'[i].at = period
    BY PageShrinks DEF HeedInv
  <1>2. UNCHANGED <<period, cache, known, behind, heeded, veto>>
    BY DEF Announce
  <1>3. NoticesTypeOK'
    BY <1>1, <1>2 DEF HeedInv, NoticesTypeOK
  <1>4. SeenInv'
    BY <1>2 DEF HeedInv, SeenInv
  <1>5. PageInv'
    <2>1. \A i \in Pages' : i \in DOMAIN notices'
      BY DEF Pages
    <2> QED BY <1>1, <1>2, <2>1 DEF HeedInv, PageInv, NoticesTypeOK
  <1>6. CycleInv'
    <2>1. VetoOf(known)' = VetoOf(known)
      <3>1. \A i \in known : notices'[i] = notices[i]
        BY <1>1 DEF HeedInv, NoticesTypeOK
      <3> QED BY <1>2, <3>1 DEF VetoOf, Removed, Tagged
    <2> QED BY <1>2, <2>1 DEF HeedInv, CycleInv
  <1> QED BY <1>3, <1>4, <1>5, <1>6 DEF HeedInv

LEMMA HeedCycle ==
  ASSUME HeedInv, NEW cycle, Heeds(cycle)
  PROVE  HeedInv'
  <1>1. PICK failed \in BOOLEAN, lost \in SUBSET {i \in Pages \ cache.seen : NeedsBody(i)} :
          /\ behind' = IF Current(cache) THEN behind ELSE failed \/ lost # {}
          /\ cache' = Refreshed(failed, lost)
    BY DEF Heeds
  <1>2. /\ known' = IF cache'.at < 0 THEN known ELSE cache'.seen
        /\ veto' = VetoOf(known') /\ heeded' = heeded \cup known'
        /\ UNCHANGED <<period, notices>>
    BY DEF Heeds
  <1>3. Pages \subseteq DOMAIN notices /\ Pages' = Pages
    BY <1>2 DEF Pages, Catalog
  <1>4. /\ cache' \in [at : Nat \cup {-1}, seen : SUBSET (DOMAIN notices)]
        /\ cache'.at <= period /\ cache.seen \subseteq cache'.seen
        /\ cache'.at < 0 => cache' = cache
        /\ Current(cache) => cache' = cache
        /\ ~Current(cache) /\ ~failed => cache'.at = period /\ Pages \ lost \subseteq cache'.seen
    <2>1. CASE Current(cache) \/ failed
      BY <1>1, <2>1 DEF Refreshed, HeedInv, NoticesTypeOK
    <2>2. CASE ~(Current(cache) \/ failed)
      <3>1. cache' = [at |-> period, seen |-> cache.seen \cup (Pages \ lost)]
        BY <1>1, <2>2 DEF Refreshed, Ingested
      <3> QED BY <1>3, <2>2, <3>1 DEF HeedInv, NoticesTypeOK
    <2> QED BY <2>1, <2>2
  <1>5. known' = cache'.seen
    BY <1>2, <1>4 DEF HeedInv, SeenInv, NoticesTypeOK
  <1>6. ~behind' => cache'.at = period
    BY <1>1, <1>4 DEF Current
  <1>7. NoticesTypeOK'
    <2>1. VetoOf(known') \in Vetoes
      BY DEF VetoOf, Vetoes
    <2>2. veto' \in Vetoes
      BY <1>2, <2>1
    <2>3. behind' \in BOOLEAN
      BY <1>1 DEF HeedInv, NoticesTypeOK
    <2> QED BY <1>2, <1>4, <1>5, <2>2, <2>3 DEF HeedInv, NoticesTypeOK
  <1>8. SeenInv'
    BY <1>2, <1>4, <1>5 DEF HeedInv, SeenInv
  <1>9. PageInv'
    <2>1. CASE Current(cache)
      BY <1>1, <1>2, <1>3, <1>4, <2>1 DEF HeedInv, PageInv
    <2>2. CASE ~Current(cache)
      BY <1>1, <1>3, <1>4, <2>2 DEF PageInv
    <2> QED BY <2>1, <2>2
  <1>10. CycleInv'
    <2>1. VetoOf(known)' = VetoOf(known')
      <3>1. Removed(known)' = Removed(known') /\ Tagged(known)' = Tagged(known')
        BY <1>2 DEF Removed, Tagged
      <3> QED BY <3>1 DEF VetoOf
    <2> QED BY <1>2, <1>5, <1>6, <2>1 DEF CycleInv
  <1> QED BY <1>7, <1>8, <1>9, <1>10 DEF HeedInv

LEMMA HeedStep == HeedInv /\ [NoticesNext]_noticeVars => HeedInv'
  <1> SUFFICES ASSUME HeedInv, [NoticesNext]_noticeVars PROVE HeedInv'
    OBVIOUS
  <1>1. ASSUME NEW kind \in NoticeKinds, Announce(kind) PROVE HeedInv'
    BY <1>1, HeedAnnounce
  <1>2. ASSUME NEW cycle \in {"main", "breakout"}, Heeds(cycle) PROVE HeedInv'
    BY <1>2, HeedCycle
  <1>3. CASE NextPeriod
    BY <1>3 DEF NextPeriod, HeedInv, NoticesTypeOK, SeenInv, PageInv, CycleInv, Vetoes
  <1>4. CASE Reboot
    <2>1. UNCHANGED <<period, notices, cache, behind, heeded>> /\ known' = {} /\ veto' = "idle"
      BY <1>4 DEF Reboot
    <2>2. Pages' = Pages
      BY <2>1 DEF Pages, Catalog
    <2> QED BY <2>1, <2>2 DEF HeedInv, NoticesTypeOK, SeenInv, PageInv, CycleInv, Vetoes
  <1>5. CASE UNCHANGED noticeVars
    <2>1. UNCHANGED <<period, notices, cache, known, behind, heeded, veto>>
      BY <1>5 DEF noticeVars
    <2>2. Pages' = Pages /\ VetoOf(known)' = VetoOf(known)
      BY <2>1 DEF Pages, Catalog, VetoOf, Removed, Tagged
    <2> QED BY <2>1, <2>2 DEF HeedInv, NoticesTypeOK, SeenInv, PageInv, CycleInv
  <1> QED BY <1>1, <1>2, <1>3, <1>4, <1>5 DEF NoticesNext

-----------------------------------------------------------------------------
(* A standing removal sells and a standing tag blocks at the first cycle that starts *)
(* after the notice, unless the feed failed there, and what one cycle knew every      *)
(* later one knows (refreshExchangeEvents in src/src/core/engine.js, loadExchangeEvents *)
(* in src/src/data/exchangeEventsFeed.js): for any page, lead, grace and failures.      *)
THEOREM StandingNoticesHold == NoticesSpec => []NoticesAreHeeded
  <1>1. HeedInv => NoticesAreHeeded
    <2> SUFFICES ASSUME HeedInv, veto # "idle"
                 PROVE  LET before == {i \in DOMAIN notices : notices[i].at < period /\ i \in Pages \cup heeded}
                            tags   == {i \in DOMAIN notices : notices[i].kind \in {"tag", "untag"}}
                        IN  /\ heeded \subseteq known
                            /\ ~behind =>
                                 /\ Removed(before) => veto = "exit"
                                 /\ \A i \in before : notices[i].kind = "tag" /\ (\A j \in tags : j <= i) => veto # "free"
      BY DEF NoticesAreHeeded
    <2> DEFINE before == {i \in DOMAIN notices : notices[i].at < period /\ i \in Pages \cup heeded}
               tags   == {i \in DOMAIN notices : notices[i].kind \in {"tag", "untag"}}
    <2>1. heeded \subseteq known /\ veto = VetoOf(known) /\ known \subseteq DOMAIN notices
      BY DEF HeedInv, SeenInv, CycleInv, NoticesTypeOK
    <2>2. ASSUME ~behind PROVE before \subseteq known
      BY <2>1, <2>2 DEF HeedInv, PageInv, CycleInv
    <2>3. ASSUME ~behind, Removed(before) PROVE veto = "exit"
      <3>1. Removed(known)
        BY <2>2, <2>3, RemovedGrows
      <3> QED BY <2>1, <3>1 DEF VetoOf
    <2>4. ASSUME ~behind, NEW i \in before, notices[i].kind = "tag", \A j \in tags : j <= i
          PROVE  veto # "free"
      <3>1. i \in known
        BY <2>2, <2>4
      <3>2. ASSUME NEW j \in known, notices[j].kind = "untag" PROVE j < i
        <4>1. j \in DOMAIN notices /\ i \in DOMAIN notices /\ j <= i /\ j # i
          BY <2>1, <2>4, <3>2
        <4>2. i \in Int /\ j \in Int
          BY <4>1 DEF HeedInv, NoticesTypeOK
        <4> QED BY <4>1, <4>2
      <3>3. Tagged(known)
        BY <2>4, <3>1, <3>2 DEF Tagged
      <3> QED BY <2>1, <3>3 DEF VetoOf
    <2> QED BY <2>1, <2>3, <2>4
  <1> QED BY HeedInit, HeedStep, <1>1, PTL DEF NoticesSpec

(***************************************************************************)
(* MarketFeeds.                                                               *)
(***************************************************************************)

-----------------------------------------------------------------------------
(* The values the variables take. *)

Bar  == Nat \cup {Never}
Days == Int
File == [at : Nat \cup {Never}, newest : Days]
Vols == [last : [VolCoins -> Bar], partial : BOOLEAN]

FeedsTypeOK ==
  /\ hour \in Nat /\ hour >= Day
  /\ dvol \in Vols
  /\ nasdaq \in File

\* No bar was stored half-formed; the rows of a file are those of its fetch.
StoredInv ==
  /\ ~dvol.partial
  /\ nasdaq.at # Never => nasdaq.at <= hour /\ nasdaq.newest = Printed(nasdaq.at)

FeedsInv == FeedsTypeOK /\ StoredInv /\ SizesKeepUp

-----------------------------------------------------------------------------
(* Boundaries and midnights. *)

LEMMA Boundaries ==
  ASSUME NEW h \in Nat, h >= Day
  PROVE  /\ h \div HalfDay \in Nat /\ HalfDay * (h \div HalfDay) <= h /\ h < HalfDay * (h \div HalfDay) + HalfDay
         /\ h \div HalfDay >= 2
  BY DEF HalfDay, Day

LEMMA Midnights ==
  ASSUME NEW h \in Nat
  PROVE  h \div Day \in Nat /\ Day * (h \div Day) <= h /\ h < Day * (h \div Day) + Day
  BY DEF Day

LEMMA MaxOfTwo ==
  ASSUME NEW a \in Int, NEW b \in Int
  PROVE  Max({a, b}) \in {a, b} /\ Max({a, b}) >= a /\ Max({a, b}) >= b
  BY DEF Max

LEMMA MinOfTwo ==
  ASSUME NEW a \in Int, NEW b \in Int
  PROVE  Min({a, b}) = IF a <= b THEN a ELSE b
  BY DEF Min

LEMMA LastClosedType ==
  ASSUME FeedsTypeOK
  PROVE  LastClosed \in Nat /\ LastClosed >= 1 /\ hour - HalfDay * (LastClosed + 1) < Day
  <1>1. hour \in Nat /\ hour >= Day
    BY DEF FeedsTypeOK
  <1>2. PICK q \in Nat : q = hour \div HalfDay /\ HalfDay * q <= hour /\ hour < HalfDay * q + HalfDay /\ q >= 2
    BY <1>1, Boundaries
  <1> QED BY <1>1, <1>2 DEF LastClosed, HalfDay, Day

-----------------------------------------------------------------------------
(* Implied volatility. *)

\* A load keeps the bars, and has the last closed one of each coin unless the answer lacks it.
LEMMA VolLoads ==
  ASSUME FeedsTypeOK, NEW d \in Vols, ~d.partial, NEW a \in Answers
  PROVE  /\ VolLoaded(d, a) \in Vols /\ ~VolLoaded(d, a).partial
         /\ FreshVol(d) \/ Full(a) => \A c \in VolCoins : VolLoaded(d, a).last[c] >= LastClosed
  <1>1. LastClosed \in Nat /\ LastClosed >= 1
    BY LastClosedType
  <1>2. a \in [VolCoins -> Bar] /\ \A c \in VolCoins : a[c] <= LastClosed
    BY <1>1 DEF Answers, Bar, Never
  <1>3. CASE FreshVol(d)
    BY <1>3 DEF VolLoaded, FreshVol
  <1>4. CASE ~FreshVol(d) /\ a = [c \in VolCoins |-> Never]
    <2>1. ~Full(a)
      BY <1>1, <1>4 DEF Full, Never, VolCoins
    <2> QED BY <1>4, <2>1 DEF VolLoaded
  <1>5. CASE ~FreshVol(d) /\ a # [c \in VolCoins |-> Never]
    <2> DEFINE new == [c \in VolCoins |-> Max({d.last[c], a[c]})]
    <2>1. /\ VolLoaded(d, a).last = new
          /\ VolLoaded(d, a).partial = (\E c \in VolCoins : a[c] > LastClosed)
          /\ VolLoaded(d, a) = [last |-> new, partial |-> \E c \in VolCoins : a[c] > LastClosed]
      BY <1>5 DEF VolLoaded, Stored
    <2>2. ASSUME NEW c \in VolCoins PROVE new[c] \in Bar /\ new[c] >= a[c]
      <3>1. d.last[c] \in Bar /\ a[c] \in Bar
        BY <1>2 DEF Vols
      <3>2. Bar \subseteq Int
        BY DEF Bar, Never
      <3> QED BY <3>1, <3>2, MaxOfTwo
    <2>3. new \in [VolCoins -> Bar]
      BY <2>2
    <2>4. ~(\E c \in VolCoins : a[c] > LastClosed)
      BY <1>1, <1>2 DEF Bar, Never
    <2>5. Full(a) => \A c \in VolCoins : new[c] >= LastClosed
      BY <2>2 DEF Full
    <2> HIDE DEF new
    <2>6. VolLoaded(d, a) \in Vols
      BY <2>1, <2>3, <2>4 DEF Vols
    <2> QED BY <1>5, <2>1, <2>4, <2>5, <2>6
  <1> QED BY <1>3, <1>4, <1>5

\* The reading of a coin whose last closed bar is there.
LEMMA VolReads ==
  ASSUME FeedsTypeOK, NEW d \in Vols, NEW c \in VolCoins, d.last[c] >= LastClosed
  PROVE  VolOf(d, c) = LastClosed
  <1>1. LastClosed \in Nat /\ LastClosed >= 1 /\ hour - HalfDay * (LastClosed + 1) < Day
    BY LastClosedType
  <1>2. d.last[c] \in Int
    BY DEF Vols, Bar, Never
  <1>3. Min({d.last[c], LastClosed}) = LastClosed
    <2>1. PICK a \in Int : a = d.last[c]
      BY <1>2
    <2>2. PICK b \in Int : b = LastClosed
      BY <1>1
    <2>3. Min({a, b}) = IF a <= b THEN a ELSE b
      BY MinOfTwo
    <2> QED BY <2>1, <2>2, <2>3
  <1>4. HalfDay * (LastClosed + 1) \in Int /\ hour \in Int
    BY <1>1 DEF HalfDay, FeedsTypeOK
  <1>5. LastClosed # Never /\ ~(hour - HalfDay * (LastClosed + 1) >= Day)
    BY <1>1, <1>4 DEF Never, Day
  <1> QED BY <1>3, <1>5 DEF VolOf

-----------------------------------------------------------------------------
(* The NASDAQ. *)

\* A file within its time to live is at most a day's close behind.
LEMMA RowsKeepUp ==
  ASSUME FeedsTypeOK, NEW f \in File, f.at # Never, f.at <= hour, hour - f.at <= NasdaqTtl,
         f.newest = Printed(f.at)
  PROVE  RowOf(f) >= Visible - 1
  <1>1. hour \in Nat /\ f.at \in Nat
    BY DEF FeedsTypeOK, File
  <1>2. PICK p \in Nat : p = (f.at + 1) \div Day /\ Day * p <= f.at + 1 /\ f.at + 1 < Day * p + Day
    BY <1>1, Midnights
  <1>3. PICK v \in Nat : v = hour \div Day /\ Day * v <= hour /\ hour < Day * v + Day
    BY <1>1, Midnights
  <1>4. p >= v - 1
    BY <1>1, <1>2, <1>3 DEF Day, NasdaqTtl, HalfDay
  <1>5. f.newest = p - 1 /\ Visible = v - 1
    BY <1>2, <1>3 DEF Printed, Visible
  <1>6. Min({p - 1, v - 1}) = IF p - 1 <= v - 1 THEN p - 1 ELSE v - 1
    BY MinOfTwo
  <1> QED BY <1>4, <1>5, <1>6 DEF RowOf

LEMMA WithinMeans ==
  ASSUME FeedsTypeOK, NEW close, Within(nasdaq, NasdaqTtl, close)
  PROVE  nasdaq.at # Never /\ hour - nasdaq.at <= NasdaqTtl
  <1>1. hour \in Int /\ nasdaq.at \in Int
    BY DEF FeedsTypeOK, File, Never
  <1> QED BY <1>1 DEF Within, NasdaqTtl, HalfDay

LEMMA NasdaqLoads ==
  ASSUME FeedsTypeOK, StoredInv, NEW came \in BOOLEAN, NEW close \in BOOLEAN
  PROVE  /\ NasdaqLoaded(came, close) \in File
         /\ NasdaqLoaded(came, close).at # Never =>
              /\ NasdaqLoaded(came, close).at <= hour
              /\ NasdaqLoaded(came, close).newest = Printed(NasdaqLoaded(came, close).at)
         /\ Within(nasdaq, NasdaqTtl, close) \/ came => RowOf(NasdaqLoaded(came, close)) >= Visible - 1
  <1>1. CASE Within(nasdaq, NasdaqTtl, close)
    <2>1. NasdaqLoaded(came, close) = nasdaq
      BY <1>1 DEF NasdaqLoaded
    <2>2. RowOf(nasdaq) >= Visible - 1
      BY <1>1, WithinMeans, RowsKeepUp DEF StoredInv, FeedsTypeOK
    <2> QED BY <2>1, <2>2 DEF FeedsTypeOK, StoredInv
  <1>2. CASE ~Within(nasdaq, NasdaqTtl, close) /\ came
    <2> DEFINE new == [at |-> hour, newest |-> Printed(hour)]
    <2>1. NasdaqLoaded(came, close) = new
      BY <1>2 DEF NasdaqLoaded
    <2>2. Printed(hour) \in Int
      BY Midnights DEF Printed, FeedsTypeOK
    <2>3. new \in File /\ new.at = hour /\ new.newest = Printed(hour)
      BY <2>2 DEF File, Days, FeedsTypeOK
    <2>4. hour # Never /\ hour <= hour /\ hour - hour <= NasdaqTtl
      BY DEF FeedsTypeOK, Never, NasdaqTtl, HalfDay
    <2> HIDE DEF new
    <2>5. RowOf(new) >= Visible - 1
      BY <2>3, <2>4, RowsKeepUp
    <2> QED BY <2>1, <2>3, <2>4, <2>5
  <1>3. CASE ~Within(nasdaq, NasdaqTtl, close) /\ ~came
    BY <1>3 DEF NasdaqLoaded, FeedsTypeOK, StoredInv
  <1> QED BY <1>1, <1>2, <1>3

-----------------------------------------------------------------------------
(* The steps. *)

LEMMA KeepUpCycle ==
  ASSUME FeedsTypeOK, StoredInv, FeedCycle
  PROVE  FeedsInv'
  <1>1. PICK came \in BOOLEAN, close \in BOOLEAN, first \in Answers, second \in Answers :
          LET dvol1 == VolLoaded(dvol, first)
              late  == {a \in {<<dvol, first>>, <<dvol1, second>>} : ~FreshVol(a[1]) /\ ~Full(a[2])}
          IN  /\ nasdaq' = NasdaqLoaded(came, close)
              /\ dvol' = VolLoaded(dvol1, second)
              /\ down' = {f \in {"nasdaq"} : IF Within(nasdaq, NasdaqTtl, close) THEN f \in down ELSE ~came}
                         \cup {f \in {"dvol"} : late # {}}
              /\ used' = [vol |-> [c \in VolCoins |-> VolOf(IF c = "BTC" THEN dvol1 ELSE dvol', c)],
                          row |-> RowOf(nasdaq'), mood |-> MoodOf, partial |-> dvol1.partial \/ dvol'.partial]
    BY DEF FeedCycle
  <1> DEFINE dvol1 == VolLoaded(dvol, first)
  <1>2. UNCHANGED hour
    BY DEF FeedCycle
  <1>3. /\ dvol1 \in Vols /\ ~dvol1.partial
        /\ FreshVol(dvol) \/ Full(first) => \A c \in VolCoins : dvol1.last[c] >= LastClosed
    BY VolLoads DEF FeedsTypeOK, StoredInv
  <1>4. dvol' = VolLoaded(dvol1, second)
    BY <1>1
  <1> HIDE DEF dvol1
  <1>5. /\ dvol' \in Vols /\ ~dvol'.partial
        /\ FreshVol(dvol1) \/ Full(second) => \A c \in VolCoins : dvol'.last[c] >= LastClosed
    BY <1>3, <1>4, VolLoads
  <1>6. /\ nasdaq' \in File
        /\ nasdaq'.at # Never => nasdaq'.at <= hour /\ nasdaq'.newest = Printed(nasdaq'.at)
        /\ Within(nasdaq, NasdaqTtl, close) \/ came => RowOf(nasdaq') >= Visible - 1
    <2>1. nasdaq' = NasdaqLoaded(came, close)
      BY <1>1
    <2> QED BY <2>1, NasdaqLoads
  <1>7. FeedsTypeOK' /\ StoredInv'
    BY <1>2, <1>5, <1>6 DEF FeedsTypeOK, StoredInv
  <1>8. /\ used'.vol = [c \in VolCoins |-> VolOf(IF c = "BTC" THEN dvol1 ELSE dvol', c)]
        /\ used'.row = RowOf(nasdaq') /\ used'.partial = (dvol1.partial \/ dvol'.partial)
    BY <1>1 DEF dvol1
  <1>9. ASSUME "dvol" \notin down' PROVE \A c \in VolCoins : used'.vol[c] = LastClosed
    <2>1. ~(~FreshVol(dvol) /\ ~Full(first)) /\ ~(~FreshVol(dvol1) /\ ~Full(second))
      <3> DEFINE late == {a \in {<<dvol, first>>, <<dvol1, second>>} : ~FreshVol(a[1]) /\ ~Full(a[2])}
      <3>1. "dvol" \in down' <=> late # {}
        BY <1>1 DEF dvol1
      <3>2. late = {}
        BY <1>9, <3>1
      <3>3. <<dvol, first>> \notin late /\ <<dvol1, second>> \notin late
        BY <3>2
      <3> QED BY <3>3
    <2>2. \A c \in VolCoins : dvol1.last[c] >= LastClosed /\ dvol'.last[c] >= LastClosed
      BY <1>3, <1>5, <2>1
    <2>3. ASSUME NEW c \in VolCoins PROVE VolOf(dvol1, c) = LastClosed
      BY <1>3, <2>2, VolReads
    <2>4. PICK d : d = dvol'
      OBVIOUS
    <2>5. ASSUME NEW c \in VolCoins PROVE VolOf(d, c) = LastClosed
      BY <1>5, <2>2, <2>4, VolReads
    <2>6. ASSUME NEW c \in VolCoins PROVE used'.vol[c] = VolOf(IF c = "BTC" THEN dvol1 ELSE d, c)
      BY <1>8, <2>4
    <2> QED BY <2>3, <2>5, <2>6
  <1>10. "nasdaq" \notin down' => Within(nasdaq, NasdaqTtl, close) \/ came
    BY <1>1
  <1>11. LastClosed' = LastClosed /\ Visible' = Visible
    BY <1>2 DEF LastClosed, Visible
  <1>12. SizesKeepUp'
    BY <1>3, <1>5, <1>6, <1>8, <1>9, <1>10, <1>11 DEF SizesKeepUp
  <1> QED BY <1>7, <1>12 DEF FeedsInv

LEMMA KeepUpStep == FeedsInv /\ [FeedsNext]_feedVars => FeedsInv'
  <1> SUFFICES ASSUME FeedsInv, [FeedsNext]_feedVars PROVE FeedsInv'
    OBVIOUS
  <1>1. ASSUME UNCHANGED <<hour, dvol, nasdaq, down, used>> PROVE FeedsInv'
    BY <1>1 DEF FeedsInv, FeedsTypeOK, StoredInv, SizesKeepUp, LastClosed, Visible
  <1>2. CASE LoadMood
    BY <1>1, <1>2 DEF LoadMood
  <1>3. CASE FeedCycle
    BY <1>3, KeepUpCycle DEF FeedsInv
  <1>4. CASE Passes4h
    <2>1. hour' = hour + 1 /\ used' = NoReading /\ UNCHANGED <<dvol, nasdaq>>
      BY <1>4 DEF Passes4h
    <2>2. nasdaq.at # Never => nasdaq.at <= hour'
      BY <2>1 DEF FeedsInv, FeedsTypeOK, StoredInv, File, Never
    <2> QED BY <2>1, <2>2 DEF FeedsInv, FeedsTypeOK, StoredInv, SizesKeepUp, Day
  <1>5. CASE Restart
    <2>1. used' = NoReading /\ UNCHANGED <<hour, dvol>> /\ (nasdaq' = nasdaq \/ nasdaq' = NoFile)
      BY <1>5 DEF Restart
    <2>2. NoFile \in File /\ NoFile.at = Never
      BY DEF NoFile, File, Days, Never
    <2> QED BY <2>1, <2>2 DEF FeedsInv, FeedsTypeOK, StoredInv, SizesKeepUp
  <1>6. CASE UNCHANGED feedVars
    BY <1>1, <1>6 DEF feedVars
  <1> QED BY <1>2, <1>3, <1>4, <1>5, <1>6 DEF FeedsNext

-----------------------------------------------------------------------------
(* The sleeve sizes on the last closed volatility, never on a forming bar, and on an  *)
(* overlay at most a daily close behind, unless the feed failed (loadDvolHistory,      *)
(* loadNasdaqHistory): at any hour of a boot, after any failures and restarts.         *)
THEOREM ReadingsKeepUp == FeedsSpec => []SizesKeepUp
  <1>1. FeedsInit => FeedsInv
    BY DEF FeedsInit, FeedsInv, FeedsTypeOK, StoredInv, SizesKeepUp, NoFile, File, Days, Vols, Bar, Never, Day, VolCoins
  <1>2. FeedsInv => SizesKeepUp
    BY DEF FeedsInv
  <1> QED BY <1>1, <1>2, KeepUpStep, PTL DEF FeedsSpec

(***************************************************************************)
(* Part five: the record on past bars.                                      *)
(***************************************************************************)

TapeOK == tape \in Seq(TapeBars \cup {Missing})

\* A span that was run ends on the tape, and would give today what it gave.
StillGives(v, bars) ==
  /\ v.span.end \in Int /\ v.span.end <= Len(bars)
  /\ v.gave = RunWindow(bars, v.span)

ToldInv == TapeOK /\ \A v \in told : StillGives(v, tape)

\* A run sees nothing after the end of its span.
LEMMA NoLookahead ==
  ASSUME NEW T, NEW s \in Seq(T), NEW b \in T, NEW w, w.end \in Int, w.end <= Len(s)
  PROVE  RunWindow(Append(s, b), w) = RunWindow(s, w)
  <1> DEFINE e == w.end
             tt == Append(s, b)
  <1>0. e \in Int /\ e <= Len(s) /\ Len(s) \in Nat
    OBVIOUS
  <1>1. \A i \in 1 .. Len(s) : tt[i] = s[i]
    OBVIOUS
  <1> HIDE DEF e, tt
  <1>2. \A i \in 1 .. (1 + e - 1) : i + 1 - 1 = i /\ i \in 1 .. Len(s)
    BY <1>0
  <1>3. SubSeq(tt, 1, e) = SubSeq(s, 1, e)
    <2>1. SubSeq(tt, 1, e) = [i \in 1 .. (1 + e - 1) |-> tt[i + 1 - 1]]
      BY <1>0 DEF SubSeq
    <2>2. SubSeq(s, 1, e) = [i \in 1 .. (1 + e - 1) |-> s[i + 1 - 1]]
      BY <1>0 DEF SubSeq
    <2>3. \A i \in 1 .. (1 + e - 1) : tt[i + 1 - 1] = s[i + 1 - 1]
      BY <1>1, <1>2
    <2> QED BY <2>1, <2>2, <2>3
  <1>4. Sliced(tt, w.start, e) = Sliced(s, w.start, e)
    BY <1>3 DEF Sliced
  <1> QED BY <1>4 DEF RunWindow, e, tt

LEMMA NewestIsABar ==
  ASSUME NEW s, NEW T, s \in Seq(T)
  PROVE  NewestBar(s) \in Nat /\ NewestBar(s) <= Len(s)
  <1> DEFINE S == {0} \cup {i \in DOMAIN s : s[i] # Missing}
  <1>1. Len(s) \in Nat /\ DOMAIN s = 1 .. Len(s)
    OBVIOUS
  <1>2. S \in SUBSET (0 .. Len(s)) /\ S # {}
    BY <1>1
  <1>3. IsFiniteSet(S)
    <2>1. IsFiniteSet(0 .. Len(s))
      BY <1>1, FS_Interval
    <2> QED BY <1>2, <2>1, FS_Subset
  <1> HIDE DEF S
  <1>4. Max(S) \in S
    <2>1. S \in SUBSET Int
      BY <1>1, <1>2
    <2> QED BY <1>2, <1>3, <2>1, MaxIsGreatest
  <1>5. Max(S) \in 0 .. Len(s)
    BY <1>2, <1>4
  <1>6. NewestBar(s) = Max(S)
    BY DEF NewestBar, S
  <1> QED BY <1>1, <1>5, <1>6

\* No fold ends after the newest bar.
LEMMA FoldsEnd ==
  ASSUME NEW n \in Nat, NEW f \in Range(Folds(n))
  PROVE  f.end \in Int /\ f.end <= n
  <1> DEFINE total == n - 1
             whole == IF total < Train + Forward THEN 0 ELSE (total - Train) \div Forward
             next  == whole * Forward
             rest  == whole > 0 /\ next + Train + Forward \div 2 <= total
             A == [k \in 1 .. whole |-> Fold((k - 1) * Forward, 1 + (k - 1) * Forward + Train + Forward)]
             B == IF rest THEN <<Fold(next, n)>> ELSE <<>>
  <1>0. Train \in Nat /\ Forward \in Nat /\ Forward > 0
    BY WalkAssumption
  <1>1. whole \in Nat /\ (whole > 0 => whole * Forward <= total - Train)
    <2>1. CASE total < Train + Forward
      BY <2>1
    <2>2. CASE ~(total < Train + Forward)
      <3> DEFINE x == total - Train
                 q == x \div Forward
      <3>1. x \in Nat
        BY <1>0, <2>2
      <3> HIDE DEF x
      <3>2. q \in Nat /\ q * Forward <= x
        BY <1>0, <3>1
      <3>3. whole = q
        BY <2>2 DEF x
      <3> HIDE DEF q, whole
      <3> QED BY <3>2, <3>3 DEF x
    <2> QED BY <2>1, <2>2
  <1>2. Folds(n) = A \o B
    BY DEF Folds
  <1> HIDE DEF whole, rest, next
  <1>3. \A k \in 1 .. whole : A[k].end \in Int /\ A[k].end <= n
    <2> SUFFICES ASSUME NEW k \in 1 .. whole PROVE A[k].end \in Int /\ A[k].end <= n
      OBVIOUS
    <2>0. k \in Nat /\ k >= 1 /\ k <= whole
      BY <1>1
    <2>1. A[k].end = 1 + (k - 1) * Forward + Train + Forward
      BY DEF Fold
    <2>2. (k - 1) * Forward + Forward = k * Forward /\ (k - 1) * Forward \in Int
      BY <1>0, <2>0
    <2>3. k * Forward <= whole * Forward
      BY <1>0, <1>1, <2>0
    <2>4. whole * Forward <= total - Train
      BY <1>1, <2>0
    <2> DEFINE kf == k * Forward
               pf == (k - 1) * Forward
               wf == whole * Forward
    <2>5. kf \in Int /\ wf \in Int
      BY <1>0, <1>1, <2>0
    <2> HIDE DEF kf, pf, wf, A
    <2>6. A[k].end = 1 + pf + Train + Forward /\ pf + Forward = kf /\ pf \in Int /\ kf <= wf /\ wf <= total - Train
      BY <2>1, <2>2, <2>3, <2>4 DEF kf, pf, wf
    <2> QED BY <1>0, <2>5, <2>6
  <1>4. B \in Seq({Fold(next, n)})
    <2> DEFINE g == Fold(next, n)
    <2> HIDE DEF g
    <2>1. <<g>> \in Seq({g}) /\ <<>> \in Seq({g})
      OBVIOUS
    <2> QED BY <2>1 DEF g
  <1>5. A \in Seq({A[k] : k \in 1 .. whole}) /\ Len(A) = whole
    <2> DEFINE R == {A[k] : k \in 1 .. whole}
    <2>1. DOMAIN A = 1 .. whole /\ A = [k \in 1 .. whole |-> A[k]]
      OBVIOUS
    <2>2. \A k \in 1 .. whole : A[k] \in R
      OBVIOUS
    <2> HIDE DEF A, R
    <2>3. A \in [1 .. whole -> R]
      BY <2>1, <2>2
    <2>4. A \in Seq(R) /\ Len(A) = whole
      BY <1>1, <2>1, <2>3
    <2> QED BY <2>4 DEF R
  <1>6. Fold(next, n).end = n
    BY DEF Fold
  <1> HIDE DEF A, B
  <1>7. ASSUME NEW i \in DOMAIN (A \o B)
        PROVE  \/ \E k \in 1 .. whole : (A \o B)[i] = A[k]
               \/ (A \o B)[i] = Fold(next, n)
    <2>0. Len(A) \in Nat /\ Len(B) \in Nat /\ i \in 1 .. Len(A) + Len(B)
      BY <1>4, <1>5
    <2>1. CASE i <= Len(A)
      <3>1. (A \o B)[i] = A[i] /\ i \in 1 .. whole
        BY <1>4, <1>5, <2>0, <2>1
      <3> QED BY <3>1
    <2>2. CASE i > Len(A)
      <3>1. (A \o B)[i] = B[i - Len(A)] /\ i - Len(A) \in 1 .. Len(B)
        BY <1>4, <1>5, <2>0, <2>2
      <3> QED BY <1>4, <3>1
    <2> QED BY <2>0, <2>1, <2>2
  <1>8. PICK i \in DOMAIN (A \o B) : f = (A \o B)[i]
    BY <1>2 DEF Range
  <1> QED BY <1>3, <1>6, <1>7, <1>8

LEMMA SpansEnd ==
  ASSUME NEW T, NEW s \in Seq(T), NEW w \in Spans(s)
  PROVE  w.end \in Int /\ w.end <= Len(s)
  <1> DEFINE n == NewestBar(s)
  <1>0. n \in Nat /\ n <= Len(s) /\ Len(s) \in Nat /\ Year \in Nat
    BY NewestIsABar, WalkAssumption
  <1>1. \/ \E f \in Range(Folds(n)) : w = [start |-> f.start, end |-> f.end]
        \/ w \in Windows(n)
    BY DEF Spans
  <1> HIDE DEF n
  <1>2. CASE \E f \in Range(Folds(n)) : w = [start |-> f.start, end |-> f.end]
    <2>1. PICK f \in Range(Folds(n)) : w = [start |-> f.start, end |-> f.end]
      BY <1>2
    <2>2. f.end \in Int /\ f.end <= n
      BY <1>0, FoldsEnd
    <2>3. w.end = f.end
      BY <2>1
    <2> QED BY <1>0, <2>2, <2>3
  <1>3. CASE w \in Windows(n)
    <2>1. w.end = n \/ w.end = n - Year
      BY <1>3 DEF Windows
    <2> QED BY <1>0, <2>1
  <1> QED BY <1>1, <1>2, <1>3

LEMMA ToldSteps ==
  ASSUME ToldInv, [WalkNext]_walkVars
  PROVE  ToldInv'
  <1>0. TapeOK /\ \A v \in told : StillGives(v, tape)
    BY DEF ToldInv
  <1>1. CASE UNCHANGED walkVars
    BY <1>0, <1>1 DEF walkVars, ToldInv, TapeOK, StillGives
  <1>2. CASE WalkNext
    <2> DEFINE T == TapeBars \cup {Missing}
    <2>1. PICK b \in T : AddBar(b)
      BY <1>2 DEF WalkNext
    <2>2. /\ tape' = Append(tape, b)
          /\ told' = told \cup {[span |-> w, gave |-> RunWindow(tape', w)] : w \in Spans(tape')}
      BY <2>1 DEF AddBar
    <2>3. tape \in Seq(T)
      BY <1>0 DEF TapeOK
    <2> HIDE DEF T
    <2>4. tape' \in Seq(T) /\ Len(tape') = Len(tape) + 1 /\ Len(tape) \in Nat
      BY <2>2, <2>3
    <2>5. ASSUME NEW v \in told PROVE StillGives(v, tape')
      <3>1. v.span.end \in Int /\ v.span.end <= Len(tape) /\ v.gave = RunWindow(tape, v.span)
        BY <1>0 DEF StillGives
      <3>2. RunWindow(Append(tape, b), v.span) = RunWindow(tape, v.span)
        BY <2>1, <2>3, <3>1, NoLookahead
      <3>3. v.span.end <= Len(tape')
        BY <2>4, <3>1
      <3> QED BY <2>2, <3>1, <3>2, <3>3 DEF StillGives
    <2>6. ASSUME NEW w \in Spans(tape') PROVE StillGives([span |-> w, gave |-> RunWindow(tape', w)], tape')
      <3>1. w.end \in Int /\ w.end <= Len(tape')
        BY <2>4, <2>6, SpansEnd
      <3> QED BY <3>1 DEF StillGives
    <2>7. \A v \in told' : StillGives(v, tape')
      BY <2>2, <2>5, <2>6
    <2> QED BY <2>4, <2>7 DEF ToldInv, TapeOK, T
  <1> QED BY <1>1, <1>2

\* A span gives the same for ever, for any lengths of folds and windows, any prices and gaps: a run
\* is of the slice up to the end of its span, no fold or window ends after the newest bar, and bars
\* are only added.  (walkForward.js:27: "Strict no-lookahead".)
THEOREM RunsStand == WalkSpec => []PastStands
  <1>1. WalkInit => ToldInv
    BY DEF WalkInit, ToldInv, TapeOK
  <1>2. ToldInv => PastStands
    BY DEF ToldInv, PastStands, StillGives
  <1> QED BY <1>1, <1>2, ToldSteps, PTL DEF WalkSpec
================================================================================
