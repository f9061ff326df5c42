------------------------------ MODULE Strategies ------------------------------
(***************************************************************************)
(* The indicator strategies (src/strategies): what each votes on the bars   *)
(* that have closed (CandleSeries!ClosedOf; every strategy drops the last    *)
(* bar it is given).  An indicator of a library is read; one that a strategy *)
(* computes from bars is computed.  Prices are integers, confidences are     *)
(* hundredths rounded down, periods are shorter than the configured ones.    *)
(***************************************************************************)
EXTENDS Integers, Sequences, FiniteSetsExt, SequencesExt

CONSTANTS
  Readings       \* of each kind of strategy, what a closed bar may show it

VARIABLES
  kind,          \* the strategy of this behaviour
  past           \* what it has seen of the closed bars, newest last

strategyVars == <<kind, past>>

Kinds == DOMAIN Readings

Vote(signal, confidence) == [signal |-> signal, confidence |-> confidence]
Hold(confidence)         == Vote("HOLD", confidence)
NoBars                   == Hold(0)     \* not enough candles

\* m hundredths when n reaches d, in proportion below.
Part(n, d, m)  == Min({m, (n * m) \div d})
Bonus(test, m) == IF test THEN m ELSE 0
Dist(a, b)     == IF a < b THEN b - a ELSE a - b

\* A BUY, a SELL, or a HOLD, with their confidences.
Decide(buy, sell, cBuy, cSell, cHold) ==
  IF buy THEN Vote("BUY", cBuy) ELSE IF sell THEN Vote("SELL", cSell) ELSE Hold(cHold)

Prev(s) == s[Len(s) - 1]
Now(s)  == s[Len(s)]
LastBars(s, n) == SubSeq(s, Len(s) - n + 1, Len(s))    \* s.slice(-n)
Highest(s) == Max({s[i].high : i \in DOMAIN s})
Lowest(s)  == Min({s[i].low : i \in DOMAIN s})
SumOver(s, f(_)) == FoldLeft(LAMBDA sum, b : sum + f(b), 0, s)

-----------------------------------------------------------------------------
(* Oscillators: an extreme that has turned. *)

Zone ==
  [rsi       |-> [low |-> 30,   high |-> 70,  lowSpan |-> 30,  highSpan |-> 30],
   mfi       |-> [low |-> 20,   high |-> 80,  lowSpan |-> 20,  highSpan |-> 20],
   cci       |-> [low |-> -100, high |-> 100, lowSpan |-> 100, highSpan |-> 100],
   williamsR |-> [low |-> -80,  high |-> -20, lowSpan |-> 80,  highSpan |-> 20]]

\* Mutant of Oscillator: an extreme is enough.
OscillatorUnturned(z, prev, now) ==
  Decide(now < z.low, now > z.high /\ now < prev, 60, 60, 20)

Oscillator(z, prev, now) ==
  IF now < z.low THEN
    Vote(IF now > prev THEN "BUY" ELSE "HOLD", 50 + Part(z.low - now, z.lowSpan, 40) + Bonus(now > prev, 10))
  ELSE IF now > z.high THEN
    Vote(IF now < prev THEN "SELL" ELSE "HOLD", 50 + Part(now - z.high, z.highSpan, 40) + Bonus(now < prev, 10))
  ELSE Hold(20)

RSI(s)       == IF Len(s) < 2 THEN NoBars ELSE Oscillator(Zone.rsi, Prev(s), Now(s))
MFI(s)       == IF Len(s) < 2 THEN NoBars ELSE Oscillator(Zone.mfi, Prev(s), Now(s))
CCI(s)       == IF Len(s) < 2 THEN NoBars ELSE Oscillator(Zone.cci, Prev(s), Now(s))
WilliamsR(s) == IF Len(s) < 2 THEN NoBars ELSE Oscillator(Zone.williamsR, Prev(s), Now(s))

-----------------------------------------------------------------------------
(* Crossings of two lines. *)

CrossedAbove(p, n) == p.fast <= p.slow /\ n.fast > n.slow
CrossedBelow(p, n) == p.fast >= p.slow /\ n.fast < n.slow

EMA(s) ==
  IF Len(s) < 2 THEN NoBars ELSE
    LET p == Prev(s)  n == Now(s) IN
    Decide(CrossedAbove(p, n), CrossedBelow(p, n),
           55 + Bonus(n.fast > p.fast, 15) + Bonus(n.slow > p.slow, 10),
           55 + Bonus(n.fast < p.fast, 15) + Bonus(n.slow < p.slow, 10), 20)

\* fast and slow are MACD and its signal line; the histogram is their difference.
MACD(s) ==
  IF Len(s) < 2 THEN NoBars ELSE
    LET p == Prev(s)  n == Now(s)
        grows == Bonus(Dist(n.fast, n.slow) > Dist(p.fast, p.slow), 15) IN
    Decide(CrossedAbove(p, n), CrossedBelow(p, n),
           55 + grows + Bonus(n.fast > 0 /\ n.slow > 0, 15),
           55 + grows + Bonus(n.fast < 0 /\ n.slow < 0, 15), 20)

\* fast and slow are OBV and its average.
OBV(s) ==
  IF Len(s) < 2 THEN NoBars ELSE
    LET p == Prev(s)  n == Now(s)
        gap == IF n.slow = 0 THEN 0 ELSE Part(Dist(n.fast, n.slow), Dist(n.slow, 0), 35) IN
    Decide(CrossedAbove(p, n), CrossedBelow(p, n), 55 + gap, 55 + gap, 20)

\* fast and slow are %K and %D: a crossing counts within 10 of the zone.
Stochastic(s) ==
  IF Len(s) < 2 THEN NoBars ELSE
    LET p == Prev(s)  n == Now(s) IN
    Decide(CrossedAbove(p, n) /\ n.fast < 20 + 10, CrossedBelow(p, n) /\ n.fast > 80 - 10,
           55 + Part(Max({20 - n.fast, 0}), 20, 40), 55 + Part(Max({n.fast - 80, 0}), 20, 40), 20)

StochPeriod  == 3
SignalPeriod == 2

\* %K of the RSI values s at i, and with %D, the mean of %K, SignalPeriod times over.
KOf(s, i) ==
  LET w == {s[j] : j \in i - StochPeriod + 1 .. i} IN
  IF Max(w) = Min(w) THEN 50 ELSE ((s[i] - Min(w)) * 100) \div (Max(w) - Min(w))
KD(s, i) == [fast |-> SignalPeriod * KOf(s, i), slow |-> KOf(s, i) + KOf(s, i - 1)]

StochRSI(s) ==
  IF Len(s) < StochPeriod + SignalPeriod + 2 THEN NoBars ELSE
    LET p == KD(s, Len(s) - 1)  n == KD(s, Len(s))  k == KOf(s, Len(s)) IN
    Decide(CrossedAbove(p, n) /\ k < 20 + 15, CrossedBelow(p, n) /\ k > 80 - 15,
           55 + Part(Max({20 - k, 0}), 20, 40), 55 + Part(Max({k - 80, 0}), 20, 40), 20)

-----------------------------------------------------------------------------
(* Flips of a trend. *)

PSAR(s) ==
  IF Len(s) < 3 THEN NoBars ELSE
    LET was == Prev(s).close > Prev(s).sar
        is  == Now(s).close > Now(s).sar
        far == 70 + Part(Dist(Now(s).close, Now(s).sar) * 800, Now(s).close * 15, 15) IN
    Decide(~was /\ is, was /\ ~is, far, far, 10)

AtrPeriod == 2
Multiplier == 1

TrueRange(bar, prevClose) ==
  Max({bar.high - bar.low, Dist(bar.high, prevClose), Dist(bar.low, prevClose)})

\* computeSupertrend: a band is kept unless it tightens or was closed through.
Upper(prev, raw) == IF raw < prev.upper \/ prev.close > prev.upper THEN raw ELSE prev.upper
Lower(prev, raw) == IF raw > prev.lower \/ prev.close < prev.lower THEN raw ELSE prev.lower

\* One bar of it, prices and averages doubled.
Banded(prev, bar) ==
  LET atr == (prev.atr * (AtrPeriod - 1) + 2 * TrueRange(bar, prev.close \div 2)) \div AtrPeriod
      up  == Upper(prev, bar.high + bar.low + Multiplier * atr)
      lo  == Lower(prev, bar.high + bar.low - Multiplier * atr)
      c   == 2 * bar.close
      trend == IF prev.trend = 1 THEN IF c >= lo THEN 1 ELSE -1
                                 ELSE IF c <= up THEN -1 ELSE 1
  IN [atr |-> atr, upper |-> up, lower |-> lo, close |-> c, trend |-> trend]

\* The first entry, from a seed average.
Seeded(seed, bar) ==
  LET lo == bar.high + bar.low - Multiplier * seed IN
  [atr |-> seed, upper |-> bar.high + bar.low + Multiplier * seed, lower |-> lo,
   close |-> 2 * bar.close, trend |-> IF 2 * bar.close > lo THEN 1 ELSE -1]

Line(b) == IF b.trend = 1 THEN b.lower ELSE b.upper

Supertrend(s) ==
  IF Len(s) < 2 THEN NoBars ELSE
    LET far == 75 + Part(Dist(Now(s).close, Line(Now(s))) * 800, Now(s).close * 15, 15) IN
    Decide(Prev(s).trend = -1 /\ Now(s).trend = 1, Prev(s).trend = 1 /\ Now(s).trend = -1, far, far, 10)

Warmup    == 1
MinStreak == 2

\* #computeHA: opens and closes in 1024ths.
HA(s) ==
  LET close(b) == 256 * (b.open + b.high + b.low + b.close)
      open[i \in DOMAIN s] == IF i = 1 THEN 512 * (s[1].open + s[1].close)
                              ELSE (open[i - 1] + close(s[i - 1])) \div 2
  IN [i \in DOMAIN s |-> [open |-> open[i], close |-> close(s[i]),
                          high |-> Max({1024 * s[i].high, open[i], close(s[i])}),
                          low  |-> Min({1024 * s[i].low, open[i], close(s[i])})]]

\* Bars before the last, back to the first of another direction.
Streak(bull) ==
  LET n == Len(bull) - 1 IN
  n - Max({i \in 0 .. n - 1 : i = 0 \/ bull[i] # bull[n]} )

HeikinAshi(s) ==
  IF Len(s) < Warmup + MinStreak + 2 THEN NoBars ELSE
    LET ha   == HA(s)
        bull == [i \in DOMAIN s |-> ha[i].close > ha[i].open]
        n    == Len(s)
        c    == ha[n]
        body == Part(Dist(c.close, c.open), IF c.high = c.low THEN 1024 ELSE c.high - c.low, 15)
        long == Min({2 * (Streak(bull) - MinStreak), 10})
    IN IF bull[n] = bull[n - 1] THEN Hold(15)
       ELSE IF Streak(bull) < MinStreak THEN Hold(20)
       ELSE Decide(bull[n], ~bull[n],
              Min({90, 60 + body + Bonus(2000 * (c.open - c.low) <= c.open, 10) + long}),
              Min({90, 60 + body + Bonus(2000 * (c.high - c.open) <= c.open, 10) + long}), 0)

-----------------------------------------------------------------------------
(* Bands and channels. *)

\* The bands are read; none is trusted that is narrower than MIN_BANDWIDTH.
BollingerBands(s) ==
  IF s = <<>> THEN NoBars ELSE
    LET n == Now(s)  width == n.upper - n.lower IN
    IF 100 * width < 4 * n.middle THEN Hold(10)
    ELSE Decide(n.price <= n.lower, n.price >= n.upper,
                50 + Part(2 * (n.lower - n.price), width, 50),
                50 + Part(2 * (n.price - n.upper), width, 50), 20)

BandPeriod == 2
Sigmas     == 1

\* Thrice the typical price of a bar.
Typical(b) == b.high + b.low + b.close

\* With volume v, price sum pv and spread sq (scaled to integers): whether the price is n tenths
\* of a deviation from the average.
Away(n, dist, v, sq) == 100 * dist * dist * v >= n * n * sq

VWAPSigma(s) ==
  IF Len(s) < BandPeriod + 1 THEN NoBars ELSE
    LET w    == LastBars(s, BandPeriod)
        v    == SumOver(w, LAMBDA b : b.volume)
        pv   == SumOver(w, LAMBDA b : Typical(b) * b.volume)
        sq   == SumOver(w, LAMBDA b : b.volume * (Typical(b) * v - pv) * (Typical(b) * v - pv))
        p    == 3 * v * Now(s).close
        out  == Away(10 * Sigmas, Dist(p, pv), v, sq)
        z    == Max({n \in 10 .. 30 : n = 10 \/ Away(n, Dist(p, pv), v, sq)})
    IN IF v = 0 THEN NoBars ELSE IF sq = 0 THEN Hold(10)
       ELSE Decide(out /\ p < pv, out /\ p > pv, 50 + 2 * (z - 10), 50 + 2 * (z - 10), 15)

ChannelPeriod == 2

\* The bars before the last.
ChannelOf(s) == SubSeq(s, Len(s) - ChannelPeriod, Len(s) - 1)

\* volume against the mean of the window: n tenths of it.
Loud(s, n) == LET v == SumOver(s, LAMBDA b : b.volume) IN v > 0 /\ 10 * Now(s).volume * Len(s) >= n * v

Donchian(s) ==
  IF Len(s) < ChannelPeriod + 1 THEN NoBars ELSE
    LET upper == Highest(ChannelOf(s))
        lower == Lowest(ChannelOf(s))
        price == Now(s).close
        loud  == Loud(LastBars(s, ChannelPeriod), 12)
        conf(d) == Min({90, 55 + (IF upper = lower THEN 35 ELSE Part(d, upper - lower, 35))
                            + Bonus(Loud(LastBars(s, ChannelPeriod), 20), 10)})
    IN IF price > upper \/ price < lower
       THEN Decide(loud /\ price > upper, loud /\ price < lower, conf(price - upper), conf(lower - price), 25)
       ELSE Hold(10)

-----------------------------------------------------------------------------
(* Trends. *)

ADX(s) ==
  IF s = <<>> THEN NoBars ELSE
    LET n == Now(s)
        c == 45 + Part(n.adx - 25, 60 - 25, 35) + Part(Dist(n.pdi, n.mdi), 20, 20)
    IN IF n.adx < 25 THEN Hold(10) ELSE Decide(n.pdi > n.mdi, TRUE, c, c, 0)

TenkanPeriod == 1
KijunPeriod  == 2
SpanBPeriod  == 3

\* Twice the middle of the last n bars.
Midpoint(s, n) == Highest(LastBars(s, n)) + Lowest(LastBars(s, n))

\* The lines four times over.
Ichimoku(s) ==
  IF Len(s) < SpanBPeriod + 2 THEN NoBars ELSE
    LET before == Front(s)
        tenkan == Midpoint(s, TenkanPeriod)
        kijun  == Midpoint(s, KijunPeriod)
        spans  == {tenkan + kijun, 2 * Midpoint(s, SpanBPeriod)}
        price  == 4 * Now(s).close
        wasBull == Midpoint(before, TenkanPeriod) > Midpoint(before, KijunPeriod)
        fresh  == IF wasBull THEN tenkan < kijun ELSE tenkan > kijun
        thick  == 100 * (Max(spans) - Min(spans)) > price
        c      == 60 + Bonus(fresh, 10) + Bonus(thick, 10)
    IN Decide(price > Max(spans) /\ tenkan > kijun, price < Min(spans) /\ tenkan < kijun, c, c, 15)

-----------------------------------------------------------------------------
(* Shapes of a bar. *)

LowerWick(b) == Min({b.open, b.close}) - b.low
UpperWick(b) == b.high - Max({b.open, b.close})

\* A wick of at least twice the body, and the close in the far 60 % of the range.
PinBar(s) ==
  IF Len(s) < 2 THEN NoBars ELSE
    LET b     == Now(s)
        range == b.high - b.low
        body  == Max({1000 * Dist(b.open, b.close), range})        \* in thousandths
        bull  == 1000 * LowerWick(b) >= 2 * body /\ 10 * (b.close - b.low) >= 6 * range
        bear  == 1000 * UpperWick(b) >= 2 * body /\ 10 * (b.close - b.low) <= 4 * range
        conf(wick) == Min({85, 55 + (5 * (1000 * wick - 2 * body)) \div body})
    IN IF range = 0 THEN NoBars ELSE IF bull /\ bear THEN Hold(15)
       ELSE Decide(bull, bear, conf(LowerWick(b)), conf(UpperWick(b)), 10)

VolumePeriod == 2

VolumeSurge(s) ==
  IF Len(s) < VolumePeriod + 1 THEN NoBars ELSE
    LET b    == Now(s)
        mean == SumOver(SubSeq(s, Len(s) - VolumePeriod, Len(s) - 1), LAMBDA x : x.volume)  \* times the period
        c    == Max({50, Min({90, (100 * (b.volume * VolumePeriod - mean)) \div (3 * mean)})})
    IN IF mean = 0 THEN NoBars
       ELSE IF b.volume * VolumePeriod < 2 * mean THEN Hold(10)
       ELSE Decide(b.close > b.open, b.close < b.open, c, c, 20)

SwingWindow == 1
MinTouches  == 2

Pivots(s) == 1 + SwingWindow .. Len(s) - SwingWindow
Around(i) == (i - SwingWindow .. i + SwingWindow) \ {i}
SwingHighs(s) == {i \in Pivots(s) : \A j \in Around(i) : s[j].high < s[i].high}
SwingLows(s)  == {i \in Pivots(s) : \A j \in Around(i) : s[j].low > s[i].low}

\* cluster: runs of the sorted levels with gaps of at most 0.5 %, touched often enough.
Zones(levels) ==
  LET s == SortSeq(levels, <)
      joined(i) == 1000 * (s[i + 1] - s[i]) <= 5 * s[i]
      runs == {r \in (DOMAIN s) \X (DOMAIN s) :
                 /\ r[1] <= r[2] /\ \A i \in r[1] .. r[2] - 1 : joined(i)
                 /\ r[1] = 1 \/ ~joined(r[1] - 1)
                 /\ r[2] = Len(s) \/ ~joined(r[2])}
  IN {[level |-> SumOver(SubSeq(s, r[1], r[2]), LAMBDA x : x) \div (r[2] - r[1] + 1),
       touches |-> r[2] - r[1] + 1] : r \in {r \in runs : r[2] - r[1] + 1 >= MinTouches}}

LevelsAt(is, f(_)) == LET q == SetToSeq(is) IN [i \in DOMAIN q |-> f(q[i])]

SupportResistance(s) ==
  IF Len(s) < 2 * SwingWindow + 2 THEN NoBars ELSE
    LET b == Now(s)
        p == b.close
        supports == {z \in Zones(LevelsAt(SwingLows(s), LAMBDA i : s[i].low)) :
                       1000 * (p - z.level) \in -5 * z.level .. 15 * z.level}
        resists  == {z \in Zones(LevelsAt(SwingHighs(s), LAMBDA i : s[i].high)) :
                       1000 * (z.level - p) \in 0 .. 15 * p}
        body == Dist(b.open, b.close)
        conf(z, base, pin) ==
          Min({IF pin THEN 88 ELSE 62,
               38 + Part(z.touches, 5, 28) + 16 - (16 * 1000 * Dist(p, z.level)) \div (15 * base) + Bonus(pin, 12)})
        sup == CHOOSE z \in supports : \A y \in supports : z.level >= y.level
        res == CHOOSE z \in resists : \A y \in resists : z.level <= y.level
    IN Decide(supports # {} /\ resists = {}, resists # {} /\ supports = {},
              conf(sup, sup.level, 10 * LowerWick(b) > 8 * body /\ b.close > b.open),
              conf(res, p, 10 * UpperWick(b) > 8 * body /\ b.close < b.open), 10)

-----------------------------------------------------------------------------
\* STRATEGY_REGISTRY.
VoteOf(k, s) ==
  CASE k = "rsi" -> RSI(s) [] k = "mfi" -> MFI(s) [] k = "cci" -> CCI(s) [] k = "williamsR" -> WilliamsR(s)
    [] k = "ema" -> EMA(s) [] k = "macd" -> MACD(s) [] k = "obv" -> OBV(s)
    [] k = "stochastic" -> Stochastic(s) [] k = "stochRsi" -> StochRSI(s)
    [] k = "psar" -> PSAR(s) [] k = "supertrend" -> Supertrend(s) [] k = "heikinAshi" -> HeikinAshi(s)
    [] k = "bollinger" -> BollingerBands(s) [] k = "vwapSigma" -> VWAPSigma(s) [] k = "donchian" -> Donchian(s)
    [] k = "adx" -> ADX(s) [] k = "ichimoku" -> Ichimoku(s)
    [] k = "pinBar" -> PinBar(s) [] k = "volumeSurge" -> VolumeSurge(s)
    [] k = "supportResistance" -> SupportResistance(s)

\* Bars a strategy looks back on.
Look ==
  [k \in Kinds |->
     IF k \in {"bollinger", "adx"} THEN 1
     ELSE IF k \in {"psar", "vwapSigma", "donchian", "volumeSurge"} THEN 3
     ELSE IF k = "stochRsi" THEN StochPeriod + SignalPeriod + 2
     ELSE IF k = "heikinAshi" THEN Warmup + MinStreak + 2
     ELSE IF k = "ichimoku" THEN SpanBPeriod + 2
     ELSE IF k = "supportResistance" THEN 6 ELSE 2]

StrategyInit == kind \in Kinds /\ past = <<>>

\* A bar closes.  The Supertrend goes on from its last entry, which a seed average starts.
Shown(r) ==
  IF kind # "supertrend" THEN {r}
  ELSE IF past = <<>> THEN {Seeded(2 * a, r) : a \in 1 .. 2} ELSE {Banded(Now(past), r)}

BarCloses(r) ==
  /\ \E x \in Shown(r) :
       past' = Append(IF Len(past) < Look[kind] THEN past ELSE Tail(past), x)
  /\ UNCHANGED kind

StrategyNext == \E r \in Readings[kind] : BarCloses(r)

StrategySpec == StrategyInit /\ [][StrategyNext]_strategyVars

-----------------------------------------------------------------------------
(* Properties. *)

MirrorBar(b, m) ==
  [b EXCEPT !.open = m - b.open, !.high = m - b.low, !.low = m - b.high, !.close = m - b.close]

\* A Supertrend's entry, upside down about m, with the other trend.
MirrorBand(e, m) ==
  [e EXCEPT !.upper = 2 * m - e.lower, !.lower = 2 * m - e.upper, !.close = 2 * m - e.close, !.trend = -e.trend]

\* What the reading would be in a market upside down.
Mirror(k, r) ==
  CASE k = "supertrend" -> MirrorBand(r, 5)
    [] k \in {"rsi", "mfi", "stochRsi"} -> 100 - r
    [] k = "cci" -> -r
    [] k = "williamsR" -> -100 - r
    [] k \in {"ema", "macd", "obv"} -> [fast |-> -r.fast, slow |-> -r.slow]
    [] k = "stochastic" -> [fast |-> 100 - r.fast, slow |-> 100 - r.slow]
    [] k = "psar" -> [close |-> 4 - r.close, sar |-> 4 - r.sar]
    [] k = "bollinger" -> [price |-> 200 - r.price, lower |-> 200 - r.upper, middle |-> 100, upper |-> 200 - r.lower]
    [] k = "adx" -> [r EXCEPT !.pdi = r.mdi, !.mdi = r.pdi]
    [] k = "supportResistance" -> MirrorBar(r, 2040)
    [] OTHER -> MirrorBar(r, 4)

Opposite(signal) == IF signal = "BUY" THEN "SELL" ELSE IF signal = "SELL" THEN "BUY" ELSE "HOLD"

\* Readings a strategy takes for one side: PSAR and Heikin-Ashi count no move as down, ADX sells
\* on a tie, and a support still counts when the price is under it.
OneSided(k, s) ==
  \/ k = "psar" /\ \E i \in DOMAIN s : s[i].close = s[i].sar
  \/ k = "heikinAshi" /\ \E i \in DOMAIN s : HA(s)[i].open = HA(s)[i].close
  \/ k = "adx" /\ \E i \in DOMAIN s : s[i].pdi = s[i].mdi
  \/ k = "supportResistance" /\ s # <<>> /\ \E i \in SwingLows(s) \cup SwingHighs(s) :
       s[i].low > Now(s).close \/ s[i].high < Now(s).close

\* Strategies whose confidence has no scale of its own on either side.
EvenHanded == Kinds \ {"williamsR", "psar", "supertrend", "heikinAshi", "ichimoku", "supportResistance"}

\* Upside down, a Supertrend's next entry is the one of the bar upside down: of its bands and flips
\* none leans to one side. Only its first trend does (supertrend.js:131 asks for the lower band
\* alone): what follows it is compared with what follows the other first trend.
BandsMirror ==
  kind = "supertrend" /\ past # <<>> =>
    \A r \in Readings[kind] :
      Banded(Mirror(kind, Now(past)), MirrorBar(r, 5)) = Mirror(kind, Banded(Now(past), r))

\* Upside down, the market gets the opposite vote, of the same confidence: no comparison, zone
\* or bonus of a strategy leans to one side.  (src/strategies: BUY and SELL of each file.)
VotesMirror ==
  /\ ~OneSided(kind, past) =>
       LET vote   == VoteOf(kind, past)
           mirror == VoteOf(kind, [i \in DOMAIN past |-> Mirror(kind, past[i])])
       IN /\ mirror.signal = Opposite(vote.signal)
          /\ kind \in EvenHanded => mirror.confidence = vote.confidence
  /\ BandsMirror
=============================================================================
