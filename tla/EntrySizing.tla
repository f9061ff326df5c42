----------------------------- MODULE EntrySizing -----------------------------
(***************************************************************************)
(* What an entry must pass and how large it is: evaluateEntryGates          *)
(* (src/src/core/decisionCore.js) over what runEntryFilters gathers         *)
(* (filters.js), and computePositionSize (positionSizing.js).  Both are     *)
(* pure functions of a reading of the market.  Sizes and factors are per    *)
(* mille, confidences in hundredths.                                         *)
(*                                                                          *)
(* A reading says which gates' data are adverse and which could not be       *)
(* fetched, the coin's volatility against the portfolio's median (quarters   *)
(* of it; 0 when unknown), the coin's trend and BTC's.                       *)
(***************************************************************************)
EXTENDS Integers, FiniteSetsExt

CONSTANTS
  BasePct,                    \* risk.maxPositionPct
  MacroFactor,                \* macroFilter.sizeReduceFactor
  BoostFactor, PenaltyFactor, \* regimeSizing
  ConfMid,                    \* confSizing.mid
  ConfMax, ConfMin,           \* confSizing.max and min
  ReduceFactor,               \* mtfFilter.reduceFactor; 0 blocks instead
  SizeFloor                   \* risk.minSizeMultiplier; 0 turns it off

ASSUME SizingAssumption ==
  /\ BasePct \in 0 .. 1000 /\ MacroFactor \in 0 .. 1000 /\ PenaltyFactor \in 0 .. 1000
  /\ ConfMin \in 0 .. 1000 /\ ReduceFactor \in 0 .. 1000 /\ SizeFloor \in 0 .. 1000
  /\ BoostFactor \in Nat /\ BoostFactor >= 1000 /\ ConfMax \in Nat /\ ConfMax >= 1000
  /\ ConfMid \in 1 .. 99

\* The gates, in the order they are asked in.  A series that could not be fetched, or is
\* too short, passes its gate.
Gates == {"weekly", "dominance", "ranging", "correlation", "mtf15m", "mtf4h", "momentum"}
Objects(gate, reading) == gate \in reading.against \ reading.missing
Reduces(reading) == Objects("mtf15m", reading) /\ ReduceFactor > 0
Blocked(reading) ==
  \E gate \in Gates : Objects(gate, reading) /\ ~(gate = "mtf15m" /\ Reduces(reading))

ReadingType ==
  [against : SUBSET Gates, missing : SUBSET Gates, volatility : Nat,
   adx : {"chop", "middle", "strong", "unknown"}, bull : BOOLEAN]
NoReading == [against |-> {}, missing |-> {}, volatility |-> 0, adx |-> "unknown", bull |-> TRUE]

Times(size, factor) == (size * factor) \div 1000
Limited(low, high, x) == Max({low, Min({high, x})})

-----------------------------------------------------------------------------
(* The factors, each on the size so far. *)

\* applyATRSizing: inverse to the coin's volatility, between a half and double.
BySymbolVolatility(size, quarters) ==
  IF quarters = 0 THEN size ELSE Times(size, Limited(500, 2000, 4000 \div quarters))

ByMacro(size, bull) == IF bull THEN size ELSE Times(size, MacroFactor)

ByTrend(size, adx) ==
  CASE adx = "strong" -> Times(size, BoostFactor)
    [] adx = "chop"   -> Times(size, PenaltyFactor)
    [] OTHER          -> size

\* applyConfSizing: two lines that meet at ConfMid.
ByConfidence(size, conf) ==
  Times(size, IF conf >= ConfMid
              THEN 1000 + ((conf - ConfMid) * (ConfMax - 1000)) \div (100 - ConfMid)
              ELSE ConfMin + (conf * (1000 - ConfMin)) \div ConfMid)

\* applySizeFloor: the brakes together never take more than they may.
Floored(size) == IF SizeFloor = 0 THEN size ELSE Max({size, Times(BasePct, SizeFloor)})

\* computePositionSize.
Size(conf, reading) ==
  LET atr == BySymbolVolatility(BasePct, reading.volatility)
      all == ByConfidence(ByTrend(ByMacro(atr, reading.bull), reading.adx), conf)
  IN Floored(IF Reduces(reading) THEN Times(all, ReduceFactor) ELSE all)
===============================================================================
