-------------------------- MODULE LiveTraderProofs --------------------------
(* Proofs about LiveTrader and WalletRestore, for every set of markets and of   *)
(* callers and every size.  LiveTrader: type correctness, the market lock, and, *)
(* where no exchange answer is lost, that the tracked quantities never run      *)
(* ahead of the wallet.  WalletRestore: the sleeve's record survives restores,  *)
(* saves and restarts, and a boot leaves the legs no more than the wallet       *)
(* holds.                                                                       *)
EXTENDS WalletRestore, TLAPS


-------------------------------------------------------------------------------
(* The fields of a suspended call and what an update of one keeps.            *)

Steps == {"free", "order", "rest", "book"}

LEMMA CallFields ==
  ASSUME NEW o \in Call
  PROVE  /\ o.kind \in Buys \cup Sells /\ o.market \in Markets /\ o.leg \in Kinds
         /\ o.step \in Steps /\ o.want \in Nat /\ o.filled \in Nat
  BY DEF Call, Steps

LEMMA Suspended ==
  ASSUME TypeOK, NEW c \in Callers, op[c].kind # "none"
  PROVE  op[c] \in Call
  BY DEF TypeOK, NoCall

LEMMA Advanced ==
  ASSUME TypeOK, NEW c \in Callers, op[c] \in Call, NEW f \in Nat, NEW s \in Steps
  PROVE  [op EXCEPT ![c].filled = f, ![c].step = s] \in [Callers -> Call \cup {NoCall}]
  <1>1. [op[c] EXCEPT !.filled = f, !.step = s] \in Call
    BY DEF Call, Steps
  <1> QED BY <1>1 DEF TypeOK

LEMMA Resized ==
  ASSUME TypeOK, NEW c \in Callers, op[c] \in Call, NEW w \in Nat
  PROVE  /\ [op EXCEPT ![c].step = "order", ![c].want = w] \in [Callers -> Call \cup {NoCall}]
         /\ [op EXCEPT ![c].kind = "close", ![c].want = w] \in [Callers -> Call \cup {NoCall}]
  <1>1. /\ [op[c] EXCEPT !.step = "order", !.want = w] \in Call
        /\ [op[c] EXCEPT !.kind = "close", !.want = w] \in Call
    BY DEF Call, Sells
  <1> QED BY <1>1 DEF TypeOK

LEMMA LegUpdate ==
  ASSUME NEW u \in [Markets -> [Kinds -> Nat]], NEW m \in Markets, NEW k \in Kinds, NEW n \in Nat
  PROVE  [u EXCEPT ![m][k] = n] \in [Markets -> [Kinds -> Nat]]
  OBVIOUS

LEMMA ReturnType ==
  ASSUME TypeOK, NEW c \in Callers, op[c] \in Call, Return(c)
  PROVE  /\ op' \in [Callers -> Call \cup {NoCall}]
         /\ busy' \subseteq Markets /\ checks' \subseteq Markets
         /\ unbooked' \in [Markets -> [Kinds -> Nat]]
  BY CallFields, LegUpdate DEF TypeOK, Return

LEMMA LeftAfterType ==
  ASSUME NEW o \in Call, NEW held \in Nat
  PROVE  LeftAfter(o, held) \in Nat
  BY CallFields DEF LeftAfter, Smaller

LEMMA SizedType ==
  ASSUME TypeOK, NEW c \in Callers, op[c] \in Call, NEW size \in Nat, Sized(c, size)
  PROVE  /\ op' \in [Callers -> Call \cup {NoCall}]
         /\ busy' \subseteq Markets /\ checks' \subseteq Markets
         /\ unbooked' \in [Markets -> [Kinds -> Nat]]
  <1>1. CASE op[c].kind \in {"trim", "partial"} /\ size < MinOrder
    BY <1>1, ReturnType DEF Sized
  <1>2. CASE ~(op[c].kind \in {"trim", "partial"} /\ size < MinOrder)
    <2>1. op[c].market \in Markets /\ qty[op[c].market]["core"] \in Nat
      BY CallFields DEF TypeOK, Kinds
    <2>2. /\ op' = [op EXCEPT ![c].kind = "close", ![c].want = qty[op[c].market]["core"]]
             \/ op' = [op EXCEPT ![c].step = "order", ![c].want = size]
          /\ UNCHANGED <<busy, checks, unbooked>>
      BY <1>2 DEF Sized
    <2>3. op' \in [Callers -> Call \cup {NoCall}]
      <3>1. [op EXCEPT ![c].kind = "close", ![c].want = qty[op[c].market]["core"]]
              \in [Callers -> Call \cup {NoCall}]
        BY <2>1, Resized
      <3>2. [op EXCEPT ![c].step = "order", ![c].want = size] \in [Callers -> Call \cup {NoCall}]
        BY Resized
      <3> QED BY <2>2, <3>1, <3>2
    <2> QED BY <2>2, <2>3 DEF TypeOK
  <1> QED BY <1>1, <1>2

LEMMA ExecuteType ==
  ASSUME TypeOK, NEW c \in Callers, op[c] \in Call, NEW f \in Nat, f <= wallet[op[c].market],
         Execute(c, f)
  PROVE  wallet' \in [Markets -> Nat] /\ unbooked' \in [Markets -> [Kinds -> Nat]]
  <1>1. op[c].market \in Markets /\ op[c].leg \in Kinds
    BY CallFields
  <1>2. unbooked[op[c].market][op[c].leg] + f \in Nat /\ wallet[op[c].market] - f \in Nat
    BY <1>1 DEF TypeOK
  <1> QED BY <1>1, <1>2, LegUpdate DEF Execute, TypeOK

-------------------------------------------------------------------------------
LEMMA TypeStep == TypeOK /\ [Next]_vars => TypeOK'
  <1> SUFFICES ASSUME TypeOK, [Next]_vars PROVE TypeOK'
    OBVIOUS
  <1>1. ASSUME NEW c \in Callers, Start(c) PROVE TypeOK'
    BY <1>1, SizesAssumption DEF Start, OpenScalper, OpenCore, GrowCore, TrimCore, Close,
       PartialClose, SellSatellite, TakeLock, TakeGuard, Suspend, TypeOK, Call, Kinds, Buys,
       Sells, satelliteBuy, Smaller
  <1>2. ASSUME NEW c \in Callers, Resume(c) PROVE TypeOK'
    <2>0. op[c] \in Call
      BY <1>2, Suspended DEF Resume, LimitBuy, BookBuy, LostBuy, ReadFree, LimitSell, MarketSell,
         BookSale, LoseSale, FailOrder, LostSell, LostRest, Buys, Sells
    <2> DEFINE m == op[c].market
               k == op[c].leg
    <2>f. m \in Markets /\ k \in Kinds /\ op[c].want \in Nat /\ op[c].filled \in Nat
          /\ wallet[m] \in Nat /\ qty[m][k] \in Nat /\ qty[m]["core"] \in Nat
      BY <2>0, CallFields DEF TypeOK, Kinds
    <2>1. CASE LimitBuy(c)
      <3>1. PICK f \in 0 .. op[c].want : /\ wallet' = [wallet EXCEPT ![m] = @ + f]
                                         /\ op' = [op EXCEPT ![c].filled = f, ![c].step = "book"]
        BY <2>1 DEF LimitBuy
      <3>2. f \in Nat /\ wallet[m] + f \in Nat /\ "book" \in Steps
        BY <2>f DEF Steps
      <3>3. op' \in [Callers -> Call \cup {NoCall}]
        BY <2>0, <3>1, <3>2, Advanced
      <3>4. wallet' \in [Markets -> Nat]
        BY <3>1, <3>2 DEF TypeOK
      <3> QED BY <2>1, <3>3, <3>4 DEF LimitBuy, TypeOK, satelliteBuy
    <2>2. CASE LostBuy(c)
      BY <2>0, <2>2, <2>f, ReturnType DEF LostBuy, TypeOK, satelliteBuy
    <2>3. CASE FailOrder(c) \/ LoseSale(c)
      BY <2>0, <2>3, ReturnType DEF FailOrder, LoseSale, TypeOK, satelliteBuy
    <2>4. CASE LostSell(c)
      BY <2>0, <2>4, <2>f, ReturnType DEF LostSell, Accepted, TypeOK, satelliteBuy
    <2>5. CASE BookBuy(c)
      <3>1. qty' \in [Markets -> [Kinds -> Nat]]
        BY <2>5, <2>f, LegUpdate DEF BookBuy, TypeOK
      <3> QED BY <2>0, <2>5, <3>1, ReturnType DEF BookBuy, TypeOK, satelliteBuy
    <2>6. CASE ReadFree(c)
      <3>1. SellSize(op[c], wallet[m]) \in Nat
        BY <2>f DEF SellSize, Smaller
      <3> QED BY <2>0, <2>6, <2>f, <3>1, SizedType DEF ReadFree, TypeOK, satelliteBuy
    <2>7. CASE LimitSell(c)
      <3>1. PICK f \in 0 .. op[c].want :
              /\ Execute(c, f)
              /\ op' = [op EXCEPT ![c].filled = f,
                                  ![c].step = IF op[c].want - f >= Floor THEN "rest" ELSE "book"]
        BY <2>7 DEF LimitSell
      <3>2. f <= wallet[m]
        BY <2>7, <2>f DEF LimitSell, Accepted
      <3>3. f \in Nat
            /\ (IF op[c].want - f >= Floor THEN "rest" ELSE "book") \in Steps
        BY <2>f DEF Steps
      <3>4. op' \in [Callers -> Call \cup {NoCall}]
        BY <2>0, <3>1, <3>3, Advanced
      <3>5. wallet' \in [Markets -> Nat] /\ unbooked' \in [Markets -> [Kinds -> Nat]]
        BY <2>0, <3>1, <3>2, <3>3, ExecuteType
      <3> QED BY <2>7, <3>4, <3>5 DEF LimitSell, TypeOK, satelliteBuy
    <2>8. CASE MarketSell(c)
      <3> DEFINE rest == op[c].want - op[c].filled
      <3>1. ASSUME Accepted(m, rest), NEW f \in 0 .. rest, Execute(c, f),
                   op' = [op EXCEPT ![c].filled = @ + f, ![c].step = "book"]
            PROVE  TypeOK'
        <4>1. op' = [op EXCEPT ![c].filled = op[c].filled + f, ![c].step = "book"]
          BY <3>1
        <4>2. f \in Nat /\ f <= wallet[m] /\ op[c].filled + f \in Nat
          BY <2>f, <3>1 DEF Accepted
        <4>3. op' \in [Callers -> Call \cup {NoCall}]
          BY <2>0, <4>1, <4>2, Advanced DEF Steps
        <4>4. wallet' \in [Markets -> Nat] /\ unbooked' \in [Markets -> [Kinds -> Nat]]
          BY <2>0, <3>1, <4>2, ExecuteType
        <4> QED BY <2>8, <4>3, <4>4 DEF MarketSell, TypeOK, satelliteBuy
      <3>2. CASE op' = [op EXCEPT ![c].step = "book"] /\ UNCHANGED <<wallet, unbooked>>
        <4>1. [op[c] EXCEPT !.step = "book"] \in Call
          BY <2>0 DEF Call
        <4> QED BY <2>8, <3>2, <4>1 DEF MarketSell, TypeOK, satelliteBuy
      <3> QED BY <2>8, <3>1, <3>2 DEF MarketSell
    <2>9. CASE BookSale(c)
      <3>1. LeftAfter(op[c], qty[m][k]) \in Nat
        BY <2>0, <2>f, LeftAfterType
      <3>2. qty' \in [Markets -> [Kinds -> Nat]]
        BY <2>9, <2>f, <3>1, LegUpdate DEF BookSale, TypeOK
      <3> QED BY <2>0, <2>9, <3>2, ReturnType DEF BookSale, TypeOK, satelliteBuy
    <2>10. CASE LostRest(c)
      <3>1. [op[c] EXCEPT !.step = "book"] \in Call
        BY <2>0 DEF Call
      <3>2. wallet' \in [Markets -> Nat]
        BY <2>10, <2>f DEF LostRest, Accepted, TypeOK
      <3> QED BY <2>10, <3>1, <3>2 DEF LostRest, TypeOK, satelliteBuy
    <2> QED BY <1>2, <2>1, <2>2, <2>3, <2>4, <2>5, <2>6, <2>7, <2>8, <2>9, <2>10 DEF Resume
  <1>3. CASE Satellite
    <2>1. ASSUME NEW m \in Markets, NEW q \in MinOrder .. MaxOrder, PlaceSatellite(m, q)
          PROVE  TypeOK'
      BY <2>1, SizesAssumption DEF PlaceSatellite, TypeOK
    <2>2. ASSUME NEW m \in Markets, NEW f \in 1 .. MaxOrder, FillSatellite(m, f)
          PROVE  TypeOK'
      BY <2>2, SizesAssumption DEF FillSatellite, TypeOK
    <2>3. ASSUME NEW m \in Markets, NEW left \in 0 .. MaxOrder, PollSatellite(m, left)
          PROVE  TypeOK'
      BY <2>3, SizesAssumption DEF PollSatellite, TypeOK, Kinds
    <2> QED BY <1>3, <2>1, <2>2, <2>3 DEF Satellite
  <1>4. CASE UNCHANGED vars
    BY <1>4 DEF TypeOK, vars
  <1> QED BY <1>1, <1>2, <1>3, <1>4 DEF Next

(* The type invariant holds for every choice of the constants and the faults.  *)
THEOREM TypeCorrect == Spec => []TypeOK
  <1>1. Init => TypeOK
    BY DEF Init, TypeOK
  <1> QED BY <1>1, TypeStep, PTL DEF Spec

-------------------------------------------------------------------------------
(* The market lock. A step starts a call, moves one on, ends one or touches none. *)

Begins(c, o) == op[c] = NoCall /\ o \in Call /\ op' = [op EXCEPT ![c] = o]

Continues(c, o) ==
  /\ op[c] \in Call /\ o \in Call
  /\ o.market = op[c].market /\ o.leg = op[c].leg
  /\ o.kind \in Locked <=> op[c].kind \in Locked
  /\ op' = [op EXCEPT ![c] = o]
  /\ UNCHANGED <<busy, checks>>

Legs == Markets \X Kinds

\* Which leg a call may work on, by its kind.
ShapeOK(o) ==
  /\ o.kind \in Locked => o.leg # "satellite"
  /\ o.kind \in Guarded => o.leg = "satellite"

LEMMA StepShape ==
  ASSUME TypeOK, [Next]_vars
  PROVE  \/ UNCHANGED <<op, busy, checks>>
         \/ \E c \in Callers, o \in Call :
              /\ Begins(c, o) /\ ShapeOK(o)
              /\ \/ o.kind \in Locked /\ TakeLock(o.market)
                 \/ o.kind \in Guarded /\ TakeGuard(o.market)
         \/ \E c \in Callers, o \in Call : Continues(c, o)
         \/ \E c \in Callers : op[c] \in Call /\ Return(c)
  <1> DEFINE Fresh(kind, m, leg, step, want) ==
               [kind |-> kind, market |-> m, leg |-> leg, step |-> step, want |-> want, filled |-> 0]
  <1>1. ASSUME NEW c \in Callers, Start(c)
        PROVE  \E o \in Call :
                 /\ Begins(c, o) /\ ShapeOK(o)
                 /\ \/ o.kind \in Locked /\ TakeLock(o.market)
                    \/ o.kind \in Guarded /\ TakeGuard(o.market)
    <2>0. PICK m \in Markets :
            \/ \E q \in MinOrder .. MaxOrder : OpenScalper(c, m, q) \/ OpenCore(c, m, q) \/ GrowCore(c, m, q)
            \/ \E q \in 1 .. MaxLeg : TrimCore(c, m, q)
            \/ \E leg \in Kinds : Close(c, m, leg)
            \/ PartialClose(c, m)
            \/ SellSatellite(c, m)
      BY <1>1 DEF Start
    <2>1. ASSUME NEW q \in MinOrder .. MaxOrder, OpenScalper(c, m, q) \/ OpenCore(c, m, q) \/ GrowCore(c, m, q)
          PROVE  \E kind \in Buys, leg \in {"scalper", "core"} :
                   TakeLock(m) /\ Suspend(c, kind, m, leg, "order", q)
      BY <2>1 DEF OpenScalper, OpenCore, GrowCore, Buys
    <2>2. ASSUME NEW kind \in Locked, NEW leg \in {"scalper", "core"}, NEW step \in Steps, NEW q \in Nat,
                 TakeLock(m), Suspend(c, kind, m, leg, step, q)
          PROVE  \E o \in Call : Begins(c, o) /\ ShapeOK(o) /\ o.kind \in Locked /\ TakeLock(o.market)
      <3>1. Fresh(kind, m, leg, step, q) \in Call
        BY DEF Call, Kinds, Steps, Locked, Sells
      <3>2. Begins(c, Fresh(kind, m, leg, step, q))
        BY <2>2, <3>1 DEF Suspend, Begins
      <3>3. kind \notin Guarded
        BY DEF Locked, Guarded, Buys
      <3> QED BY <2>2, <3>1, <3>2, <3>3 DEF ShapeOK
    <2>3. CASE SellSatellite(c, m)
      <3> DEFINE o == Fresh("satsell", m, "satellite", "free", qty[m]["satellite"])
      <3>1. o \in Call
        BY DEF Call, Kinds, Sells, TypeOK
      <3>2. Begins(c, o) /\ TakeGuard(m)
        BY <2>3, <3>1 DEF SellSatellite, Suspend, Begins
      <3> QED BY <3>1, <3>2 DEF ShapeOK, Guarded, Locked, Buys
    <2>4. ASSUME NEW q \in 1 .. MaxLeg, TrimCore(c, m, q)
          PROVE  \E n \in Nat : TakeLock(m) /\ Suspend(c, "trim", m, "core", "free", n)
      BY <2>4, SizesAssumption DEF TrimCore, Smaller, TypeOK, Kinds
    <2>5. ASSUME NEW leg \in Kinds, Close(c, m, leg)
          PROVE  leg \in {"scalper", "core"} /\ TakeLock(m)
                 /\ \E n \in Nat : Suspend(c, "close", m, leg, "free", n)
      BY <2>5 DEF Close, TypeOK, Kinds
    <2>6. CASE PartialClose(c, m)
      <3>1. TakeLock(m) /\ \E n \in Nat : Suspend(c, "partial", m, "scalper", "free", n)
        BY <2>6 DEF PartialClose, TypeOK, Kinds
      <3> QED BY <2>2, <3>1 DEF Locked, Steps
    <2>7. CASE \E q \in MinOrder .. MaxOrder : OpenScalper(c, m, q) \/ OpenCore(c, m, q) \/ GrowCore(c, m, q)
      BY <2>1, <2>2, <2>7, SizesAssumption DEF Locked, Steps
    <2>8. CASE \E q \in 1 .. MaxLeg : TrimCore(c, m, q)
      BY <2>2, <2>4, <2>8 DEF Locked, Steps
    <2>9. CASE \E leg \in Kinds : Close(c, m, leg)
      BY <2>2, <2>5, <2>9 DEF Locked, Steps
    <2> QED BY <2>0, <2>3, <2>6, <2>7, <2>8, <2>9
  <1>2. ASSUME NEW c \in Callers, Resume(c)
        PROVE  (op[c] \in Call /\ Return(c)) \/ \E o \in Call : Continues(c, o)
    <2>0. op[c] \in Call
      BY <1>2, Suspended DEF Resume, LimitBuy, BookBuy, LostBuy, ReadFree, LimitSell, MarketSell,
         BookSale, LoseSale, FailOrder, LostSell, LostRest, Buys, Sells
    <2>1. ASSUME NEW f \in Nat, NEW s \in Steps, UNCHANGED <<busy, checks>>,
                 op' = [op EXCEPT ![c].filled = f, ![c].step = s]
          PROVE  \E o \in Call : Continues(c, o)
      <3> DEFINE o == [op[c] EXCEPT !.filled = f, !.step = s]
      <3>1. o \in Call /\ o.market = op[c].market /\ o.leg = op[c].leg /\ o.kind = op[c].kind
        BY <2>0 DEF Call, Steps
      <3>2. op' = [op EXCEPT ![c] = o]
        BY <2>1 DEF TypeOK
      <3> QED BY <2>0, <2>1, <3>1, <3>2 DEF Continues
    <2>2. CASE LimitBuy(c)
      <3>1. PICK f \in 0 .. op[c].want : op' = [op EXCEPT ![c].filled = f, ![c].step = "book"]
        BY <2>2 DEF LimitBuy
      <3>2. f \in Nat /\ "book" \in Steps /\ UNCHANGED <<busy, checks>>
        BY <2>0, <2>2, CallFields DEF LimitBuy, Steps
      <3> QED BY <2>1, <3>1, <3>2
    <2>3. CASE LimitSell(c)
      <3>1. PICK f \in 0 .. op[c].want :
                op' = [op EXCEPT ![c].filled = f,
                                    ![c].step = IF op[c].want - f >= Floor THEN "rest" ELSE "book"]
        BY <2>3 DEF LimitSell
      <3>2. (IF op[c].want - f >= Floor THEN "rest" ELSE "book") \in Steps
        BY DEF Steps
      <3>3. f \in Nat /\ UNCHANGED <<busy, checks>>
        BY <2>0, <2>3, CallFields DEF LimitSell
      <3> QED BY <2>1, <3>1, <3>2, <3>3
    <2>4. CASE MarketSell(c)
      <3>1. op[c].filled \in Nat /\ op[c].want \in Nat /\ "book" \in Steps
            /\ UNCHANGED <<busy, checks>>
        BY <2>0, <2>4, CallFields DEF MarketSell, Steps
      <3>2. ASSUME NEW f \in 0 .. (op[c].want - op[c].filled),
                   op' = [op EXCEPT ![c].filled = @ + f, ![c].step = "book"]
            PROVE  \E o \in Call : Continues(c, o)
        <4>1. op[c].filled + f \in Nat
          BY <3>1
        <4> HIDE <3>2
        <4>2. op' = [op EXCEPT ![c].filled = op[c].filled + f, ![c].step = "book"]
          BY <3>2
        <4> QED BY <2>1, <3>1, <4>1, <4>2
      <3>3. CASE op' = [op EXCEPT ![c].step = "book"]
        <4>1. op' = [op EXCEPT ![c].filled = op[c].filled, ![c].step = "book"]
          BY <2>0, <3>3 DEF TypeOK, Call
        <4> QED BY <2>1, <3>1, <4>1
      <3> QED BY <2>4, <3>2, <3>3 DEF MarketSell
    <2>5. CASE ReadFree(c)
      <3>2. ASSUME NEW w, op' = [op EXCEPT ![c].kind = "close", ![c].want = w], w \in Nat,
                   op[c].kind = "trim", UNCHANGED <<busy, checks>>
            PROVE  \E o \in Call : Continues(c, o)
        <4> DEFINE o == [op[c] EXCEPT !.kind = "close", !.want = w]
        <4>1. o \in Call /\ o.market = op[c].market /\ o.leg = op[c].leg /\ o.kind = "close"
          BY <2>0, <3>2 DEF Call, Sells
        <4>2. op' = [op EXCEPT ![c] = o]
          BY <3>2 DEF TypeOK
        <4> QED BY <2>0, <3>2, <4>1, <4>2 DEF Continues, Locked
      <3>3. ASSUME NEW w, op' = [op EXCEPT ![c].step = "order", ![c].want = w], w \in Nat,
                   UNCHANGED <<busy, checks>>
            PROVE  \E o \in Call : Continues(c, o)
        <4> DEFINE o == [op[c] EXCEPT !.step = "order", !.want = w]
        <4>1. o \in Call /\ o.market = op[c].market /\ o.leg = op[c].leg /\ o.kind = op[c].kind
          BY <2>0, <3>3 DEF Call
        <4>2. op' = [op EXCEPT ![c] = o]
          BY <3>3 DEF TypeOK
        <4> QED BY <2>0, <3>3, <4>1, <4>2 DEF Continues
      <3>4. PICK free \in Nat : Sized(c, SellSize(op[c], free)) \/ Sized(c, op[c].want)
        <4>1. wallet[op[c].market] \in Nat
          BY <2>0, CallFields DEF TypeOK
        <4> QED BY <2>5, <4>1 DEF ReadFree
      <3>5. PICK n \in Nat : Sized(c, n)
        <4>1. SellSize(op[c], free) \in Nat /\ op[c].want \in Nat
          BY <2>0, CallFields DEF SellSize, Smaller
        <4> QED BY <3>4, <4>1
      <3>6. qty[op[c].market]["core"] \in Nat
        BY <2>0, CallFields DEF TypeOK, Kinds
      <3>7. CASE op[c].kind \in {"trim", "partial"} /\ n < MinOrder
        BY <2>0, <3>5, <3>7 DEF Sized
      <3>8. CASE ~(op[c].kind \in {"trim", "partial"} /\ n < MinOrder)
        BY <3>2, <3>3, <3>5, <3>6, <3>8 DEF Sized
      <3> QED BY <3>7, <3>8
    <2>6. CASE BookBuy(c) \/ LostBuy(c) \/ BookSale(c) \/ LoseSale(c) \/ FailOrder(c) \/ LostSell(c)
      BY <2>0, <2>6 DEF BookBuy, LostBuy, BookSale, LoseSale, FailOrder, LostSell
    <2>7. CASE LostRest(c)
      <3>1. op[c].filled \in Nat /\ "book" \in Steps /\ UNCHANGED <<busy, checks>>
        BY <2>0, <2>7, CallFields DEF LostRest, Steps
      <3>2. op' = [op EXCEPT ![c].filled = op[c].filled, ![c].step = "book"]
        BY <2>0, <2>7 DEF LostRest, TypeOK, Call
      <3> QED BY <2>1, <3>1, <3>2
    <2> QED BY <1>2, <2>2, <2>3, <2>4, <2>5, <2>6, <2>7 DEF Resume
  <1>3. CASE Satellite
    BY <1>3 DEF Satellite, PlaceSatellite, FillSatellite, PollSatellite
  <1>4. CASE UNCHANGED vars
    BY <1>4 DEF vars
  <1> QED BY <1>1, <1>2, <1>3, <1>4 DEF Next

\* The guard is as exact as the lock, and every call is on a leg of its kind.
GuardExact ==
  /\ \A c \in Callers : op[c].kind \in Guarded => op[c].market \in checks
  /\ \A c, d \in Callers :
       op[c].kind \in Guarded /\ op[d].kind \in Guarded /\ op[c].market = op[d].market => c = d

CallsOnTheirLegs == \A c \in Callers : ShapeOK(op[c])

LockInv == TypeOK /\ OneOrderPerMarket /\ GuardExact /\ CallsOnTheirLegs

LEMMA LockInit == Init => LockInv
  <1> SUFFICES ASSUME Init PROVE LockInv
    OBVIOUS
  <1>1. \A c \in Callers : op[c] = NoCall /\ op[c].kind \notin Locked /\ op[c].kind \notin Guarded
    BY DEF Init, NoCall, Locked, Guarded, Buys
  <1>2. TypeOK
    BY DEF Init, TypeOK
  <1> QED BY <1>1, <1>2 DEF Init, LockInv, OneOrderPerMarket, GuardExact, CallsOnTheirLegs, ShapeOK

LEMMA LockStep == LockInv /\ [Next]_vars => LockInv'
  <1> SUFFICES ASSUME LockInv, [Next]_vars PROVE LockInv'
    OBVIOUS
  <1> USE DEF LockInv
  <1>0. TypeOK'
    BY TypeStep
  <1>n. NoCall.kind \notin Locked /\ NoCall.kind \notin Guarded /\ Locked \cap Guarded = {}
    BY DEF NoCall, Locked, Guarded, Buys
  <1>1. CASE UNCHANGED <<op, busy, checks>>
    BY <1>0, <1>1 DEF OneOrderPerMarket, GuardExact, CallsOnTheirLegs
  <1>2. ASSUME NEW c \in Callers, NEW o \in Call, Begins(c, o), ShapeOK(o),
               o.kind \in Locked, TakeLock(o.market)
        PROVE  LockInv'
    <2>1. op'[c] = o /\ \A d \in Callers : d # c => op'[d] = op[d]
      BY <1>2 DEF Begins, TypeOK
    <2>2. o.kind \notin Guarded /\ o.market \in busy' /\ o.market \notin busy
          /\ busy' = busy \cup {o.market} /\ checks' = checks /\ op[c] = NoCall
      BY <1>2, <1>n DEF TakeLock, Begins
    <2>3. OneOrderPerMarket'
      BY <1>2, <1>n, <2>1, <2>2 DEF OneOrderPerMarket
    <2>4. GuardExact'
      BY <2>1, <2>2 DEF GuardExact
    <2> QED BY <1>0, <1>2, <2>1, <2>3, <2>4 DEF CallsOnTheirLegs
  <1>3. ASSUME NEW c \in Callers, NEW o \in Call, Begins(c, o), ShapeOK(o),
               o.kind \in Guarded, TakeGuard(o.market)
        PROVE  LockInv'
    <2>1. op'[c] = o /\ \A d \in Callers : d # c => op'[d] = op[d]
      BY <1>3 DEF Begins, TypeOK
    <2>2. o.kind \notin Locked /\ o.market \in checks' /\ o.market \notin checks
          /\ checks' = checks \cup {o.market} /\ busy' = busy /\ op[c] = NoCall
      BY <1>3, <1>n DEF TakeGuard, Begins
    <2>3. OneOrderPerMarket'
      BY <1>n, <2>1, <2>2 DEF OneOrderPerMarket
    <2>4. GuardExact'
      BY <1>3, <1>n, <2>1, <2>2 DEF GuardExact
    <2> QED BY <1>0, <1>3, <2>1, <2>3, <2>4 DEF CallsOnTheirLegs
  <1>4. ASSUME NEW c \in Callers, NEW o \in Call, Continues(c, o), ShapeOK(o)
        PROVE  LockInv'
    <2>1. op'[c] = o /\ \A d \in Callers : d # c => op'[d] = op[d]
      BY <1>4 DEF Continues, TypeOK
    <2>2. \A d \in Callers : /\ op'[d].market = op[d].market
                             /\ op'[d].kind \in Locked <=> op[d].kind \in Locked
      BY <1>4, <2>1 DEF Continues
    <2>3. \A d \in Callers : op'[d].kind \in Guarded <=> op[d].kind \in Guarded
      BY <1>4, <2>1 DEF Continues, Call, Locked, Guarded, Buys, Sells
    <2>4. busy' = busy /\ checks' = checks
      BY <1>4 DEF Continues
    <2>5. OneOrderPerMarket' /\ GuardExact'
      BY <2>2, <2>3, <2>4 DEF OneOrderPerMarket, GuardExact
    <2> QED BY <1>0, <1>4, <2>1, <2>5 DEF CallsOnTheirLegs
  <1>5. ASSUME NEW c \in Callers, op[c] \in Call, Return(c)
        PROVE  LockInv'
    <2>1. op'[c] = NoCall /\ \A d \in Callers : d # c => op'[d] = op[d]
      BY <1>5 DEF Return, TypeOK
    <2>2. busy' = (IF op[c].kind \in Locked THEN busy \ {op[c].market} ELSE busy)
          /\ checks' = (IF op[c].kind \in Guarded THEN checks \ {op[c].market} ELSE checks)
      BY <1>5 DEF Return
    <2>3. OneOrderPerMarket'
      BY <1>n, <2>1, <2>2 DEF OneOrderPerMarket
    <2>4. GuardExact'
      BY <1>n, <2>1, <2>2 DEF GuardExact
    <2>5. CallsOnTheirLegs'
      BY <1>n, <2>1 DEF CallsOnTheirLegs, ShapeOK
    <2> QED BY <1>0, <2>3, <2>4, <2>5
  <1>6. ASSUME NEW c \in Callers, NEW o \in Call, Continues(c, o)
        PROVE  ShapeOK(o)
    BY <1>6 DEF Continues, CallsOnTheirLegs, ShapeOK, Call, Locked, Guarded, Buys, Sells
  <1> QED BY StepShape, <1>1, <1>2, <1>3, <1>4, <1>5, <1>6

(* One open, close or resize per market at a time, and no lock without its call: *)
(* the comment on #busyMarkets, for every number of coins and of callers, and     *)
(* whatever the exchange answers or fails to answer.                             *)
THEOREM MarketLockHolds == Spec => []OneOrderPerMarket
  <1>1. LockInv => OneOrderPerMarket
    BY DEF LockInv
  <1> QED BY LockInit, LockStep, <1>1, PTL DEF Spec

-------------------------------------------------------------------------------
(* The wallet. Where every exchange answer arrives, Slack never goes negative. *)

\* What the wallet holds beyond what the legs and the uncredited fills account for.
Slack(m) == wallet[m] - (Tracked(m) + uncredited[m])

\* A sale: what it executed is unbooked on its leg, and it wants no more than the leg holds.
SaleOK(c) ==
  LET o == op[c]
  IN  o.kind \in Sells =>
        /\ unbooked[o.market][o.leg] = o.filled
        /\ o.filled <= o.want /\ o.want <= qty[o.market][o.leg]
        /\ o.step \in {"free", "order"} => o.filled = 0
        /\ o.kind = "partial" => o.want < qty[o.market][o.leg]
        /\ o.kind = "trim" => o.leg = "core"
        /\ o.kind = "trim" /\ o.step # "free" => o.want < qty[o.market][o.leg]

\* A buy: what it executed is in the wallet and no leg accounts for it yet.
BuyOK(c) ==
  LET o == op[c]
  IN  o.kind \in Buys => /\ o.step = "order" => o.filled = 0
                         /\ o.filled <= Slack(o.market)
                         /\ unbooked[o.market][o.leg] = 0

\* Only a suspended sale leaves anything unbooked.
NoStraySale ==
  \A m \in Markets, k \in Kinds :
    unbooked[m][k] > 0 => \E c \in Callers : op[c].kind \in Sells /\ op[c].market = m /\ op[c].leg = k

WalletInv ==
  /\ LockInv
  /\ NoStraySale
  /\ \A c \in Callers : SaleOK(c) /\ BuyOK(c)
  /\ \A m \in Markets : Slack(m) >= 0

LEMMA SlackType ==
  ASSUME TypeOK, NEW m \in Markets
  PROVE  /\ \A k \in Kinds : Held(m, k) \in Int
         /\ Tracked(m) \in Int /\ Slack(m) \in Int
  BY DEF TypeOK, Slack, Tracked, Held, Kinds

LEMMA SlackTypeNext ==
  ASSUME TypeOK', NEW m \in Markets
  PROVE  /\ \A k \in Kinds : Held(m, k)' \in Int
         /\ Tracked(m)' \in Int /\ Slack(m)' \in Int
  BY DEF TypeOK, Slack, Tracked, Held, Kinds

\* Two suspended calls are on different legs, and on one market at most one is a buy.
LEMMA LegsApart ==
  ASSUME LockInv, NEW c \in Callers, NEW d \in Callers, c # d, op[c] \in Call, op[d] \in Call,
         op[c].market = op[d].market
  PROVE  op[c].leg # op[d].leg /\ ~(op[c].kind \in Locked /\ op[d].kind \in Locked)
  BY DEF LockInv, OneOrderPerMarket, GuardExact, CallsOnTheirLegs, ShapeOK, Call, Locked, Guarded, Buys, Sells

\* A step that changes one leg of a market by `delta` changes its tracked sum by as much.
LEMMA TrackedBy ==
  ASSUME TypeOK, TypeOK', NEW m \in Markets, NEW k \in Kinds, NEW delta \in Int,
         Held(m, k)' = Held(m, k) + delta,
         \A j \in Kinds : j # k => Held(m, j)' = Held(m, j)
  PROVE  Tracked(m)' = Tracked(m) + delta
  <1>1. CASE k = "scalper"
    BY <1>1, SlackType DEF Tracked, Kinds, TypeOK, Held
  <1>2. CASE k = "core"
    BY <1>2, SlackType DEF Tracked, Kinds, TypeOK, Held
  <1>3. CASE k = "satellite"
    BY <1>3, SlackType DEF Tracked, Kinds, TypeOK, Held
  <1> QED BY <1>1, <1>2, <1>3 DEF Kinds

\* A call on (m, k) that leaves every other leg alone and lets the slack of m shrink by no
\* more than a buy of its own may, keeps what the invariant says of the other calls.
LEMMA OthersKept ==
  ASSUME LockInv, TypeOK', NEW c \in Callers, op[c] \in Call, NEW cm \in Markets, cm = op[c].market,
         \A d \in Callers : d # c => op'[d] = op[d] /\ SaleOK(d) /\ BuyOK(d),
         \A m \in Markets, k \in Kinds :
           m # cm \/ k # op[c].leg => qty'[m][k] = qty[m][k] /\ unbooked'[m][k] = unbooked[m][k],
         \A m \in Markets : m # cm => wallet'[m] = wallet[m],
         uncredited' = uncredited,
         Slack(cm)' >= Slack(cm) \/ op[c].kind \in Locked
  PROVE  /\ \A d \in Callers : d # c => SaleOK(d)' /\ BuyOK(d)'
         /\ \A m \in Markets : m # cm => Slack(m)' = Slack(m)
  <1>2. ASSUME NEW m \in Markets, m # cm PROVE Slack(m)' = Slack(m)
    BY <1>2 DEF Slack, Tracked, Held, Kinds
  <1>3. ASSUME NEW d \in Callers, d # c PROVE SaleOK(d)' /\ BuyOK(d)'
    <2>1. CASE op[d] = NoCall
      BY <1>3, <2>1 DEF SaleOK, BuyOK, NoCall, Sells, Buys
    <2>2. CASE op[d] \in Call
      <3>1. op[d].market \in Markets /\ op[d].leg \in Kinds /\ op[d].filled \in Nat
        BY <2>2, CallFields
      <3>2. op[d].market # cm \/ op[d].leg # op[c].leg
        BY <1>3, <2>2, LegsApart
      <3>3. /\ qty'[op[d].market][op[d].leg] = qty[op[d].market][op[d].leg]
            /\ unbooked'[op[d].market][op[d].leg] = unbooked[op[d].market][op[d].leg]
        BY <3>1, <3>2
      <3>4. SaleOK(d)'
        BY <1>3, <3>3 DEF SaleOK
      <3>5. ASSUME NEW x \in Markets, x = op[d].market, op[d].kind \in Buys
            PROVE  Slack(x)' >= Slack(x) /\ Slack(x) \in Int /\ Slack(x)' \in Int
        <4>0. Slack(x) \in Int /\ Slack(x)' \in Int
          BY SlackType, SlackTypeNext DEF LockInv
        <4>1. CASE x # cm
          BY <1>2, <4>0, <4>1
        <4>2. CASE x = cm
          <5>1. ~(op[c].kind \in Locked /\ op[d].kind \in Locked)
            BY <1>3, <2>2, <3>5, <4>2, LegsApart
          <5> QED BY <3>5, <4>0, <4>2, <5>1 DEF Locked
        <4> QED BY <4>1, <4>2
      <3>6. BuyOK(d)'
        BY <1>3, <3>1, <3>3, <3>5 DEF BuyOK
      <3> QED BY <3>4, <3>6
    <2> QED BY <2>1, <2>2 DEF LockInv, TypeOK
  <1> QED BY <1>2, <1>3

LEMMA NoCallKind == NoCall.kind \notin Sells /\ NoCall.kind \notin Buys
  BY DEF NoCall, Sells, Buys

LEMMA WalletInit == Init => WalletInv
  <1> SUFFICES ASSUME Init PROVE WalletInv
    OBVIOUS
  <1>1. \A c \in Callers : SaleOK(c) /\ BuyOK(c)
    BY DEF Init, SaleOK, BuyOK, NoCall, Sells, Buys
  <1>2. \A m \in Markets : Slack(m) >= 0
    BY DEF Init, Slack, Tracked, Held, Kinds
  <1>3. NoStraySale
    BY DEF Init, NoStraySale
  <1> QED BY <1>1, <1>2, <1>3, LockInit DEF WalletInv

LEMMA WalletStart ==
  ASSUME WalletInv, NEW c \in Callers, Start(c), UNCHANGED faults
  PROVE  WalletInv'
  <1>0. LockInv' /\ TypeOK /\ TypeOK'
    BY LockStep DEF Next, WalletInv, LockInv
  <1>1. UNCHANGED <<wallet, qty, uncredited, unbooked>> /\ op[c] = NoCall
    BY DEF Start, OpenScalper, OpenCore, GrowCore, TrimCore, Close, PartialClose, SellSatellite, Suspend,
       satelliteBuy
  <1>2. PICK kind \in Buys \cup Sells, m \in Markets, leg \in Kinds, step \in {"free", "order"}, want \in Nat :
          /\ op' = [op EXCEPT ![c] = [kind |-> kind, market |-> m, leg |-> leg, step |-> step,
                                      want |-> want, filled |-> 0]]
          /\ kind \in Locked => m \notin busy
          /\ kind \in Guarded => m \notin checks
          /\ kind \in Locked => leg # "satellite"
          /\ kind \in Guarded => leg = "satellite"
          /\ kind \in Sells => want <= qty[m][leg]
          /\ kind = "partial" => want < qty[m][leg]
          /\ kind = "trim" => leg = "core" /\ step = "free"
    <2>1. PICK m \in Markets :
            \/ \E q \in MinOrder .. MaxOrder : OpenScalper(c, m, q) \/ OpenCore(c, m, q) \/ GrowCore(c, m, q)
            \/ \E q \in 1 .. MaxLeg : TrimCore(c, m, q)
            \/ \E leg \in Kinds : Close(c, m, leg)
            \/ PartialClose(c, m)
            \/ SellSatellite(c, m)
      BY DEF Start
    <2>t. \A k \in Kinds : qty[m][k] \in Nat
      BY <1>0 DEF TypeOK
    <2> USE DEF Suspend, TakeLock, TakeGuard, Locked, Guarded, Buys, Sells, Kinds
    <2>2. ASSUME NEW q \in MinOrder .. MaxOrder, OpenScalper(c, m, q)
          PROVE  q \in Nat /\ "open" \in Buys /\ m \notin busy
                 /\ op' = [op EXCEPT ![c] = [kind |-> "open", market |-> m, leg |-> "scalper",
                             step |-> "order", want |-> q, filled |-> 0]]
      BY <2>2, SizesAssumption DEF OpenScalper
    <2>3. ASSUME NEW q \in MinOrder .. MaxOrder, OpenCore(c, m, q)
          PROVE  q \in Nat /\ m \notin busy
                 /\ op' = [op EXCEPT ![c] = [kind |-> "open", market |-> m, leg |-> "core",
                             step |-> "order", want |-> q, filled |-> 0]]
      BY <2>3, SizesAssumption DEF OpenCore
    <2>4. ASSUME NEW q \in MinOrder .. MaxOrder, GrowCore(c, m, q)
          PROVE  q \in Nat /\ m \notin busy
                 /\ op' = [op EXCEPT ![c] = [kind |-> "grow", market |-> m, leg |-> "core",
                             step |-> "order", want |-> q, filled |-> 0]]
      BY <2>4, SizesAssumption DEF GrowCore
    <2>5. ASSUME NEW q \in 1 .. MaxLeg, TrimCore(c, m, q)
          PROVE  \E w \in Nat :
                 /\ w <= qty[m]["core"] /\ m \notin busy
                 /\ op' = [op EXCEPT ![c] = [kind |-> "trim", market |-> m, leg |-> "core",
                             step |-> "free", want |-> w, filled |-> 0]]
      <3>1. Smaller(q, qty[m]["core"]) \in Nat /\ Smaller(q, qty[m]["core"]) <= qty[m]["core"]
        BY <2>t, SizesAssumption DEF Smaller
      <3> QED BY <2>5, <3>1 DEF TrimCore
    <2>6. ASSUME NEW leg \in Kinds, Close(c, m, leg)
          PROVE  /\ leg # "satellite" /\ m \notin busy
                 /\ op' = [op EXCEPT ![c] = [kind |-> "close", market |-> m, leg |-> leg,
                             step |-> "free", want |-> qty[m][leg], filled |-> 0]]
      BY <2>6 DEF Close
    <2>7. ASSUME PartialClose(c, m)
          PROVE  \E w \in Nat :
                 /\ w < qty[m]["scalper"] /\ w <= qty[m]["scalper"] /\ m \notin busy
                 /\ op' = [op EXCEPT ![c] = [kind |-> "partial", market |-> m, leg |-> "scalper",
                             step |-> "free", want |-> w, filled |-> 0]]
      <3>1. /\ qty[m]["scalper"] \div 2 \in Nat /\ qty[m]["scalper"] \div 2 < qty[m]["scalper"]
            /\ qty[m]["scalper"] \div 2 <= qty[m]["scalper"]
        BY <2>7, <2>t DEF PartialClose
      <3> QED BY <2>7, <3>1 DEF PartialClose
    <2>8. ASSUME SellSatellite(c, m)
          PROVE  /\ m \notin checks
                 /\ op' = [op EXCEPT ![c] = [kind |-> "satsell", market |-> m, leg |-> "satellite",
                             step |-> "free", want |-> qty[m]["satellite"], filled |-> 0]]
      BY <2>8 DEF SellSatellite
    <2>9. CASE \E q \in MinOrder .. MaxOrder : OpenScalper(c, m, q) \/ OpenCore(c, m, q) \/ GrowCore(c, m, q)
      BY <2>9, <2>2, <2>3, <2>4
    <2>10. CASE \E q \in 1 .. MaxLeg : TrimCore(c, m, q)
      BY <2>10, <2>5
    <2>11. CASE \E leg \in Kinds : Close(c, m, leg)
      <3>1. PICK leg \in Kinds : Close(c, m, leg)
        BY <2>11
      <3>2. qty[m][leg] \in Nat /\ qty[m][leg] <= qty[m][leg]
        BY <2>t
      <3> QED BY <2>6, <3>1, <3>2
    <2>12. CASE PartialClose(c, m)
      <3>1. PICK w \in Nat :
                 /\ w < qty[m]["scalper"] /\ w <= qty[m]["scalper"] /\ m \notin busy
                 /\ op' = [op EXCEPT ![c] = [kind |-> "partial", market |-> m, leg |-> "scalper",
                             step |-> "free", want |-> w, filled |-> 0]]
        BY <2>12, <2>7
      <3> DEFINE kd == "partial"
                 lg == "scalper"
      <3>2. kd \in Buys \cup Sells /\ lg \in Kinds /\ kd \notin Guarded /\ kd # "trim" /\ lg # "satellite"
        OBVIOUS
      <3>3. /\ op' = [op EXCEPT ![c] = [kind |-> kd, market |-> m, leg |-> lg, step |-> "free",
                                        want |-> w, filled |-> 0]]
            /\ m \notin busy /\ w <= qty[m][lg] /\ w < qty[m][lg]
        BY <3>1
      <3> HIDE DEF kd, lg
      <3> QED BY <3>2, <3>3
    <2>13. CASE SellSatellite(c, m)
      <3>1. qty[m]["satellite"] \in Nat /\ qty[m]["satellite"] <= qty[m]["satellite"]
        BY <2>t
      <3> QED BY <2>8, <2>13, <3>1
    <2> QED BY <2>1, <2>9, <2>10, <2>11, <2>12, <2>13
  <1>3. \A d \in Callers : d # c => op'[d] = op[d]
    BY <1>0, <1>2 DEF TypeOK
  <1>4. /\ op'[c].kind = kind /\ op'[c].market = m /\ op'[c].leg = leg /\ op'[c].step = step
        /\ op'[c].want = want /\ op'[c].filled = 0
    BY <1>0, <1>2 DEF TypeOK
  <1>5. unbooked[m][leg] = 0
    <2>1. \A d \in Callers : ~(op[d].kind \in Sells /\ op[d].market = m /\ op[d].leg = leg)
      BY <1>2 DEF WalletInv, LockInv, OneOrderPerMarket, GuardExact, CallsOnTheirLegs, ShapeOK,
         Locked, Guarded, Buys, Sells
    <2>2. ~(unbooked[m][leg] > 0)
      BY <2>1 DEF WalletInv, NoStraySale
    <2>3. unbooked[m][leg] \in Nat
      BY <1>0 DEF TypeOK
    <2> QED BY <2>2, <2>3
  <1>6. \A x \in Markets : Slack(x)' = Slack(x) /\ Slack(x) \in Int
    BY <1>0, <1>1, SlackType DEF Slack, Tracked, Held
  <1>7. SaleOK(c)' /\ BuyOK(c)'
    BY <1>1, <1>2, <1>4, <1>5, <1>6 DEF SaleOK, BuyOK, WalletInv
  <1>8. \A d \in Callers : d # c => SaleOK(d)' /\ BuyOK(d)'
    <2> SUFFICES ASSUME NEW d \in Callers, d # c PROVE SaleOK(d)' /\ BuyOK(d)'
      OBVIOUS
    <2>1. op'[d] = op[d] /\ SaleOK(d) /\ BuyOK(d)
      BY <1>3 DEF WalletInv
    <2>2. op[d].kind \in Buys => op[d].market \in Markets
      BY <1>0, CallFields, Suspended DEF Buys
    <2> QED BY <1>1, <1>6, <2>1, <2>2 DEF SaleOK, BuyOK
  <1>9. NoStraySale'
    BY <1>1, <1>3, NoCallKind DEF NoStraySale, WalletInv
  <1> QED BY <1>0, <1>6, <1>7, <1>8, <1>9 DEF WalletInv

\* What a step of a suspended call must show to keep the invariant.
LEMMA WalletKept ==
  ASSUME WalletInv, LockInv', NEW c \in Callers, op[c] \in Call, NEW cm \in Markets, cm = op[c].market,
         NEW ck \in Kinds, ck = op[c].leg,
         \A d \in Callers : d # c => op'[d] = op[d],
         \A m \in Markets, k \in Kinds :
           m # cm \/ k # ck => qty'[m][k] = qty[m][k] /\ unbooked'[m][k] = unbooked[m][k],
         \A m \in Markets : m # cm => wallet'[m] = wallet[m],
         uncredited' = uncredited,
         Slack(cm)' >= Slack(cm) \/ op[c].kind \in Locked,
         Slack(cm)' >= 0, SaleOK(c)', BuyOK(c)',
         unbooked'[cm][ck] > 0 => op'[c].kind \in Sells /\ op'[c].market = cm /\ op'[c].leg = ck
  PROVE  WalletInv'
  <1>1. LockInv /\ TypeOK'
    BY DEF WalletInv, LockInv
  <1>2. \A d \in Callers : d # c => op'[d] = op[d] /\ SaleOK(d) /\ BuyOK(d)
    BY DEF WalletInv
  <1>3. /\ \A d \in Callers : d # c => SaleOK(d)' /\ BuyOK(d)'
        /\ \A m \in Markets : m # cm => Slack(m)' = Slack(m)
    BY <1>1, <1>2, OthersKept
  <1>4. ASSUME NEW m \in Markets, NEW k \in Kinds, unbooked'[m][k] > 0
        PROVE  \E d \in Callers : op'[d].kind \in Sells /\ op'[d].market = m /\ op'[d].leg = k
    <2>1. CASE m = cm /\ k = ck
      BY <1>4, <2>1
    <2>2. CASE m # cm \/ k # ck
      <3>1. PICK d \in Callers : op[d].kind \in Sells /\ op[d].market = m /\ op[d].leg = k
        BY <1>4, <2>2 DEF WalletInv, NoStraySale
      <3> QED BY <2>2, <3>1
    <2> QED BY <2>1, <2>2
  <1>5. \A m \in Markets : Slack(m)' >= 0
    BY <1>3 DEF WalletInv
  <1> QED BY <1>3, <1>4, <1>5 DEF WalletInv, NoStraySale

\* A call that ends, having left the wallet as it was: what it held is `left`.
LEMMA WalletReturn ==
  ASSUME WalletInv, LockInv', NEW c \in Callers, op[c] \in Call, Return(c),
         NEW cm \in Markets, cm = op[c].market, NEW ck \in Kinds, ck = op[c].leg,
         NEW left \in Nat, qty' = [qty EXCEPT ![cm][ck] = left],
         UNCHANGED <<wallet, uncredited>>,
         left <= Held(cm, ck) \/ (op[c].kind \in Buys /\ left <= Held(cm, ck) + op[c].filled)
  PROVE  WalletInv'
  <1>1. TypeOK /\ TypeOK' /\ SaleOK(c) /\ BuyOK(c) /\ Slack(cm) >= 0
    BY DEF WalletInv, LockInv
  <1>2. op'[c] = NoCall /\ \A d \in Callers : d # c => op'[d] = op[d]
    BY <1>1 DEF Return, TypeOK
  <1>3. /\ qty'[cm][ck] = left /\ unbooked'[cm][ck] = 0
        /\ \A m \in Markets, k \in Kinds :
             m # cm \/ k # ck => qty'[m][k] = qty[m][k] /\ unbooked'[m][k] = unbooked[m][k]
    BY <1>1 DEF Return, TypeOK
  <1>4. SaleOK(c)' /\ BuyOK(c)'
    BY <1>2, NoCallKind DEF SaleOK, BuyOK
  <1>5. Tracked(cm)' = Tracked(cm) + (left - Held(cm, ck))
    <2>1. Held(cm, ck)' = left /\ Held(cm, ck) \in Int
      BY <1>1, <1>3, SlackType DEF Held
    <2>2. Held(cm, ck)' = Held(cm, ck) + (left - Held(cm, ck)) /\ left - Held(cm, ck) \in Int
      BY <2>1
    <2>3. \A j \in Kinds : j # ck => Held(cm, j)' = Held(cm, j)
      BY <1>3 DEF Held
    <2> QED BY <1>1, <2>2, <2>3, TrackedBy
  <1>6. /\ Held(cm, ck) \in Int /\ Tracked(cm) \in Int /\ Slack(cm) \in Int
        /\ wallet[cm] \in Nat /\ uncredited[cm] \in Nat /\ op[c].filled \in Nat
    BY <1>1, SlackType, CallFields DEF TypeOK
  <1>7. Slack(cm)' = Slack(cm) - (left - Held(cm, ck))
    BY <1>5, <1>6 DEF Slack
  <1>8. Slack(cm)' >= 0 /\ (Slack(cm)' >= Slack(cm) \/ op[c].kind \in Locked)
    <2>1. CASE left <= Held(cm, ck)
      BY <1>1, <1>6, <1>7, <2>1
    <2>2. CASE op[c].kind \in Buys /\ left <= Held(cm, ck) + op[c].filled
      BY <1>1, <1>6, <1>7, <2>2 DEF BuyOK, Locked
    <2> QED BY <2>1, <2>2
  <1> QED BY <1>2, <1>3, <1>4, <1>8, WalletKept

LEMMA WalletResume ==
  ASSUME faults = {}, WalletInv, NEW c \in Callers, Resume(c), UNCHANGED faults
  PROVE  WalletInv'
  <1>0. LockInv' /\ TypeOK /\ TypeOK' /\ SaleOK(c) /\ BuyOK(c)
    BY LockStep DEF Next, WalletInv, LockInv
  <1>1. op[c] \in Call
    BY <1>0, Suspended DEF Resume, LimitBuy, BookBuy, LostBuy, ReadFree, LimitSell, MarketSell,
       BookSale, LoseSale, FailOrder, LostSell, LostRest, Buys, Sells
  <1>2. PICK cm \in Markets, ck \in Kinds, want \in Nat, filled \in Nat :
          cm = op[c].market /\ ck = op[c].leg /\ want = op[c].want /\ filled = op[c].filled
    BY <1>1, CallFields
  <1>3. /\ wallet[cm] \in Nat /\ uncredited[cm] \in Nat /\ qty[cm][ck] \in Nat /\ unbooked[cm][ck] \in Nat
        /\ Held(cm, ck) \in Int /\ Tracked(cm) \in Int /\ Slack(cm) \in Int /\ Slack(cm) >= 0
        /\ Tracked(cm)' \in Int /\ Slack(cm)' \in Int
    BY <1>0, SlackType, SlackTypeNext DEF TypeOK, WalletInv
  <1>4. CASE LimitBuy(c)
    <2>1. PICK f \in 0 .. want : /\ wallet' = [wallet EXCEPT ![cm] = @ + f]
                                 /\ op' = [op EXCEPT ![c].filled = f, ![c].step = "book"]
      BY <1>2, <1>4 DEF LimitBuy
    <2>2. f \in Nat /\ filled = 0 /\ op[c].kind \in Buys /\ op[c].kind \in Locked
          /\ UNCHANGED <<qty, uncredited, unbooked>> /\ op[c].kind \notin Sells
      BY <1>0, <1>2, <1>4 DEF LimitBuy, BuyOK, satelliteBuy, Locked, Buys, Sells
    <2>3. /\ op'[c].kind = op[c].kind /\ op'[c].market = cm /\ op'[c].leg = ck /\ op'[c].filled = f
          /\ op'[c].step = "book"
          /\ \A d \in Callers : d # c => op'[d] = op[d]
      BY <1>0, <1>1, <1>2, <2>1 DEF TypeOK, Call
    <2>4. Slack(cm)' = Slack(cm) + f
      BY <1>0, <1>3, <2>1, <2>2 DEF Slack, Tracked, Held, TypeOK
    <2>5. \A m \in Markets : m # cm => wallet'[m] = wallet[m]
      BY <1>0, <2>1 DEF TypeOK
    <2>6. SaleOK(c)' /\ BuyOK(c)'
      BY <1>0, <1>2, <1>3, <2>2, <2>3, <2>4 DEF SaleOK, BuyOK
    <2>7. unbooked'[cm][ck] = 0
      BY <1>0, <1>2, <2>2 DEF BuyOK
    <2>8. Slack(cm)' >= 0 /\ Slack(cm)' >= Slack(cm)
      BY <1>3, <2>2, <2>4
    <2> QED BY <1>0, <1>1, <1>2, <2>2, <2>3, <2>5, <2>6, <2>7, <2>8, WalletKept
  <1>5. CASE BookBuy(c)
    <2>1. op[c].kind \in Buys /\ unbooked[cm][ck] = 0 /\ Return(c) /\ UNCHANGED <<wallet, uncredited>>
      BY <1>0, <1>2, <1>5 DEF BookBuy, BuyOK, satelliteBuy
    <2>2. CASE op[c].kind = "open" /\ op[c].filled < Floor
      <3>1. qty' = [qty EXCEPT ![cm][ck] = qty[cm][ck]]
        BY <1>0, <1>2, <1>5, <2>2 DEF BookBuy, TypeOK
      <3>2. qty[cm][ck] \in Nat /\ qty[cm][ck] <= Held(cm, ck)
        BY <1>3, <2>1 DEF Held
      <3> QED BY <1>0, <1>1, <1>2, <2>1, <3>1, <3>2, WalletReturn
    <2>3. CASE ~(op[c].kind = "open" /\ op[c].filled < Floor)
      <3>a. filled \in Nat /\ qty[cm][ck] \in Nat /\ qty[cm][ck] + filled \in Nat
        BY <1>2, <1>3
      <3>0. PICK left \in Nat : left \in {filled, qty[cm][ck] + filled} /\ qty' = [qty EXCEPT ![cm][ck] = left]
        <4>1. CASE op[c].kind = "open"
          <5>1. qty' = [qty EXCEPT ![cm][ck] = filled]
            BY <1>2, <1>5, <2>3, <4>1 DEF BookBuy
          <5> QED BY <3>a, <5>1
        <4>2. CASE op[c].kind # "open"
          <5>1. qty' = [qty EXCEPT ![cm][ck] = qty[cm][ck] + filled]
            BY <1>0, <1>2, <1>5, <2>3, <4>2 DEF BookBuy, TypeOK
          <5> QED BY <3>a, <5>1
        <4> QED BY <4>1, <4>2
      <3>1. qty' = [qty EXCEPT ![cm][ck] = left]
        BY <3>0
      <3>2. left <= Held(cm, ck) + op[c].filled
        BY <1>2, <1>3, <2>1, <3>0 DEF Held
      <3> QED BY <1>0, <1>1, <1>2, <2>1, <3>1, <3>2, WalletReturn
    <2> QED BY <2>2, <2>3
  <1>6. CASE ReadFree(c) /\ Return(c)
    <2>1. /\ op[c].kind \in Sells /\ op[c].step = "free"
          /\ UNCHANGED <<wallet, qty, uncredited>>
      BY <1>6 DEF ReadFree, satelliteBuy
    <2>2. unbooked[cm][ck] = 0
      BY <1>0, <1>2, <2>1 DEF SaleOK
    <2>3. qty' = [qty EXCEPT ![cm][ck] = qty[cm][ck]]
      BY <1>0, <2>1 DEF TypeOK
    <2>4. qty[cm][ck] \in Nat /\ qty[cm][ck] <= Held(cm, ck)
      BY <1>3, <2>2 DEF Held
    <2>5. UNCHANGED <<wallet, uncredited>>
      BY <2>1
    <2> QED BY <1>0, <1>1, <1>2, <1>6, <2>3, <2>4, <2>5, WalletReturn
  <1>7. CASE FailOrder(c)
    <2>1. op[c].step = "order" /\ Return(c) /\ UNCHANGED <<wallet, qty, uncredited>>
      BY <1>7 DEF FailOrder, satelliteBuy
    <2>2. unbooked[cm][ck] = 0
      BY <1>0, <1>1, <1>2, <2>1, CallFields DEF SaleOK, BuyOK
    <2>3. qty' = [qty EXCEPT ![cm][ck] = qty[cm][ck]]
      BY <1>0, <2>1 DEF TypeOK
    <2>4. qty[cm][ck] \in Nat /\ qty[cm][ck] <= Held(cm, ck)
      BY <1>3, <2>2 DEF Held
    <2>5. UNCHANGED <<wallet, uncredited>> /\ Return(c)
      BY <2>1
    <2> QED BY <1>0, <1>1, <1>2, <2>3, <2>4, <2>5, WalletReturn
  <1>8. CASE BookSale(c)
    <2>1. /\ op[c].kind \in Sells /\ Return(c) /\ UNCHANGED <<wallet, uncredited>>
          /\ qty' = [qty EXCEPT ![cm][ck] = LeftAfter(op[c], qty[cm][ck])]
      BY <1>2, <1>8 DEF BookSale, satelliteBuy
    <2>2. unbooked[cm][ck] = filled /\ filled <= want /\ want <= qty[cm][ck]
      BY <1>0, <1>2, <2>1 DEF SaleOK
    <2>3. LeftAfter(op[c], qty[cm][ck]) \in Nat
      BY <1>1, <1>3, LeftAfterType
    <2>4. LeftAfter(op[c], qty[cm][ck]) <= Held(cm, ck)
      BY <1>2, <1>3, <2>2 DEF LeftAfter, Smaller, Held
    <2> QED BY <1>0, <1>1, <1>2, <2>1, <2>3, <2>4, WalletReturn
  <1>9. ASSUME NEW w \in Nat, w <= want, op[c].kind \in Sells, op[c].step = "free",
               op[c].kind = "trim" => w < qty[cm][ck],
               op' = [op EXCEPT ![c].step = "order", ![c].want = w],
               UNCHANGED <<wallet, qty, uncredited, unbooked>>
        PROVE  WalletInv'
    <2>1. /\ op'[c].kind = op[c].kind /\ op'[c].market = cm /\ op'[c].leg = ck /\ op'[c].filled = filled
          /\ op'[c].step = "order" /\ op'[c].want = w
          /\ \A d \in Callers : d # c => op'[d] = op[d]
      BY <1>0, <1>1, <1>2, <1>9 DEF TypeOK, Call
    <2>2. Slack(cm)' = Slack(cm)
      BY <1>9 DEF Slack, Tracked, Held
    <2>3. SaleOK(c)' /\ BuyOK(c)'
      BY <1>0, <1>2, <1>3, <1>9, <2>1 DEF SaleOK, BuyOK, Sells, Buys
    <2>4. /\ \A m \in Markets, k \in Kinds :
               m # cm \/ k # ck => qty'[m][k] = qty[m][k] /\ unbooked'[m][k] = unbooked[m][k]
          /\ \A m \in Markets : m # cm => wallet'[m] = wallet[m]
          /\ uncredited' = uncredited
      BY <1>9
    <2>5. Slack(cm)' >= Slack(cm) /\ Slack(cm)' >= 0
      BY <1>3, <2>2
    <2>6. op'[c].kind \in Sells /\ op'[c].market = cm /\ op'[c].leg = ck
      BY <1>9, <2>1
    <2> QED BY <1>0, <1>1, <1>2, <2>1, <2>3, <2>4, <2>5, <2>6, WalletKept
  <1>10. ASSUME op[c].kind = "trim", op[c].step = "free",
                op' = [op EXCEPT ![c].kind = "close", ![c].want = qty[cm]["core"]],
                UNCHANGED <<wallet, qty, uncredited, unbooked>>
         PROVE  WalletInv'
    <2>0. ck = "core" /\ op[c].kind \in Sells /\ op[c].step = "free"
      BY <1>0, <1>2, <1>10 DEF SaleOK, Sells
    <2>1. /\ op'[c].kind = "close" /\ op'[c].market = cm /\ op'[c].leg = ck /\ op'[c].filled = filled
          /\ op'[c].step = op[c].step /\ op'[c].want = qty[cm][ck]
          /\ \A d \in Callers : d # c => op'[d] = op[d]
      BY <1>0, <1>1, <1>2, <1>10, <2>0 DEF TypeOK, Call
    <2>2. Slack(cm)' = Slack(cm)
      BY <1>10 DEF Slack, Tracked, Held
    <2>3. SaleOK(c)' /\ BuyOK(c)'
      BY <1>0, <1>2, <1>3, <1>10, <2>0, <2>1 DEF SaleOK, BuyOK, Sells, Buys
    <2>4. /\ \A m \in Markets, k \in Kinds :
               m # cm \/ k # ck => qty'[m][k] = qty[m][k] /\ unbooked'[m][k] = unbooked[m][k]
          /\ \A m \in Markets : m # cm => wallet'[m] = wallet[m]
          /\ uncredited' = uncredited
      BY <1>10
    <2>5. Slack(cm)' >= Slack(cm) /\ Slack(cm)' >= 0
      BY <1>3, <2>2
    <2>6. op'[c].kind \in Sells /\ op'[c].market = cm /\ op'[c].leg = ck
      BY <2>1 DEF Sells
    <2> QED BY <1>0, <1>1, <1>2, <2>1, <2>3, <2>4, <2>5, <2>6, WalletKept
  <1>11. CASE ReadFree(c) /\ ~Return(c)
    <2>1. op[c].kind \in Sells /\ op[c].step = "free" /\ UNCHANGED <<wallet, qty, uncredited>>
      BY <1>11 DEF ReadFree, satelliteBuy
    <2>2. PICK w \in Nat : w <= want /\ Sized(c, w)
      <3>1. SellSize(op[c], wallet[cm]) \in Nat /\ SellSize(op[c], wallet[cm]) <= want
        BY <1>2, <1>3 DEF SellSize, Smaller
      <3>2. want <= want
        OBVIOUS
      <3> QED BY <1>2, <1>11, <3>1, <3>2 DEF ReadFree
    <2>3. /\ UNCHANGED unbooked
          /\ \/ /\ op[c].kind = "trim"
                /\ op' = [op EXCEPT ![c].kind = "close", ![c].want = qty[cm]["core"]]
             \/ /\ ~(op[c].kind = "trim" /\ w >= qty[cm]["core"])
                /\ op' = [op EXCEPT ![c].step = "order", ![c].want = w]
      BY <1>2, <1>11, <2>2 DEF Sized
    <2>4. op[c].kind = "trim" => ck = "core"
      BY <1>0, <1>2, <2>1 DEF SaleOK
    <2> QED BY <1>3, <1>9, <1>10, <2>1, <2>2, <2>3, <2>4
  <1>12. ASSUME op[c].kind \in Sells, op[c].step # "free", UNCHANGED <<qty, uncredited>>,
                NEW f \in Nat, filled + f <= want, f <= wallet[cm],
                wallet'[cm] = wallet[cm] - f, unbooked'[cm][ck] = unbooked[cm][ck] + f,
                \A m \in Markets : m # cm => wallet'[m] = wallet[m],
                \A m \in Markets, k \in Kinds : m # cm \/ k # ck => unbooked'[m][k] = unbooked[m][k],
                op'[c].kind = op[c].kind, op'[c].market = cm, op'[c].leg = ck,
                op'[c].filled = filled + f, op'[c].step \in {"rest", "book"}, op'[c].want = want,
                \A d \in Callers : d # c => op'[d] = op[d]
         PROVE  WalletInv'
    <2>1. /\ op'[c].kind = op[c].kind /\ op'[c].market = cm /\ op'[c].leg = ck
          /\ op'[c].filled = filled + f /\ op'[c].step \in {"rest", "book"} /\ op'[c].want = want
          /\ \A d \in Callers : d # c => op'[d] = op[d]
      BY <1>12
    <2>2. /\ wallet'[cm] = wallet[cm] - f /\ unbooked'[cm][ck] = unbooked[cm][ck] + f
          /\ \A m \in Markets : m # cm => wallet'[m] = wallet[m]
          /\ \A m \in Markets, k \in Kinds : m # cm \/ k # ck => unbooked'[m][k] = unbooked[m][k]
      BY <1>12
    <2>3. Tracked(cm)' = Tracked(cm) + (-f)
      <3>1. Held(cm, ck)' = Held(cm, ck) + (-f) /\ -f \in Int
        BY <1>3, <1>12, <2>2 DEF Held
      <3>2. \A j \in Kinds : j # ck => Held(cm, j)' = Held(cm, j)
        BY <1>12, <2>2 DEF Held
      <3> QED BY <1>0, <3>1, <3>2, TrackedBy
    <2>4. Slack(cm)' = Slack(cm)
      BY <1>3, <1>12, <2>2, <2>3 DEF Slack
    <2>5. unbooked[cm][ck] = filled /\ want <= qty[cm][ck]
      BY <1>0, <1>2, <1>12 DEF SaleOK
    <2>6. SaleOK(c)' /\ BuyOK(c)'
      <3>1. /\ op[c].kind \in {"trim", "partial"} => want < qty[cm][ck]
            /\ op[c].kind = "trim" => ck = "core"
        BY <1>0, <1>2, <1>12 DEF SaleOK
      <3>2. qty'[cm][ck] = qty[cm][ck] /\ unbooked'[cm][ck] = filled + f
        BY <1>12, <2>2, <2>5
      <3>3. op'[c].kind \in Sells /\ op'[c].kind \notin Buys /\ op'[c].step \notin {"free", "order"}
        BY <1>12, <2>1 DEF Sells, Buys
      <3> QED BY <1>12, <2>1, <2>5, <3>1, <3>2, <3>3 DEF SaleOK, BuyOK
    <2>7. /\ \A m \in Markets, k \in Kinds :
               m # cm \/ k # ck => qty'[m][k] = qty[m][k] /\ unbooked'[m][k] = unbooked[m][k]
          /\ uncredited' = uncredited
      BY <1>12, <2>2
    <2>8. Slack(cm)' >= Slack(cm) /\ Slack(cm)' >= 0
      BY <1>3, <2>4
    <2>9. op'[c].kind \in Sells
      BY <1>12, <2>1
    <2> QED BY <1>0, <1>1, <1>2, <2>1, <2>2, <2>6, <2>7, <2>8, <2>9, WalletKept
  <1>13. CASE LimitSell(c)
    <2>1. op[c].kind \in Sells /\ op[c].step = "order" /\ want <= wallet[cm] /\ UNCHANGED <<qty, uncredited>>
      BY <1>2, <1>13 DEF LimitSell, Accepted, satelliteBuy
    <2>2. filled = 0
      BY <1>0, <1>2, <2>1 DEF SaleOK
    <2>3. PICK f \in 0 .. want :
            /\ Execute(c, f)
            /\ op' = [op EXCEPT ![c].filled = f, ![c].step = IF want - f >= Floor THEN "rest" ELSE "book"]
      BY <1>2, <1>13 DEF LimitSell
    <2>4. f \in Nat /\ filled + f = f /\ f <= want /\ f <= wallet[cm]
      BY <1>2, <1>3, <2>1, <2>2
    <2>5. /\ wallet'[cm] = wallet[cm] - f /\ unbooked'[cm][ck] = unbooked[cm][ck] + f
          /\ \A m \in Markets : m # cm => wallet'[m] = wallet[m]
          /\ \A m \in Markets, k \in Kinds : m # cm \/ k # ck => unbooked'[m][k] = unbooked[m][k]
      BY <1>0, <1>2, <2>3 DEF Execute, TypeOK
    <2>6. /\ op'[c].kind = op[c].kind /\ op'[c].market = cm /\ op'[c].leg = ck
          /\ op'[c].filled = f /\ op'[c].step \in {"rest", "book"} /\ op'[c].want = want
          /\ \A d \in Callers : d # c => op'[d] = op[d]
      BY <1>0, <1>1, <1>2, <2>3 DEF TypeOK, Call
    <2> QED BY <1>12, <2>1, <2>4, <2>5, <2>6
  <1>14. CASE MarketSell(c)
    <2>1. op[c].kind \in Sells /\ op[c].step = "rest" /\ UNCHANGED <<qty, uncredited>>
      BY <1>14 DEF MarketSell, satelliteBuy
    <2>2. filled <= want
      BY <1>0, <1>2, <2>1 DEF SaleOK
    <2>3. CASE /\ Accepted(cm, want - filled)
               /\ \E f \in 0 .. want - filled :
                    Execute(c, f) /\ op' = [op EXCEPT ![c].filled = @ + f, ![c].step = "book"]
      <3>1. PICK f \in 0 .. want - filled :
               Execute(c, f) /\ op' = [op EXCEPT ![c].filled = @ + f, ![c].step = "book"]
        BY <2>3
      <3>2. f \in Nat /\ filled + f <= want /\ f <= wallet[cm]
        BY <1>2, <1>3, <2>2, <2>3 DEF Accepted
      <3>3. /\ wallet'[cm] = wallet[cm] - f /\ unbooked'[cm][ck] = unbooked[cm][ck] + f
            /\ \A m \in Markets : m # cm => wallet'[m] = wallet[m]
            /\ \A m \in Markets, k \in Kinds : m # cm \/ k # ck => unbooked'[m][k] = unbooked[m][k]
        BY <1>0, <1>2, <3>1 DEF Execute, TypeOK
      <3>4. /\ op'[c].kind = op[c].kind /\ op'[c].market = cm /\ op'[c].leg = ck
            /\ op'[c].filled = filled + f /\ op'[c].step = "book" /\ op'[c].want = want
            /\ \A d \in Callers : d # c => op'[d] = op[d]
        BY <1>0, <1>1, <1>2, <3>1 DEF TypeOK, Call
      <3> QED BY <1>12, <2>1, <3>2, <3>3, <3>4
    <2>4. CASE op' = [op EXCEPT ![c].step = "book"] /\ UNCHANGED <<wallet, unbooked>>
      <3>1. /\ op'[c].kind = op[c].kind /\ op'[c].market = cm /\ op'[c].leg = ck
            /\ op'[c].filled = filled /\ op'[c].step = "book" /\ op'[c].want = want
            /\ \A d \in Callers : d # c => op'[d] = op[d]
        BY <1>0, <1>1, <1>2, <2>4 DEF TypeOK, Call
      <3>2. filled + 0 = filled /\ wallet[cm] - 0 = wallet[cm] /\ unbooked[cm][ck] + 0 = unbooked[cm][ck]
            /\ 0 <= wallet[cm]
        BY <1>2, <1>3
      <3> QED BY <1>12, <2>1, <2>2, <2>4, <3>1, <3>2
    <2> QED BY <1>2, <1>14, <2>3, <2>4 DEF MarketSell
  <1>15. ~LostBuy(c) /\ ~LostSell(c) /\ ~LostRest(c) /\ ~LoseSale(c)
    BY DEF LostBuy, LostSell, LostRest, LoseSale
  <1> QED BY <1>4, <1>5, <1>6, <1>7, <1>8, <1>11, <1>13, <1>14, <1>15 DEF Resume

LEMMA WalletSatellite ==
  ASSUME WalletInv, Satellite, UNCHANGED faults
  PROVE  WalletInv'
  <1>0. LockInv' /\ LockInv /\ TypeOK /\ TypeOK'
    BY LockStep DEF Next, WalletInv, LockInv
  <1>1. /\ UNCHANGED <<op, unbooked>>
        /\ \A m \in Markets : Slack(m)' = Slack(m) /\ Slack(m) \in Int
        /\ \A m \in Markets, k \in Kinds :
             qty'[m][k] = qty[m][k]
             \/ (k = "satellite" /\ m \notin checks)
    <2>1. PICK m \in Markets :
            \/ \E q \in MinOrder .. MaxOrder : PlaceSatellite(m, q)
            \/ \E f \in 1 .. MaxOrder : FillSatellite(m, f)
            \/ \E left \in 0 .. MaxOrder : PollSatellite(m, left)
      BY DEF Satellite
    <2>2. \A x \in Markets : /\ Slack(x) \in Int /\ Tracked(x) \in Int /\ wallet[x] \in Nat
                             /\ uncredited[x] \in Nat /\ \A k \in Kinds : qty[x][k] \in Nat
      BY <1>0, SlackType DEF TypeOK
    <2>3. ASSUME NEW q \in MinOrder .. MaxOrder, PlaceSatellite(m, q)
          PROVE  UNCHANGED <<op, unbooked, wallet, qty, uncredited>>
      BY <2>3 DEF PlaceSatellite
    <2>4. ASSUME NEW f \in 1 .. MaxOrder, FillSatellite(m, f)
          PROVE  /\ UNCHANGED <<op, unbooked, qty>>
                 /\ \A x \in Markets : Slack(x)' = Slack(x)
      <3>1. UNCHANGED <<op, unbooked, qty>> /\ f \in Int
        BY <2>4, SizesAssumption DEF FillSatellite
      <3>2. \A x \in Markets : Tracked(x)' = Tracked(x)
        BY <3>1 DEF Tracked, Held
      <3>3. \A x \in Markets : \/ wallet'[x] = wallet[x] /\ uncredited'[x] = uncredited[x]
                               \/ wallet'[x] = wallet[x] + f /\ uncredited'[x] = uncredited[x] + f
        BY <1>0, <2>4 DEF FillSatellite, TypeOK
      <3> QED BY <2>2, <3>1, <3>2, <3>3 DEF Slack
    <2>5. ASSUME NEW left \in 0 .. MaxOrder, PollSatellite(m, left)
          PROVE  /\ UNCHANGED <<op, unbooked, wallet>> /\ m \notin checks
                 /\ \A x \in Markets : Slack(x)' = Slack(x)
                 /\ \A x \in Markets, k \in Kinds : qty'[x][k] = qty[x][k] \/ (k = "satellite" /\ x = m)
      <3>1. UNCHANGED <<op, unbooked, wallet>> /\ m \notin checks
        BY <2>5 DEF PollSatellite
      <3>2. /\ \A x \in Markets : x # m => uncredited'[x] = uncredited[x]
            /\ uncredited'[m] = 0
            /\ qty'[m]["satellite"] = qty[m]["satellite"] + uncredited[m]
            /\ \A x \in Markets, k \in Kinds : x # m \/ k # "satellite" => qty'[x][k] = qty[x][k]
        BY <1>0, <2>5 DEF PollSatellite, TypeOK, Kinds
      <3>3. Tracked(m)' = Tracked(m) + uncredited[m]
        <4>1. Held(m, "satellite")' = Held(m, "satellite") + uncredited[m] /\ uncredited[m] \in Int
          BY <1>0, <2>2, <3>1, <3>2 DEF Held, TypeOK, Kinds
        <4>2. \A j \in Kinds : j # "satellite" => Held(m, j)' = Held(m, j)
          BY <3>1, <3>2 DEF Held
        <4>3. "satellite" \in Kinds
          BY DEF Kinds
        <4> QED BY <1>0, <4>1, <4>2, <4>3, TrackedBy
      <3>4. Slack(m)' = Slack(m)
        BY <2>2, <3>1, <3>2, <3>3 DEF Slack
      <3>5. \A x \in Markets : x # m => Slack(x)' = Slack(x)
        BY <3>1, <3>2 DEF Slack, Tracked, Held, Kinds
      <3> QED BY <3>1, <3>2, <3>4, <3>5
    <2>6. CASE \E q \in MinOrder .. MaxOrder : PlaceSatellite(m, q)
      BY <2>2, <2>3, <2>6 DEF Slack, Tracked, Held
    <2>7. CASE \E f \in 1 .. MaxOrder : FillSatellite(m, f)
      BY <2>2, <2>4, <2>7
    <2>8. CASE \E left \in 0 .. MaxOrder : PollSatellite(m, left)
      BY <2>2, <2>5, <2>8
    <2> QED BY <2>1, <2>6, <2>7, <2>8
  <1>2. ASSUME NEW d \in Callers PROVE SaleOK(d)' /\ BuyOK(d)'
    <2>1. CASE op[d] = NoCall
      BY <1>1, <2>1, NoCallKind DEF SaleOK, BuyOK
    <2>2. CASE op[d] \in Call
      <3>1. op[d].market \in Markets /\ op[d].leg \in Kinds /\ SaleOK(d) /\ BuyOK(d)
        BY <2>2, CallFields DEF WalletInv
      <3>2. op[d].kind \in Sells => qty'[op[d].market][op[d].leg] = qty[op[d].market][op[d].leg]
        <4>1. op[d].kind \in Sells /\ op[d].leg = "satellite" => op[d].market \in checks
          BY <1>0, <2>2 DEF LockInv, CallsOnTheirLegs, ShapeOK, GuardExact, Guarded, Locked, Sells, Buys
        <4> QED BY <1>1, <3>1, <4>1
      <3>3. SaleOK(d)'
        BY <1>1, <3>1, <3>2 DEF SaleOK
      <3>4. BuyOK(d)'
        BY <1>1, <3>1 DEF BuyOK
      <3> QED BY <3>3, <3>4
    <2> QED BY <1>0, <2>1, <2>2 DEF TypeOK
  <1>3. NoStraySale'
    BY <1>1 DEF WalletInv, NoStraySale
  <1>4. \A m \in Markets : Slack(m)' >= 0
    BY <1>1 DEF WalletInv
  <1> QED BY <1>0, <1>2, <1>3, <1>4 DEF WalletInv

LEMMA WalletStep ==
  ASSUME faults = {}, WalletInv, [Next]_vars
  PROVE  WalletInv'
  <1>0. UNCHANGED faults
    BY DEF Next, vars
  <1>1. CASE \E c \in Callers : Start(c) \/ Resume(c)
    BY <1>0, <1>1, WalletStart, WalletResume
  <1>2. CASE Satellite
    BY <1>0, <1>2, WalletSatellite
  <1>3. CASE UNCHANGED vars
    BY <1>3 DEF vars, WalletInv, LockInv, OneOrderPerMarket, GuardExact, CallsOnTheirLegs, ShapeOK, TypeOK,
       NoStraySale, SaleOK, BuyOK, Slack, Tracked, Held
  <1> QED BY <1>1, <1>2, <1>3 DEF Next

LEMMA WalletBacks == WalletInv => Backed
  BY SlackType DEF WalletInv, LockInv, Backed, Slack, TypeOK

\* The invariant of the behaviours in which no answer is lost.
CleanInv == faults = {} => WalletInv

LEMMA CleanStep == CleanInv /\ [Next]_vars => CleanInv'
  <1> SUFFICES ASSUME CleanInv, [Next]_vars, faults' = {} PROVE WalletInv'
    BY DEF CleanInv
  <1>1. faults = {}
    BY DEF Next, vars
  <1> QED BY <1>1, WalletStep DEF CleanInv

(* Where every exchange answer arrives (no fault in the behaviour), what the legs      *)
(* of a coin believe they hold never runs ahead of the wallet, for any number of      *)
(* concurrent callers, markets and order sizes: the per-market lock, the satellite    *)
(* guard and the clamping of each sale to its own leg are enough.                     *)
THEOREM WalletBacksTheLegs == Spec => []TrackedBacked
  <1>1. Init => CleanInv
    BY WalletInit DEF CleanInv
  <1>2. CleanInv /\ [Next]_vars => CleanInv'
    BY CleanStep
  <1>3. CleanInv => TrackedBacked
    BY WalletBacks DEF CleanInv, TrackedBacked
  <1> QED BY <1>1, <1>2, <1>3, PTL DEF Spec

\* A sale takes what it executes out of the leg it is on.
LEMMA SaleOwns ==
  ASSUME WalletInv, NEW c \in Callers, LimitSell(c) \/ MarketSell(c),
         NEW m \in Markets, wallet'[m] < wallet[m]
  PROVE  \E k \in Kinds : /\ wallet[m] - wallet'[m] <= Held(m, k)
                          /\ unbooked'[m][k] = unbooked[m][k] + (wallet[m] - wallet'[m])
  <1>0. TypeOK /\ SaleOK(c) /\ op[c].kind \in Sells
    BY DEF WalletInv, LockInv, LimitSell, MarketSell
  <1>1. op[c] \in Call
    BY <1>0, Suspended DEF Sells, Buys
  <1>2. PICK cm \in Markets, ck \in Kinds, want \in Nat, filled \in Nat :
          cm = op[c].market /\ ck = op[c].leg /\ want = op[c].want /\ filled = op[c].filled
    BY <1>1, CallFields
  <1>3. /\ unbooked[cm][ck] = filled /\ filled <= want /\ want <= qty[cm][ck]
        /\ op[c].step = "order" => filled = 0
        /\ qty[cm][ck] \in Nat
    BY <1>0, <1>2 DEF SaleOK, TypeOK
  <1>4. PICK f \in Nat : Execute(c, f) /\ filled + f <= want
    <2>1. CASE LimitSell(c)
      <3>1. PICK f \in 0 .. want : Execute(c, f)
        BY <1>2, <2>1 DEF LimitSell
      <3>2. filled = 0 /\ f \in Nat /\ filled + f <= want
        BY <1>2, <1>3, <2>1, <3>1 DEF LimitSell
      <3> QED BY <3>1, <3>2
    <2>2. CASE MarketSell(c)
      <3>1. \E f \in 0 .. want - filled : Execute(c, f)
        <4>1. CASE UNCHANGED wallet
          <5>1. wallet[m] \in Nat
            BY <1>0 DEF TypeOK
          <5> QED BY <4>1, <5>1
        <4> QED BY <1>2, <2>2, <4>1 DEF MarketSell
      <3>2. PICK f \in 0 .. want - filled : Execute(c, f)
        BY <3>1
      <3>3. f \in Nat /\ filled + f <= want
        BY <1>2, <1>3, <3>2
      <3> QED BY <3>2, <3>3
    <2> QED BY <2>1, <2>2
  <1>5. /\ wallet'[cm] = wallet[cm] - f /\ unbooked'[cm][ck] = unbooked[cm][ck] + f
        /\ \A x \in Markets : x # cm => wallet'[x] = wallet[x]
        /\ wallet[cm] \in Nat /\ wallet[m] \in Nat
    BY <1>0, <1>2, <1>4 DEF Execute, TypeOK
  <1>6. m = cm /\ wallet[m] - wallet'[m] = f
    BY <1>5
  <1>7. f <= Held(cm, ck)
    BY <1>2, <1>3, <1>4 DEF Held
  <1> QED BY <1>5, <1>6, <1>7

LEMMA OwnCoinsStep ==
  ASSUME faults = {}, WalletInv, Next, NEW m \in Markets, wallet'[m] < wallet[m]
  PROVE  \E k \in Kinds : /\ wallet[m] - wallet'[m] <= Held(m, k)
                          /\ unbooked'[m][k] = unbooked[m][k] + (wallet[m] - wallet'[m])
  <1>0. TypeOK
    BY DEF WalletInv, LockInv
  <1>1. ~(UNCHANGED wallet)
    BY <1>0 DEF TypeOK
  <1>2. ~Satellite
    <2>1. ASSUME NEW x \in Markets, NEW q \in Nat, PlaceSatellite(x, q) PROVE FALSE
      BY <1>1, <2>1 DEF PlaceSatellite
    <2>2. ASSUME NEW x \in Markets, NEW f \in Nat, FillSatellite(x, f) PROVE FALSE
      <3>1. wallet'[m] >= wallet[m] /\ wallet[m] \in Nat /\ wallet'[m] \in Nat
        BY <1>0, <2>2 DEF FillSatellite, TypeOK
      <3> QED BY <3>1
    <2>3. ASSUME NEW x \in Markets, NEW left \in Nat, PollSatellite(x, left) PROVE FALSE
      BY <1>1, <2>3 DEF PollSatellite
    <2>4. \A q \in MinOrder .. MaxOrder : q \in Nat
      BY SizesAssumption
    <2> QED BY <2>1, <2>2, <2>3, <2>4, SizesAssumption DEF Satellite
  <1>3. PICK c \in Callers : Start(c) \/ Resume(c)
    BY <1>2 DEF Next
  <1>4. ~Start(c)
    BY <1>1 DEF Start, OpenScalper, OpenCore, GrowCore, TrimCore, Close, PartialClose, SellSatellite
  <1>5. ~LimitBuy(c)
    <2>1. ASSUME LimitBuy(c) PROVE FALSE
      <3>1. PICK f \in 0 .. op[c].want : wallet' = [wallet EXCEPT ![op[c].market] = @ + f]
        BY <2>1 DEF LimitBuy
      <3>2. op[c].want \in Nat
        BY <1>0, <2>1, Suspended, CallFields DEF LimitBuy, Buys
      <3>3. wallet'[m] >= wallet[m] /\ wallet[m] \in Nat /\ wallet'[m] \in Nat
        BY <1>0, <3>1, <3>2 DEF TypeOK
      <3> QED BY <3>3
    <2> QED BY <2>1
  <1>6. ~BookBuy(c) /\ ~ReadFree(c) /\ ~BookSale(c) /\ ~FailOrder(c)
    BY <1>1 DEF BookBuy, ReadFree, BookSale, FailOrder
  <1>7. ~LostBuy(c) /\ ~LostSell(c) /\ ~LostRest(c) /\ ~LoseSale(c)
    BY DEF LostBuy, LostSell, LostRest, LoseSale
  <1> QED BY <1>3, <1>4, <1>5, <1>6, <1>7, SaleOwns DEF Resume

(* One exit never sells what another exit or the sleeve owns, though the satellite     *)
(* exits run outside the market lock: whatever a step takes out of a wallet, one leg    *)
(* still holds that much of its own, and it is that leg's sale that will be booked.     *)
THEOREM ExitsSellTheirOwn == Spec => SellsItsOwnCoins
  <1>1. Init => CleanInv
    BY WalletInit DEF CleanInv
  <1>2. CleanInv /\ [Next]_vars => CleanInv'
    BY CleanStep
  <1>3. CleanInv /\ [Next]_vars => [OwnCoinsSold]_vars
    <2> SUFFICES ASSUME CleanInv, Next, faults = {}, NEW m \in Markets, wallet'[m] < wallet[m]
                 PROVE  \E k \in Kinds : /\ wallet[m] - wallet'[m] <= Held(m, k)
                                         /\ unbooked'[m][k] = unbooked[m][k] + (wallet[m] - wallet'[m])
      BY DEF OwnCoinsSold
    <2> QED BY OwnCoinsStep DEF CleanInv
  <1> QED BY <1>1, <1>2, <1>3, PTL DEF Spec, SellsItsOwnCoins

-------------------------------------------------------------------------------
(* The restore: the values its variables take.                                *)

LegType == [Markets -> [Kinds -> Nat]]

RestoreType ==
  [at : {"idle", "balance", "answer", "leg"}, file : LegType, free : [Markets -> Nat], claims : [Markets -> Nat],
   legs : SUBSET (Markets \X Sleeves), coins : SUBSET Markets, now : (Markets \cup {NoMarket}) \X Kinds,
   restored : BOOLEAN]

RestoreTypeOK ==
  /\ TypeOK
  /\ env \in Environments
  /\ saved \in LegType /\ known \in LegType
  /\ restore \in RestoreType
  /\ restore.at = "leg" => restore.now[1] \in Markets
  /\ up \in BOOLEAN

-------------------------------------------------------------------------------
(* The sleeve's record.                                                       *)

Waiting == restore.legs \cup {restore.now}

\* The saves: a core leg in memory is in the file, a scalper leg in memory means that the
\* file is what the memory is, but while a restore is bringing the legs in.
SaveInv ==
  /\ \A m \in Markets : qty[m]["core"] > 0 => saved[m]["core"] > 0
  /\ Scalpers # {} =>
       /\ restore.at = "idle" => saved = qty
       /\ restore.at \in {"balance", "answer"} => saved = qty /\ restore.file = qty
       /\ restore.at = "leg" /\ ~restore.restored => saved = qty

\* The sleeve legs come first, to an empty place, from the file as it is.
LegInv ==
  restore.at = "leg" =>
    /\ restore.legs # {} \/ restore.now[2] # "scalper" => Scalpers = {}
    /\ restore.legs # {} => restore.now[2] # "scalper"
    /\ restore.now \notin restore.legs
    /\ \A m \in Markets : <<m, "core">> \in Waiting => qty[m]["core"] = 0 /\ saved[m]["core"] > 0

\* A process that is up has the sleeve's coins in memory; one that boots will have.
KnownInv ==
  \A m \in Markets : known[m]["core"] >= Floor =>
    /\ up => qty[m]["core"] > 0
    /\ ~up => saved[m]["core"] > 0
    /\ ~up /\ restore.at = "leg" => qty[m]["core"] > 0 \/ <<m, "core">> \in Waiting

\* A restore and a call never meet, and nothing is in memory before a boot has read it.
ApartInv ==
  /\ ~up \/ restore.at # "idle" => \A c \in Callers : op[c] = NoCall
  /\ ~up /\ restore.at # "leg" => qty = NoLegs
  /\ restore.at \in {"balance", "answer"} => restore.file = saved
  /\ restore.at # "leg" => ~restore.restored

KeepInv == SaveInv /\ LegInv /\ KnownInv /\ ApartInv
RecordInv == RestoreTypeOK /\ (~env.lossy => KeepInv)

-------------------------------------------------------------------------------
(* What the parts of a step do to the restore and to the legs.                 *)

\* The calls and the satellites of LiveTrader take its steps.
LEMMA CallsAreSteps ==
  /\ \A c \in Callers : BeginCall(c) \/ ContinueCall(c) => Next
  /\ PlaceOrder \/ FillOrder \/ PollOrder => Next
  <1>1. ASSUME NEW c \in Callers, BeginCall(c) \/ ContinueCall(c) PROVE Next
    BY <1>1 DEF BeginCall, ContinueCall, Next, world
  <1>2. ASSUME PlaceOrder PROVE Next
    BY <1>2 DEF PlaceOrder, Next, Satellite, world
  <1>3. ASSUME FillOrder PROVE Next
    BY <1>3 DEF FillOrder, Next, Satellite, world
  <1>4. ASSUME PollOrder PROVE Next
    BY <1>4 DEF PollOrder, Next, Satellite, world
  <1> QED BY <1>1, <1>2, <1>3, <1>4

LEMMA NoLegsType == NoLegs \in LegType /\ Free \in [Markets -> Nat] /\ Idle \in RestoreType /\ Idle.at = "idle"
  BY DEF NoLegs, Free, Idle, LegType, RestoreType, Kinds

\* The ways a restore goes on.
LEMMA Ahead ==
  ASSUME NEW r \in RestoreType, NEW q \in LegType, NEW s \in Onwards(r, q)
  PROVE  /\ s \in RestoreType
         /\ s.at = "leg" => s.now[1] \in Markets /\ s.file = r.file /\ s.restored = r.restored
         /\ s.at = "leg" => s.free = r.free /\ s.claims = r.claims
         /\ \/ s = Idle /\ r.legs = {}
            \/ s.at = "leg" /\ s.now \in r.legs /\ s.legs = r.legs \ {s.now}
            \/ s.at = "leg" /\ r.legs = {} /\ s.legs = {} /\ s.now[2] = "scalper"
  <1> DEFINE open == {m \in r.coins : q[m]["scalper"] = 0 /\ r.free[m] > r.claims[m]}
  <1>t. r.legs \subseteq Markets \X Sleeves /\ r.coins \subseteq Markets /\ Sleeves \subseteq Kinds
    BY DEF RestoreType, Sleeves, Kinds
  <1>1. CASE r.legs # {}
    <2>1. PICK l \in r.legs : s = [r EXCEPT !.at = "leg", !.now = l, !.legs = @ \ {l}]
      BY <1>1 DEF Onwards
    <2>2. l[1] \in Markets /\ l \in (Markets \cup {NoMarket}) \X Kinds
      BY <1>t
    <2>3. s.at = "leg" /\ s.now = l /\ s.legs = r.legs \ {l} /\ s.file = r.file /\ s.restored = r.restored
          /\ s.free = r.free /\ s.claims = r.claims
      BY <2>1 DEF RestoreType
    <2>4. s \in RestoreType
      BY <1>t, <2>1, <2>2 DEF RestoreType
    <2> QED BY <2>2, <2>3, <2>4
  <1>2. CASE r.legs = {} /\ open # {}
    <2>1. PICK m \in open : s = [r EXCEPT !.at = "leg", !.now = <<m, "scalper">>, !.coins = @ \ {m}]
      BY <1>2 DEF Onwards
    <2>2. m \in Markets
      BY <1>t
    <2>3. s.at = "leg" /\ s.now = <<m, "scalper">> /\ s.legs = r.legs /\ s.file = r.file /\ s.restored = r.restored
          /\ s.free = r.free /\ s.claims = r.claims
      BY <2>1 DEF RestoreType
    <2>4. s \in RestoreType
      BY <1>t, <2>1, <2>2 DEF RestoreType, Kinds
    <2> QED BY <1>2, <2>2, <2>3, <2>4
  <1>3. CASE r.legs = {} /\ open = {}
    BY <1>3, NoLegsType DEF Onwards
  <1> QED BY <1>1, <1>2, <1>3

\* The answer of the balance read, with what the saved legs claim.
Answer == [restore EXCEPT !.coins = Markets, !.legs = Restorable(restore.file),
                          !.claims = [m \in Markets |-> Claim(m, restore.file, restore.free[m])]]

LEMMA AnswerType ==
  ASSUME RestoreTypeOK
  PROVE  /\ Answer \in RestoreType /\ Answer.legs = Restorable(restore.file)
         /\ Answer.file = restore.file /\ Answer.restored = restore.restored
  <1>1. \A m \in Markets : Claim(m, restore.file, restore.free[m]) \in Nat
    BY DEF RestoreTypeOK, RestoreType, LegType, TypeOK, Claim, Smaller, Kinds
  <1>2. Restorable(restore.file) \subseteq Markets \X Sleeves
    BY DEF Restorable
  <1> QED BY <1>1, <1>2 DEF RestoreTypeOK, RestoreType, Answer

\* The leg the restore is at, filled or not.
Adopted == [restore EXCEPT !.restored = @ \/ Share(restore) >= Floor]

LEMMA AdoptedType ==
  ASSUME RestoreTypeOK
  PROVE  /\ Adopted \in RestoreType /\ Adopted.legs = restore.legs /\ Adopted.file = restore.file
         /\ Adopted.restored = (restore.restored \/ Share(restore) >= Floor)
         /\ Adopted.now = restore.now
  BY DEF RestoreTypeOK, RestoreType, Adopted

LEMMA AdoptFacts ==
  ASSUME RestoreTypeOK, AdoptLeg
  PROVE  \E m \in Markets, k \in Kinds :
           /\ restore.at = "leg" /\ restore.now = <<m, k>>
           /\ qty' \in LegType /\ known' \in LegType
           /\ qty' = qty \/ (qty' = [qty EXCEPT ![m][k] = Share(restore)] /\ Share(restore) \in Nat
                             /\ Share(restore) >= Floor)
           /\ Share(restore) >= Floor => qty' = [qty EXCEPT ![m][k] = Share(restore)]
           /\ known' = [known EXCEPT ![m][k] = qty'[m][k]]
           /\ Proceed(Adopted, qty')
  <1>1. restore.at = "leg" /\ restore.now \in (Markets \cup {NoMarket}) \X Kinds /\ restore.now[1] \in Markets
    BY DEF RestoreTypeOK, RestoreType, AdoptLeg
  <1>2. PICK m \in Markets, k \in Kinds : restore.now = <<m, k>> /\ restore.now[1] = m /\ restore.now[2] = k
    BY <1>1
  <1>3. /\ qty' = IF Share(restore) >= Floor THEN [qty EXCEPT ![m][k] = Share(restore)] ELSE qty
        /\ known' = [known EXCEPT ![m][k] = qty'[m][k]]
        /\ Proceed(Adopted, qty')
    BY <1>2 DEF AdoptLeg, Adopted
  <1>4. Share(restore) \in Int
    <2>1. restore.free[m] \in Nat /\ restore.claims[m] \in Nat /\ restore.file[m][k] \in Nat
      BY DEF RestoreTypeOK, RestoreType, LegType
    <2> QED BY <1>2, <2>1 DEF Share, Smaller
  <1>5. qty' \in LegType
    BY <1>3, <1>4, SizesAssumption, LegUpdate DEF RestoreTypeOK, TypeOK, LegType
  <1>6. known' \in LegType
    BY <1>3, <1>5, LegUpdate DEF RestoreTypeOK, LegType
  <1>7. /\ qty' = qty \/ (qty' = [qty EXCEPT ![m][k] = Share(restore)] /\ Share(restore) \in Nat
                             /\ Share(restore) >= Floor)
        /\ Share(restore) >= Floor => qty' = [qty EXCEPT ![m][k] = Share(restore)]
    BY <1>3, <1>4, SizesAssumption
  <1>8. restore.at = "leg" /\ restore.now = <<m, k>>
    BY <1>1, <1>2
  <1> QED BY <1>3, <1>5, <1>6, <1>7, <1>8

-------------------------------------------------------------------------------
(* Every step keeps the variables to their values.                            *)

\* What a call that goes on does to its leg and to its wallet.
LEMMA ResumeFacts ==
  ASSUME TypeOK, NEW c \in Callers, Resume(c), NEW cm, cm = op[c].market, NEW ck, ck = op[c].leg
  PROVE  /\ op[c] \in Call /\ cm \in Markets /\ ck \in Kinds
         /\ \A m \in Markets, k \in Kinds : m # cm \/ k # ck => qty'[m][k] = qty[m][k]
         /\ op[c].kind \in Buys => qty' = qty \/ op[c].kind = "open" \/ qty'[cm][ck] >= qty[cm][ck]
         /\ op[c].kind \notin Buys => wallet'[cm] <= wallet[cm]
  <1>1. op[c] \in Call
    BY Suspended DEF Resume, LimitBuy, BookBuy, LostBuy, ReadFree, LimitSell, MarketSell,
       BookSale, LoseSale, FailOrder, LostSell, LostRest, Buys, Sells
  <1>2. cm \in Markets /\ ck \in Kinds /\ op[c].filled \in Nat
    BY <1>1, CallFields
  <1>3. CASE LimitBuy(c) \/ LostBuy(c)
    BY <1>1, <1>2, <1>3 DEF LimitBuy, LostBuy
  <1>4. CASE BookBuy(c)
    <2>1. \/ qty' = qty
          \/ op[c].kind = "open" /\ qty' = [qty EXCEPT ![cm][ck] = op[c].filled]
          \/ qty' = [qty EXCEPT ![cm][ck] = @ + op[c].filled]
      BY <1>4 DEF BookBuy
    <2>2. op[c].kind \in Buys
      BY <1>4 DEF BookBuy
    <2> QED BY <1>1, <1>2, <2>1, <2>2 DEF TypeOK
  <1>5. CASE ReadFree(c) \/ LoseSale(c) \/ FailOrder(c)
    BY <1>1, <1>2, <1>5 DEF ReadFree, LoseSale, FailOrder, TypeOK
  <1>6. CASE LimitSell(c) \/ MarketSell(c) \/ LostRest(c) \/ LostSell(c)
    <2>1. op[c].kind \notin Buys /\ qty' = qty
      BY <1>6 DEF LimitSell, MarketSell, LostRest, LostSell, Sells, Buys
    <2>2. \/ wallet' = wallet
          \/ \E f \in Nat : wallet' = [wallet EXCEPT ![cm] = @ - f]
      <3>1. op[c].want \in Nat
        BY <1>1, CallFields
      <3>2. CASE LimitSell(c)
        <4>1. PICK f \in 0 .. op[c].want : Execute(c, f)
          BY <3>2 DEF LimitSell
        <4>2. f \in Nat /\ wallet' = [wallet EXCEPT ![cm] = @ - f]
          BY <3>1, <4>1 DEF Execute
        <4> QED BY <4>2
      <3>3. CASE MarketSell(c)
        <4>1. CASE wallet' = wallet
          BY <4>1
        <4>2. CASE wallet' # wallet
          <5>1. PICK f \in 0 .. (op[c].want - op[c].filled) : Execute(c, f)
            BY <3>3, <4>2 DEF MarketSell
          <5>2. f \in Nat /\ wallet' = [wallet EXCEPT ![cm] = @ - f]
            BY <1>2, <3>1, <5>1 DEF Execute
          <5> QED BY <5>2
        <4> QED BY <4>1, <4>2
      <3>4. CASE LostRest(c) \/ LostSell(c)
        BY <1>2, <3>1, <3>4 DEF LostRest, LostSell
      <3> QED BY <1>6, <3>2, <3>3, <3>4
    <2> QED BY <1>1, <1>2, <2>1, <2>2 DEF TypeOK
  <1>7. CASE BookSale(c)
    <2>1. \A m \in Markets, k \in Kinds : m # cm \/ k # ck => qty'[m][k] = qty[m][k]
      BY <1>2, <1>7 DEF BookSale, TypeOK
    <2>2. op[c].kind \notin Buys /\ wallet' = wallet
      BY <1>7 DEF BookSale, Sells, Buys
    <2> QED BY <1>1, <1>2, <2>1, <2>2 DEF TypeOK
  <1> QED BY <1>3, <1>4, <1>5, <1>6, <1>7 DEF Resume

\* What a leg is known to own after a call that goes on.
LEMMA OwnedFacts ==
  ASSUME RestoreTypeOK, TypeOK', NEW c \in Callers, ContinueCall(c), NEW cm, cm = op[c].market, NEW ck, ck = op[c].leg
  PROVE  /\ cm \in Markets /\ ck \in Kinds
         /\ Owned(c, cm, ck) \in Nat
         /\ known' = [known EXCEPT ![cm][ck] = Owned(c, cm, ck)]
         /\ \A m \in Markets, k \in Kinds : m # cm \/ k # ck => qty'[m][k] = qty[m][k]
         /\ Owned(c, cm, ck) >= Floor /\ (known[cm][ck] >= Floor => qty[cm][ck] > 0) => qty'[cm][ck] > 0
  <1>1. /\ op[c] \in Call /\ cm \in Markets /\ ck \in Kinds
        /\ \A m \in Markets, k \in Kinds : m # cm \/ k # ck => qty'[m][k] = qty[m][k]
        /\ op[c].kind \in Buys => qty' = qty \/ op[c].kind = "open" \/ qty'[cm][ck] >= qty[cm][ck]
        /\ op[c].kind \notin Buys => wallet'[cm] <= wallet[cm]
    BY ResumeFacts DEF RestoreTypeOK, ContinueCall
  <1>2. /\ qty[cm][ck] \in Nat /\ qty'[cm][ck] \in Nat /\ known[cm][ck] \in Nat
        /\ wallet[cm] \in Nat /\ wallet'[cm] \in Nat
    BY <1>1 DEF RestoreTypeOK, TypeOK, LegType
  <1>3. known' = [known EXCEPT ![cm][ck] = Owned(c, cm, ck)]
    BY DEF ContinueCall
  <1>4. CASE op[c].kind \in Buys
    <2>1. CASE op[c].kind = "open" /\ qty' # qty
      BY <1>1, <1>2, <1>3, <1>4, <2>1, SizesAssumption DEF Owned
    <2>2. CASE ~(op[c].kind = "open" /\ qty' # qty)
      <3>1. Owned(c, cm, ck) = known[cm][ck] + (qty'[cm][ck] - qty[cm][ck])
        BY <1>4, <2>2 DEF Owned
      <3>2. qty'[cm][ck] >= qty[cm][ck]
        BY <1>1, <1>2, <1>4, <2>2
      <3> QED BY <1>1, <1>2, <1>3, <3>1, <3>2, SizesAssumption
    <2> QED BY <2>1, <2>2
  <1>5. CASE op[c].kind \notin Buys /\ qty[cm][ck] > 0 /\ qty'[cm][ck] = 0
    BY <1>1, <1>2, <1>3, <1>5, SizesAssumption DEF Owned
  <1>6. CASE op[c].kind \notin Buys /\ ~(qty[cm][ck] > 0 /\ qty'[cm][ck] = 0)
    <2>1. Owned(c, cm, ck) = known[cm][ck] - Smaller(known[cm][ck], wallet[cm] - wallet'[cm])
      BY <1>6 DEF Owned
    <2>2. Owned(c, cm, ck) \in Nat /\ Owned(c, cm, ck) <= known[cm][ck]
      BY <1>1, <1>2, <1>6, <2>1 DEF Smaller
    <2> QED BY <1>1, <1>2, <1>3, <1>6, <2>2, SizesAssumption
  <1> QED BY <1>4, <1>5, <1>6

LEMMA ProceedType ==
  ASSUME RestoreTypeOK, NEW r \in RestoreType, NEW q \in LegType, Proceed(r, q)
  PROVE  /\ restore' \in RestoreType /\ saved' \in LegType /\ up' \in BOOLEAN
         /\ restore'.at = "leg" => restore'.now[1] \in Markets
  BY Ahead DEF Proceed, RestoreTypeOK

LEMMA RestoreTypeStep ==
  ASSUME RestoreTypeOK, [RestoreNext]_restoreVars
  PROVE  RestoreTypeOK'
  <1> USE DEF RestoreTypeOK
  <1>1. ASSUME NEW c \in Callers, BeginCall(c) PROVE RestoreTypeOK'
    <2>1. TypeOK'
      BY <1>1, CallsAreSteps, TypeStep
    <2> QED BY <1>1, <2>1 DEF BeginCall, world
  <1>2. ASSUME NEW c \in Callers, ContinueCall(c) PROVE RestoreTypeOK'
    <2>1. TypeOK'
      BY <1>2, CallsAreSteps, TypeStep
    <2>2. known' \in LegType
      <3>1. PICK m, k : m = op[c].market /\ k = op[c].leg
        OBVIOUS
      <3>2. m \in Markets /\ k \in Kinds /\ Owned(c, m, k) \in Nat /\ known' = [known EXCEPT ![m][k] = Owned(c, m, k)]
        <4>1. RestoreTypeOK /\ ContinueCall(c)
          BY <1>2
        <4> HIDE DEF RestoreTypeOK
        <4> QED BY <2>1, <3>1, <4>1, OwnedFacts
      <3> QED BY <3>2, LegUpdate DEF LegType
    <2>3. saved' \in LegType
      BY <1>2, <2>1 DEF ContinueCall, Save, TypeOK, LegType
    <2> QED BY <1>2, <2>1, <2>2, <2>3 DEF ContinueCall, world
  <1>3. CASE PlaceOrder \/ FillOrder
    <2>1. TypeOK'
      BY <1>3, CallsAreSteps, TypeStep
    <2> QED BY <1>3, <2>1 DEF PlaceOrder, FillOrder, world
  <1>4. CASE PollOrder
    <2>1. TypeOK'
      BY <1>4, CallsAreSteps, TypeStep
    <2>2. PICK m \in Markets : known' = [known EXCEPT ![m]["satellite"] = @ + uncredited[m]]
      BY <1>4 DEF PollOrder
    <2>3. known[m]["satellite"] + uncredited[m] \in Nat /\ "satellite" \in Kinds
      BY DEF LegType, TypeOK, Kinds
    <2>4. known' \in LegType
      BY <2>2, <2>3, LegUpdate DEF LegType
    <2>5. saved' \in LegType
      BY <1>4, <2>1 DEF PollOrder, TypeOK, LegType
    <2> QED BY <1>4, <2>1, <2>4, <2>5 DEF PollOrder, world
  <1>5. CASE SaveStops
    BY <1>5 DEF SaveStops, vars, TypeOK, LegType
  <1>6. CASE BeginRestore
    <2>1. [Idle EXCEPT !.at = "balance", !.file = saved] \in RestoreType
      BY NoLegsType DEF RestoreType
    <2>2. restore' \in RestoreType /\ restore'.at = "balance"
      BY <1>6, <2>1, NoLegsType DEF BeginRestore, RestoreType
    <2> QED BY <1>6, <2>2 DEF BeginRestore, vars, TypeOK
  <1>7. CASE ReadWallet
    <2>1. restore' \in RestoreType /\ restore'.at = "answer"
      BY <1>7 DEF ReadWallet, RestoreType, TypeOK
    <2> QED BY <1>7, <2>1 DEF ReadWallet, vars, TypeOK
  <1>8. CASE AnswerWallet
    <2>1. Proceed(Answer, qty) /\ qty \in LegType
      BY <1>8 DEF AnswerWallet, Answer, TypeOK, LegType
    <2>2. restore' \in RestoreType /\ saved' \in LegType /\ up' \in BOOLEAN
          /\ (restore'.at = "leg" => restore'.now[1] \in Markets)
      BY <2>1, AnswerType, ProceedType
    <2> QED BY <1>8, <2>2 DEF AnswerWallet, vars, TypeOK
  <1>9. CASE MissWallet
    BY <1>9, NoLegsType DEF MissWallet, vars, TypeOK
  <1>10. CASE AdoptLeg
    <2>1. qty' \in LegType /\ known' \in LegType /\ Proceed(Adopted, qty')
      BY <1>10, AdoptFacts
    <2>2. restore' \in RestoreType /\ saved' \in LegType /\ up' \in BOOLEAN
          /\ (restore'.at = "leg" => restore'.now[1] \in Markets)
      BY <2>1, AdoptedType, ProceedType
    <2> QED BY <1>10, <2>1, <2>2 DEF AdoptLeg, TypeOK, LegType, satelliteBuy, world
  <1>11. CASE MissLeg
    <2>1. Proceed(restore, qty) /\ qty \in LegType
      BY <1>11 DEF MissLeg, TypeOK, LegType
    <2>2. restore' \in RestoreType /\ saved' \in LegType /\ up' \in BOOLEAN
          /\ (restore'.at = "leg" => restore'.now[1] \in Markets)
      BY <2>1, ProceedType
    <2> QED BY <1>11, <2>2 DEF MissLeg, vars, TypeOK
  <1>12. CASE Crash
    <2>1. TypeOK'
      BY <1>12, NoLegsType DEF Crash, TypeOK, LegType, satelliteBuy
    <2> QED BY <1>12, <2>1, NoLegsType DEF Crash, world
  <1>13. CASE UNCHANGED restoreVars
    BY <1>13 DEF restoreVars, vars, TypeOK
  <1> QED BY <1>1, <1>2, <1>3, <1>4, <1>5, <1>6, <1>7, <1>8, <1>9, <1>10, <1>11, <1>12, <1>13 DEF RestoreNext

-------------------------------------------------------------------------------
(* Every step keeps the record, in an environment that loses nothing of the sleeve's. *)

\* No answer is lost, no call starts while a restore awaits, and neither the ticker of the
\* sleeve's leg nor the balance read of a boot fails.
Sheltered == ~env.lossy /\ ~env.overlap /\ "core" \notin env.misses /\ "boot" \notin env.misses

\* A restore that goes on keeps the record, if the legs still to come are in their place.
LEMMA ProceedKeeps ==
  ASSUME KeepInv, RestoreTypeOK, restore.at # "idle", op' = op,
         NEW r \in RestoreType, NEW q \in LegType, qty' = q, Proceed(r, q),
         \A m \in Markets : q[m]["core"] > 0 => saved[m]["core"] > 0,
         \A m \in Markets : known'[m]["core"] >= Floor =>
           /\ up => q[m]["core"] > 0
           /\ ~up => saved[m]["core"] > 0 /\ (q[m]["core"] > 0 \/ <<m, "core">> \in r.legs),
         ~r.restored /\ Scalpers' # {} => saved = q,
         r.legs # {} => Scalpers' = {},
         \A m \in Markets : <<m, "core">> \in r.legs => q[m]["core"] = 0 /\ saved[m]["core"] > 0
  PROVE  KeepInv'
  <1>1. \A c \in Callers : op'[c] = NoCall
    BY DEF KeepInv, ApartInv
  <1>2. /\ restore' \in RestoreType
        /\ restore'.at = "leg" => restore'.restored = r.restored
        /\ \/ restore' = Idle /\ r.legs = {}
           \/ restore'.at = "leg" /\ restore'.now \in r.legs /\ restore'.legs = r.legs \ {restore'.now}
           \/ restore'.at = "leg" /\ r.legs = {} /\ restore'.legs = {} /\ restore'.now[2] = "scalper"
    <2>1. PICK s \in Onwards(r, q) : restore' = s
      BY DEF Proceed
    <2> QED BY <2>1, Ahead
  <1>3. CASE restore' = Idle /\ r.legs = {}
    <2>1. restore'.at = "idle" /\ ~restore'.restored /\ up' = TRUE
      BY <1>3 DEF Idle, Proceed
    <2>2. saved' = IF r.restored THEN q ELSE saved
      BY <2>1 DEF Proceed
    <2>3. SaveInv'
      BY <2>1, <2>2 DEF SaveInv
    <2>4. LegInv' /\ ApartInv'
      BY <2>1 DEF LegInv, ApartInv
    <2>5. KnownInv'
      BY <1>3, <2>1 DEF KnownInv
    <2> QED BY <2>3, <2>4, <2>5 DEF KeepInv
  <1>4. CASE restore'.at = "leg"
    <2>1. saved' = saved /\ up' = up
      BY <1>4 DEF Proceed, RestoreTypeOK
    <2>2. r.legs \subseteq Markets \X Sleeves
      BY DEF RestoreType
    <2>3. \/ Waiting' = r.legs
          \/ r.legs = {} /\ restore'.legs = {} /\ restore'.now[2] = "scalper" /\ Waiting' = {restore'.now}
      BY <1>2, <1>4 DEF Waiting, Idle
    <2>4. SaveInv'
      BY <1>2, <1>4, <2>1 DEF SaveInv
    <2>5. LegInv'
      <3>1. \A m \in Markets : <<m, "core">> \in Waiting' => <<m, "core">> \in r.legs
        BY <2>3
      <3>2. restore'.legs # {} \/ restore'.now[2] # "scalper" => r.legs # {}
        BY <1>2, <1>4 DEF Idle
      <3>3. r.legs # {} => restore'.now \in r.legs /\ restore'.legs = r.legs \ {restore'.now}
        BY <1>2, <1>4 DEF Idle
      <3>4. r.legs # {} => restore'.now[2] # "scalper" /\ restore'.now \notin restore'.legs
        BY <2>2, <3>3 DEF Sleeves
      <3>5. r.legs = {} => restore'.legs = {}
        BY <1>2, <1>4 DEF Idle
      <3> QED BY <2>1, <3>1, <3>2, <3>4, <3>5 DEF LegInv
    <2>6. KnownInv'
      <3>1. r.legs \subseteq Waiting'
        BY <2>3
      <3> QED BY <2>1, <3>1 DEF KnownInv
    <2>7. ApartInv'
      BY <1>1, <1>4 DEF ApartInv
    <2> QED BY <2>4, <2>5, <2>6, <2>7 DEF KeepInv
  <1> QED BY <1>2, <1>3, <1>4

\* Nothing happens to the legs, the files or the restore.
LEMMA KeepSame ==
  ASSUME KeepInv, UNCHANGED <<qty, saved, restore, up, known>>,
         op' = op \/ (up /\ restore.at = "idle")
  PROVE  KeepInv'
  <1>1. SaveInv' /\ LegInv' /\ KnownInv'
    BY DEF KeepInv, SaveInv, LegInv, KnownInv, Waiting, Scalpers
  <1>2. ApartInv'
    BY DEF KeepInv, ApartInv
  <1> QED BY <1>1, <1>2 DEF KeepInv

LEMMA KeepCall ==
  ASSUME KeepInv, RestoreTypeOK, TypeOK', NEW c \in Callers, ContinueCall(c)
  PROVE  KeepInv'
  <1>1. op[c] # NoCall
    <2>1. op[c] \in Call
      BY ResumeFacts DEF RestoreTypeOK, ContinueCall
    <2> QED BY <2>1, NoCallKind, CallFields DEF Call
  <1>2. up /\ restore.at = "idle" /\ up' = up /\ restore' = restore
    BY <1>1 DEF KeepInv, ApartInv, ContinueCall, RestoreTypeOK
  <1>3. saved' = qty' \/ (saved' = saved /\ qty' = qty)
    BY DEF ContinueCall, Save
  <1>4. SaveInv'
    BY <1>2, <1>3 DEF KeepInv, SaveInv, Scalpers
  <1>5. \A m \in Markets : known'[m]["core"] >= Floor => qty'[m]["core"] > 0
    <2>1. PICK cm, ck : cm = op[c].market /\ ck = op[c].leg
      OBVIOUS
    <2>2. /\ cm \in Markets /\ ck \in Kinds
          /\ known' = [known EXCEPT ![cm][ck] = Owned(c, cm, ck)]
          /\ \A m \in Markets, k \in Kinds : m # cm \/ k # ck => qty'[m][k] = qty[m][k]
          /\ Owned(c, cm, ck) >= Floor /\ (known[cm][ck] >= Floor => qty[cm][ck] > 0) => qty'[cm][ck] > 0
      BY <2>1, OwnedFacts
    <2>3. \A m \in Markets : known[m]["core"] >= Floor => qty[m]["core"] > 0
      BY <1>2 DEF KeepInv, KnownInv
    <2>4. known \in [Markets -> [Kinds -> Nat]] /\ "core" \in Kinds
      BY DEF RestoreTypeOK, LegType, Kinds
    <2>5. CASE ck = "core"
      BY <2>2, <2>3, <2>4, <2>5
    <2>6. CASE ck # "core"
      BY <2>2, <2>3, <2>4, <2>6
    <2> QED BY <2>5, <2>6
  <1>6. LegInv' /\ KnownInv' /\ ApartInv'
    BY <1>2, <1>5 DEF KeepInv, LegInv, KnownInv, ApartInv
  <1> QED BY <1>4, <1>6 DEF KeepInv

LEMMA KeepAnswer ==
  ASSUME KeepInv, RestoreTypeOK, Sheltered, AnswerWallet
  PROVE  KeepInv'
  <1>1. /\ restore.at = "answer" /\ Proceed(Answer, qty) /\ qty' = qty /\ known' = known /\ op' = op
    BY DEF AnswerWallet, Answer, vars
  <1>2. /\ Answer \in RestoreType /\ Answer.legs = Restorable(saved) /\ qty \in LegType
        /\ restore.file = saved
    BY <1>1, AnswerType DEF KeepInv, ApartInv, RestoreTypeOK, TypeOK, LegType
  <1>3. \A m \in Markets : <<m, "core">> \in Answer.legs <=> qty[m]["core"] = 0 /\ saved[m]["core"] > 0
    BY <1>2 DEF Restorable, Sleeves
  <1>4. Scalpers # {} => saved = qty
    BY <1>1 DEF KeepInv, SaveInv
  <1>5. Answer.legs # {} => Scalpers' = {}
    BY <1>1, <1>2, <1>4 DEF Restorable, Scalpers
  <1>6. \A m \in Markets : known'[m]["core"] >= Floor =>
           /\ up => qty[m]["core"] > 0
           /\ ~up => saved[m]["core"] > 0 /\ (qty[m]["core"] > 0 \/ <<m, "core">> \in Answer.legs)
    <2>1. \A m \in Markets : qty[m]["core"] \in Nat
      BY <1>2 DEF LegType, Kinds
    <2> QED BY <1>1, <1>3, <2>1 DEF KeepInv, KnownInv
  <1>7. \A m \in Markets : qty[m]["core"] > 0 => saved[m]["core"] > 0
    BY DEF KeepInv, SaveInv
  <1>8. Scalpers' = Scalpers /\ restore.at # "idle"
    BY <1>1 DEF Scalpers
  <1> QED BY <1>1, <1>2, <1>3, <1>4, <1>5, <1>6, <1>7, <1>8, ProceedKeeps

LEMMA KeepAdopt ==
  ASSUME KeepInv, RestoreTypeOK, AdoptLeg
  PROVE  KeepInv'
  <1>1. PICK m \in Markets, k \in Kinds :
           /\ restore.at = "leg" /\ restore.now = <<m, k>>
           /\ qty' \in LegType /\ known' \in LegType
           /\ qty' = qty \/ (qty' = [qty EXCEPT ![m][k] = Share(restore)] /\ Share(restore) \in Nat
                             /\ Share(restore) >= Floor)
           /\ Share(restore) >= Floor => qty' = [qty EXCEPT ![m][k] = Share(restore)]
           /\ known' = [known EXCEPT ![m][k] = qty'[m][k]]
           /\ Proceed(Adopted, qty')
    BY AdoptFacts
  <1>2. /\ Adopted \in RestoreType /\ Adopted.legs = restore.legs
        /\ Adopted.restored = (restore.restored \/ Share(restore) >= Floor)
    BY AdoptedType
  <1>3. qty \in LegType /\ known \in LegType /\ restore.now[2] = k /\ "core" \in Kinds /\ op' = op
    BY <1>1 DEF RestoreTypeOK, TypeOK, LegType, Kinds, AdoptLeg
  <1>4. \A x \in Markets, y \in Kinds : x # m \/ y # k => qty'[x][y] = qty[x][y] /\ known'[x][y] = known[x][y]
    BY <1>1, <1>3 DEF LegType
  <1>5. known'[m][k] = qty'[m][k]
    BY <1>1, <1>3 DEF LegType
  <1>6. /\ restore.legs # {} \/ k # "scalper" => Scalpers = {}
        /\ restore.legs # {} => k # "scalper"
        /\ <<m, k>> \notin restore.legs
        /\ \A x \in Markets : <<x, "core">> \in restore.legs \cup {<<m, k>>} => qty[x]["core"] = 0 /\ saved[x]["core"] > 0
    BY <1>1, <1>3 DEF KeepInv, LegInv, Waiting
  <1>7. k # "scalper" => Scalpers' = Scalpers
    BY <1>4 DEF Scalpers, Kinds
  <1>8. \A x \in Markets : qty'[x]["core"] > 0 => saved[x]["core"] > 0
    BY <1>3, <1>4, <1>6 DEF KeepInv, SaveInv
  <1>9. ASSUME NEW x \in Markets, known'[x]["core"] >= Floor
        PROVE  /\ up => qty'[x]["core"] > 0
               /\ ~up => saved[x]["core"] > 0 /\ (qty'[x]["core"] > 0 \/ <<x, "core">> \in Adopted.legs)
    <2>1. CASE x = m /\ k = "core"
      <3>1. qty'[x]["core"] > 0
        BY <1>1, <1>3, <1>5, <1>9, <2>1, SizesAssumption DEF LegType
      <3> QED BY <1>8, <3>1
    <2>2. CASE ~(x = m /\ k = "core")
      <3>1. qty'[x]["core"] = qty[x]["core"] /\ known[x]["core"] >= Floor /\ <<x, "core">> # <<m, k>>
        BY <1>3, <1>4, <1>9, <2>2
      <3>2. /\ up => qty[x]["core"] > 0
            /\ ~up => saved[x]["core"] > 0
            /\ ~up => qty[x]["core"] > 0 \/ <<x, "core">> \in restore.legs \cup {<<m, k>>}
        BY <1>1, <3>1 DEF KeepInv, KnownInv, Waiting
      <3> QED BY <1>2, <3>1, <3>2
    <2> QED BY <2>1, <2>2
  <1>10. ~Adopted.restored /\ Scalpers' # {} => saved = qty'
    <2>1. ~Adopted.restored => qty' = qty /\ ~restore.restored
      BY <1>1, <1>2
    <2>2. qty' = qty => Scalpers' = Scalpers
      BY DEF Scalpers
    <2> QED BY <1>1, <2>1, <2>2 DEF KeepInv, SaveInv
  <1>11. Adopted.legs # {} => Scalpers' = {}
    BY <1>2, <1>6, <1>7
  <1>12. \A x \in Markets : <<x, "core">> \in Adopted.legs => qty'[x]["core"] = 0 /\ saved[x]["core"] > 0
    BY <1>2, <1>3, <1>4, <1>6
  <1>13. restore.at # "idle"
    BY <1>1
  <1> QED BY <1>1, <1>2, <1>3, <1>8, <1>9, <1>10, <1>11, <1>12, <1>13, ProceedKeeps

LEMMA KeepMiss ==
  ASSUME KeepInv, RestoreTypeOK, Sheltered, MissLeg
  PROVE  KeepInv'
  <1>1. /\ restore.at = "leg" /\ restore.now[2] # "core" /\ Proceed(restore, qty)
        /\ qty' = qty /\ known' = known /\ op' = op
    BY DEF MissLeg, Sheltered, vars
  <1>2. restore \in RestoreType /\ qty \in LegType
    BY DEF RestoreTypeOK, TypeOK, LegType
  <1>3. Scalpers' = Scalpers
    BY <1>1 DEF Scalpers
  <1>4. \A m \in Markets : <<m, "core">> \in Waiting <=> <<m, "core">> \in restore.legs
    BY <1>1 DEF Waiting
  <1>5. /\ restore.legs # {} => Scalpers' = {}
        /\ \A m \in Markets : <<m, "core">> \in restore.legs => qty[m]["core"] = 0 /\ saved[m]["core"] > 0
    BY <1>1, <1>3, <1>4 DEF KeepInv, LegInv
  <1>6. \A m \in Markets : known'[m]["core"] >= Floor =>
           /\ up => qty[m]["core"] > 0
           /\ ~up => saved[m]["core"] > 0 /\ (qty[m]["core"] > 0 \/ <<m, "core">> \in restore.legs)
    BY <1>1, <1>4 DEF KeepInv, KnownInv
  <1>7. /\ \A m \in Markets : qty[m]["core"] > 0 => saved[m]["core"] > 0
        /\ ~restore.restored /\ Scalpers' # {} => saved = qty
    BY <1>1, <1>3 DEF KeepInv, SaveInv
  <1>8. restore.at # "idle"
    BY <1>1
  <1> QED BY <1>1, <1>2, <1>5, <1>6, <1>7, <1>8, ProceedKeeps

LEMMA KeepStep ==
  ASSUME KeepInv, RestoreTypeOK, RestoreTypeOK', Sheltered, [RestoreNext]_restoreVars
  PROVE  KeepInv'
  <1>1. ASSUME NEW c \in Callers, BeginCall(c) PROVE KeepInv'
    <2>1. up /\ restore.at = "idle"
      BY <1>1 DEF BeginCall, Quiet, Sheltered
    <2>2. qty' = qty
      BY <1>1 DEF BeginCall, Start, OpenScalper, OpenCore, GrowCore, TrimCore, Close, PartialClose, SellSatellite
    <2> QED BY <1>1, <2>1, <2>2, KeepSame DEF BeginCall
  <1>2. ASSUME NEW c \in Callers, ContinueCall(c) PROVE KeepInv'
    BY <1>2, KeepCall DEF RestoreTypeOK
  <1>3. CASE PlaceOrder \/ FillOrder
    BY <1>3, KeepSame DEF PlaceOrder, FillOrder, PlaceSatellite, FillSatellite
  <1>4. CASE PollOrder
    <2>1. up /\ restore.at = "idle" /\ up' = up /\ restore' = restore
      BY <1>4 DEF PollOrder, Quiet, Sheltered, world
    <2>2. saved' = qty' \/ (saved' = saved /\ qty' = qty)
      BY <1>4 DEF PollOrder
    <2>3. \A m \in Markets : qty'[m]["core"] = qty[m]["core"] /\ known'[m]["core"] = known[m]["core"]
      BY <1>4 DEF PollOrder, PollSatellite, RestoreTypeOK, TypeOK, LegType, Kinds
    <2>4. SaveInv'
      BY <2>1, <2>2 DEF KeepInv, SaveInv, Scalpers
    <2>5. LegInv' /\ KnownInv' /\ ApartInv'
      BY <2>1, <2>3 DEF KeepInv, LegInv, KnownInv, ApartInv
    <2> QED BY <2>4, <2>5 DEF KeepInv
  <1>5. CASE SaveStops
    <2>1. up /\ Scalpers # {} /\ saved' = qty /\ UNCHANGED <<qty, op, restore, up, known>>
      BY <1>5 DEF SaveStops, vars
    <2>2. restore.at = "leg" => \A m \in Markets : <<m, "core">> \notin Waiting
      <3>1. restore.at = "leg" => restore.legs = {} /\ restore.now[2] = "scalper"
        BY <2>1 DEF KeepInv, LegInv
      <3> QED BY <3>1 DEF Waiting
    <2>3. SaveInv'
      BY <2>1 DEF KeepInv, SaveInv, Scalpers
    <2>4. LegInv'
      BY <2>1, <2>2 DEF KeepInv, LegInv, Waiting, Scalpers
    <2>5. KnownInv' /\ ApartInv'
      BY <2>1 DEF KeepInv, SaveInv, KnownInv, ApartInv
    <2> QED BY <2>3, <2>4, <2>5 DEF KeepInv
  <1>6. CASE BeginRestore
    <2>1. /\ restore.at = "idle" /\ \A c \in Callers : op[c] = NoCall
          /\ UNCHANGED <<qty, op, saved, up, known>>
      BY <1>6 DEF BeginRestore, Sheltered, vars
    <2>2. restore'.at = "balance" /\ restore'.file = saved /\ ~restore'.restored
      BY <1>6 DEF BeginRestore, Idle
    <2>3. SaveInv' /\ LegInv' /\ KnownInv' /\ ApartInv'
      BY <2>1, <2>2 DEF KeepInv, SaveInv, LegInv, KnownInv, ApartInv, Scalpers
    <2> QED BY <2>3 DEF KeepInv
  <1>7. CASE ReadWallet
    <2>1. restore.at = "balance" /\ UNCHANGED <<qty, op, saved, up, known>>
      BY <1>7 DEF ReadWallet, vars
    <2>2. restore'.at = "answer" /\ restore'.file = restore.file /\ restore'.restored = restore.restored
      BY <1>7 DEF ReadWallet, RestoreTypeOK, RestoreType
    <2>3. SaveInv' /\ LegInv' /\ KnownInv' /\ ApartInv'
      BY <2>1, <2>2 DEF KeepInv, SaveInv, LegInv, KnownInv, ApartInv, Scalpers
    <2> QED BY <2>3 DEF KeepInv
  <1>8. CASE AnswerWallet
    BY <1>8, KeepAnswer
  <1>9. CASE MissWallet
    <2>1. /\ restore.at \in {"balance", "answer"} /\ up /\ up'
          /\ UNCHANGED <<qty, op, saved, known>>
      BY <1>9 DEF MissWallet, Sheltered, vars
    <2>2. restore'.at = "idle" /\ ~restore'.restored
      BY <1>9 DEF MissWallet, Idle
    <2>3. SaveInv' /\ LegInv' /\ KnownInv' /\ ApartInv'
      BY <2>1, <2>2 DEF KeepInv, SaveInv, LegInv, KnownInv, ApartInv, Scalpers
    <2> QED BY <2>3 DEF KeepInv
  <1>10. CASE AdoptLeg
    BY <1>10, KeepAdopt
  <1>11. CASE MissLeg
    BY <1>11, KeepMiss
  <1>12. CASE Crash
    <2>1. /\ qty' = NoLegs /\ (\A c \in Callers : op'[c] = NoCall) /\ ~up' /\ saved' = saved /\ known' = known
          /\ restore'.at = "idle" /\ ~restore'.restored
      BY <1>12 DEF Crash, Idle
    <2>2. \A m \in Markets, k \in Kinds : ~(qty'[m][k] > 0)
      BY <2>1 DEF NoLegs
    <2>3. SaveInv'
      BY <2>2 DEF SaveInv, Scalpers, Kinds
    <2>4. KnownInv'
      BY <2>1 DEF KeepInv, SaveInv, KnownInv
    <2>5. LegInv' /\ ApartInv'
      BY <2>1 DEF LegInv, ApartInv
    <2> QED BY <2>3, <2>4, <2>5 DEF KeepInv
  <1>13. CASE UNCHANGED restoreVars
    <2>1. UNCHANGED <<qty, saved, restore, up, known>> /\ op' = op
      BY <1>13 DEF restoreVars, vars
    <2> QED BY <2>1, KeepSame
  <1> QED BY <1>1, <1>2, <1>3, <1>4, <1>5, <1>6, <1>7, <1>8, <1>9, <1>10, <1>11, <1>12, <1>13 DEF RestoreNext

LEMMA KeepInit == RestoreInit => RestoreTypeOK /\ KeepInv
  <1> SUFFICES ASSUME RestoreInit PROVE RestoreTypeOK /\ KeepInv
    OBVIOUS
  <1>1. TypeOK
    BY DEF RestoreInit, Init, TypeOK
  <1>2. RestoreTypeOK
    BY <1>1, NoLegsType DEF RestoreInit, RestoreTypeOK
  <1>3. /\ qty = NoLegs /\ saved = NoLegs /\ known = NoLegs /\ ~up
        /\ restore.at = "idle" /\ ~restore.restored
        /\ \A c \in Callers : op[c] = NoCall
        /\ \A m \in Markets, k \in Kinds : ~(known[m][k] >= Floor) /\ ~(qty[m][k] > 0)
    BY SizesAssumption DEF RestoreInit, Init, NoLegs, Idle
  <1>4. KeepInv
    BY <1>3 DEF KeepInv, SaveInv, LegInv, KnownInv, ApartInv, Scalpers, Kinds
  <1> QED BY <1>2, <1>4

\* Where the restore may lose the ticker of a sleeve's leg or the read of a boot, or meets a
\* call, the record is lost in ways the runs show: the theorem is about every other
\* environment, whatever tickers of the scalper's and the satellites' legs fail in it.
(* The sleeve's record survives (calcCoreClaims in src/src/executor/liveTrader.js): *)
(* as long as the sleeve owns coins an order could sell, its leg is in memory or in  *)
(* position_state.json, whatever calls, orders, saves, restores and deaths happened.  *)
THEOREM RecordSurvives ==
  ASSUME \A e \in Environments : e.lossy \/ (~e.overlap /\ "core" \notin e.misses /\ "boot" \notin e.misses)
  PROVE  RestoreSpec => []RecordKept
  <1>1. RestoreInit => RecordInv
    BY KeepInit DEF RecordInv
  <1>2. RecordInv /\ [RestoreNext]_restoreVars => RecordInv'
    <2> SUFFICES ASSUME RecordInv, [RestoreNext]_restoreVars PROVE RecordInv'
      OBVIOUS
    <2>1. RestoreTypeOK /\ RestoreTypeOK'
      BY RestoreTypeStep DEF RecordInv
    <2>2. env' = env
      BY DEF RestoreNext, restoreVars, BeginCall, ContinueCall, PlaceOrder, FillOrder, PollOrder, SaveStops,
             BeginRestore, ReadWallet, AnswerWallet, MissWallet, AdoptLeg, MissLeg, Crash, world
    <2>3. ~env.lossy => Sheltered
      BY <2>1 DEF RestoreTypeOK, Sheltered
    <2>4. ~env.lossy => KeepInv'
      BY <2>1, <2>3, KeepStep DEF RecordInv
    <2> QED BY <2>1, <2>2, <2>4 DEF RecordInv
  <1>3. RecordInv => RecordKept
    BY DEF RecordInv, KeepInv, SaveInv, KnownInv, RestoreTypeOK, RecordKept
  <1> QED BY <1>1, <1>2, <1>3, PTL DEF RestoreSpec

-------------------------------------------------------------------------------
(* A boot leaves no leg with coins the wallet does not hold.                   *)

\* The satellites are off: no leg, no call and no order of theirs.
NoSatellites ==
  /\ \A m \in Markets : /\ m \notin pending /\ resting[m] = 0 /\ uncredited[m] = 0
                        /\ qty[m]["satellite"] = 0 /\ saved[m]["satellite"] = 0
                        /\ restore.file[m]["satellite"] = 0
  /\ \A c \in Callers : op[c].leg # "satellite"

\* What the claims of a restore `r` set aside covers the sleeve's legs, in memory (`q`) and
\* waiting, and the scalper's leg takes no more than the rest.
Covered(r, q) ==
  \A m \in Markets :
    /\ r.free[m] = wallet[m] /\ r.claims[m] <= wallet[m]
    /\ q[m]["core"] <= r.claims[m] /\ q[m]["scalper"] <= wallet[m] - r.claims[m]

Reserved(r, l) == l[2] = "core" /\ Smaller(r.file[l[1]]["core"], wallet[l[1]]) <= r.claims[l[1]]

\* A process that boots has no call, and its wallet is the one its restore has read.
BootInv ==
  ~up =>
    /\ \A c \in Callers : op[c] = NoCall
    /\ \A m \in Markets, k \in Kinds : unbooked[m][k] = 0
    /\ restore.at # "leg" => qty = NoLegs
    /\ restore.at = "answer" => restore.free = wallet
    /\ restore.at = "leg" =>
         /\ Covered(restore, qty)
         /\ \A l \in restore.legs : Reserved(restore, l)
         /\ restore.now[2] = "scalper" \/ Reserved(restore, restore.now)

LEMMA BootInit == RestoreInit => NoSatellites /\ BootInv
  <1> SUFFICES ASSUME RestoreInit PROVE NoSatellites /\ BootInv
    OBVIOUS
  <1>1. NoSatellites
    BY DEF RestoreInit, Init, NoSatellites, NoLegs, Idle, NoCall, Kinds
  <1>2. BootInv
    BY DEF RestoreInit, Init, BootInv, NoLegs, Idle
  <1> QED BY <1>1, <1>2

\* A restore that goes on keeps what is covered; one that ends leaves it in the wallet.
LEMMA ProceedCovers ==
  ASSUME RestoreTypeOK, NoSatellites, BootInv, ~up, wallet' = wallet, op' = op, unbooked' = unbooked,
         uncredited' = uncredited,
         NEW r \in RestoreType, NEW q \in LegType, qty' = q, Proceed(r, q), Covered(r, q),
         \A m \in Markets : q[m]["satellite"] = 0,
         \A l \in r.legs : Reserved(r, l)
  PROVE  BootInv' /\ (up' => Backed')
  <1>1. PICK s \in Onwards(r, q) : restore' = s /\ up' = (s.at = "idle")
    BY DEF Proceed
  <1>2. /\ s.at = "leg" => s.now[1] \in Markets /\ s.file = r.file
        /\ s.at = "leg" => s.free = r.free /\ s.claims = r.claims
        /\ \/ s = Idle
           \/ s.at = "leg" /\ s.now \in r.legs /\ s.legs = r.legs \ {s.now}
           \/ s.at = "leg" /\ r.legs = {} /\ s.legs = {} /\ s.now[2] = "scalper"
    BY <1>1, Ahead
  <1>3. (\A c \in Callers : op'[c] = NoCall) /\ \A m \in Markets, k \in Kinds : unbooked'[m][k] = 0
    BY DEF BootInv
  <1>4. CASE s = Idle
    <2>1. up'
      BY <1>1, <1>4, NoLegsType
    <2>2. ASSUME NEW m \in Markets PROVE Tracked(m)' + uncredited'[m] <= wallet'[m]
      <3>1. /\ q[m]["core"] \in Nat /\ q[m]["scalper"] \in Nat /\ wallet[m] \in Nat /\ r.claims[m] \in Nat
            /\ \A k \in Kinds : unbooked'[m][k] = 0
            /\ uncredited'[m] = 0 /\ q[m]["satellite"] = 0
        BY <1>3, <2>2 DEF RestoreTypeOK, TypeOK, RestoreType, LegType, Kinds, NoSatellites
      <3>2. q[m]["core"] <= r.claims[m] /\ q[m]["scalper"] <= wallet[m] - r.claims[m]
        BY <2>2 DEF Covered
      <3>3. Tracked(m)' = q[m]["scalper"] + q[m]["core"]
        BY <3>1 DEF Tracked, Held, Kinds
      <3> QED BY <3>1, <3>2, <3>3
    <2> QED BY <2>1, <2>2 DEF Backed, BootInv
  <1>5. CASE s.at = "leg"
    <2>1. ~up' /\ restore'.at = "leg" /\ restore'.free = r.free /\ restore'.claims = r.claims /\ restore'.file = r.file
      BY <1>1, <1>2, <1>5
    <2>2. Covered(restore, qty)'
      BY <2>1 DEF Covered
    <2>3. \A l : Reserved(r, l) => Reserved(restore, l)'
      BY <2>1 DEF Reserved
    <2>4. \A l \in restore'.legs : Reserved(restore, l)'
      BY <1>1, <1>2, <1>5, <2>3, NoLegsType DEF Reserved
    <2>5. restore'.now[2] = "scalper" \/ Reserved(restore, restore.now)'
      BY <1>1, <1>2, <1>5, <2>3, NoLegsType DEF Reserved
    <2> QED BY <1>3, <2>1, <2>2, <2>4, <2>5 DEF BootInv
  <1> QED BY <1>2, <1>4, <1>5

\* Without satellites a step of a call does nothing to a leg of theirs.
LEMMA NoSatellitesStep ==
  ASSUME RestoreTypeOK, RestoreTypeOK', NoSatellites, ~env.satellites, [RestoreNext]_restoreVars
  PROVE  NoSatellites'
  <1>t. /\ qty \in LegType /\ saved \in LegType /\ "satellite" \in Kinds
        /\ op \in [Callers -> Call \cup {NoCall}] /\ restore \in RestoreType
    BY DEF RestoreTypeOK, TypeOK, LegType, Kinds
  \* A call keeps its leg when one of its other fields changes.
  <1>o. ASSUME NEW c \in Callers, NEW v, NEW w,
               \/ op' = [op EXCEPT ![c].filled = v, ![c].step = w]
               \/ op' = [op EXCEPT ![c].step = w]
               \/ op' = [op EXCEPT ![c].kind = w, ![c].want = v]
               \/ op' = [op EXCEPT ![c].step = w, ![c].want = v]
        PROVE  \A d \in Callers : op'[d].leg \in {op[d].leg, "scalper"}
    <2>1. ASSUME NEW d \in Callers PROVE op[d] \in Call \/ op[d] = NoCall
      BY <1>t
    <2> QED BY <1>t, <1>o, <2>1 DEF Call, NoCall
  <1>1. ASSUME NEW c \in Callers, BeginCall(c) PROVE NoSatellites'
    <2>1. UNCHANGED <<satelliteBuy, qty, saved, restore>>
      BY <1>1 DEF BeginCall, Start, OpenScalper, OpenCore, GrowCore, TrimCore, Close, PartialClose, SellSatellite
    <2>2. PICK m \in Markets :
            \/ \E q \in MinOrder .. MaxOrder : OpenScalper(c, m, q) \/ OpenCore(c, m, q) \/ GrowCore(c, m, q)
            \/ \E q \in 1 .. MaxLeg : TrimCore(c, m, q)
            \/ \E leg \in Kinds : Close(c, m, leg)
            \/ PartialClose(c, m)
            \/ SellSatellite(c, m)
      BY <1>1 DEF BeginCall, Start
    <2>3. ~SellSatellite(c, m)
      BY DEF SellSatellite, NoSatellites
    <2>4. \A d \in Callers : op'[d].leg # "satellite"
      BY <1>t, <2>2, <2>3 DEF OpenScalper, OpenCore, GrowCore, TrimCore, Close, PartialClose, Suspend, NoSatellites
    <2> QED BY <2>1, <2>4 DEF NoSatellites, satelliteBuy
  <1>2. ASSUME NEW c \in Callers, ContinueCall(c) PROVE NoSatellites'
    <2>1. Resume(c) /\ restore' = restore /\ (saved' = qty' \/ saved' = saved)
      BY <1>2 DEF ContinueCall, Save
    <2>2. UNCHANGED satelliteBuy
      BY <2>1 DEF Resume, LimitBuy, BookBuy, LostBuy, ReadFree, LimitSell, MarketSell, LostRest, BookSale,
                  LoseSale, FailOrder, LostSell
    <2>3. \A d \in Callers : op'[d].leg = op[d].leg \/ op'[d].leg = "scalper"
      <3>1. CASE Return(c)
        BY <1>t, <3>1 DEF Return, NoCall
      <3>2. CASE LimitBuy(c) \/ LimitSell(c)
        <4>1. PICK f, s : op' = [op EXCEPT ![c].filled = f, ![c].step = s]
          BY <3>2 DEF LimitBuy, LimitSell
        <4> QED BY <4>1, <1>o
      <3>3. CASE MarketSell(c) \/ LostRest(c)
        <4>1. PICK f, s : op' = [op EXCEPT ![c].filled = f, ![c].step = s] \/ op' = [op EXCEPT ![c].step = s]
          BY <3>3 DEF MarketSell, LostRest
        <4> QED BY <4>1, <1>o
      <3>4. CASE ReadFree(c)
        <4>1. PICK size : Sized(c, size)
          BY <3>4 DEF ReadFree
        <4>2. CASE Return(c)
          BY <3>1, <4>2
        <4>3. CASE ~Return(c)
          <5>1. PICK w, s : op' = [op EXCEPT ![c].kind = s, ![c].want = w] \/ op' = [op EXCEPT ![c].step = s, ![c].want = w]
            BY <4>1, <4>3 DEF Sized
          <5> QED BY <5>1, <1>o
        <4> QED BY <4>2, <4>3
      <3>5. CASE BookBuy(c) \/ LostBuy(c) \/ BookSale(c) \/ LoseSale(c) \/ FailOrder(c) \/ LostSell(c)
        BY <3>1, <3>5 DEF BookBuy, LostBuy, BookSale, LoseSale, FailOrder, LostSell
      <3> QED BY <2>1, <3>2, <3>3, <3>4, <3>5 DEF Resume
    <2>4. PICK cm, ck : cm = op[c].market /\ ck = op[c].leg
      OBVIOUS
    <2>5. \A m \in Markets, k \in Kinds : m # cm \/ k # ck => qty'[m][k] = qty[m][k]
      BY <2>1, <2>4, ResumeFacts DEF RestoreTypeOK
    <2>6. \A m \in Markets : qty'[m]["satellite"] = 0
      BY <1>t, <2>4, <2>5 DEF NoSatellites
    <2> QED BY <2>1, <2>2, <2>3, <2>6 DEF NoSatellites, satelliteBuy
  <1>3. CASE PlaceOrder \/ PollOrder
    BY <1>3 DEF PlaceOrder, PollOrder, PollSatellite, NoSatellites
  <1>4. CASE FillOrder
    <2>1. PICK m \in Markets, f \in 1 .. MaxOrder : FillSatellite(m, f)
      BY <1>4 DEF FillOrder
    <2>2. f <= 0 /\ f >= 1
      BY <2>1, SizesAssumption DEF FillSatellite, NoSatellites
    <2> QED BY <2>2, SizesAssumption
  <1>5. CASE SaveStops
    BY <1>5 DEF SaveStops, NoSatellites, vars
  <1>6. CASE BeginRestore
    <2>1. restore'.file = saved /\ UNCHANGED <<vars, saved>>
      BY <1>6 DEF BeginRestore, Idle
    <2> QED BY <2>1 DEF NoSatellites, vars
  <1>7. CASE ReadWallet
    <2>1. restore'.file = restore.file /\ UNCHANGED <<vars, saved>>
      BY <1>t, <1>7 DEF ReadWallet, RestoreType
    <2> QED BY <2>1 DEF NoSatellites, vars
  <1>8. CASE MissWallet
    <2>1. restore'.file = NoLegs /\ UNCHANGED <<vars, saved>>
      BY <1>8 DEF MissWallet, Idle
    <2> QED BY <1>t, <2>1 DEF NoSatellites, vars, NoLegs
  <1>p. ASSUME NEW r \in RestoreType, r.file = restore.file, Proceed(r, qty'), qty' \in LegType,
               \A m \in Markets : qty'[m]["satellite"] = 0,
               UNCHANGED <<op, satelliteBuy>>
        PROVE  NoSatellites'
    <2>1. restore'.file = restore.file \/ restore'.file = NoLegs
      <3>1. restore' = Idle \/ restore'.file = r.file
        BY <1>p, Ahead DEF Proceed
      <3> QED BY <1>p, <3>1 DEF Idle
    <2>2. saved' = saved \/ saved' = qty'
      BY <1>p DEF Proceed
    <2> QED BY <1>t, <1>p, <2>1, <2>2 DEF NoSatellites, satelliteBuy, NoLegs
  <1>9. CASE AnswerWallet
    <2>1. Proceed(Answer, qty) /\ qty' = qty /\ UNCHANGED <<op, satelliteBuy>>
      BY <1>9 DEF AnswerWallet, Answer, vars, satelliteBuy
    <2> QED BY <1>t, <1>p, <2>1, AnswerType DEF NoSatellites
  <1>10. CASE AdoptLeg
    <2>1. PICK m \in Markets, k \in Kinds :
            /\ restore.now = <<m, k>> /\ Proceed(Adopted, qty') /\ qty' \in LegType
            /\ qty' = qty \/ qty' = [qty EXCEPT ![m][k] = Share(restore)]
            /\ qty' = qty \/ Share(restore) >= Floor
      BY <1>10, AdoptFacts
    <2>2. Adopted \in RestoreType /\ Adopted.file = restore.file /\ UNCHANGED <<op, satelliteBuy>>
      BY <1>10, AdoptedType DEF AdoptLeg
    <2>3. k = "satellite" => Share(restore) <= 0
      <3>1. restore.file[m]["satellite"] = 0 /\ restore.free[m] \in Nat
        BY <1>t DEF NoSatellites, RestoreType
      <3> QED BY <2>1, <3>1 DEF Share, Smaller
    <2>4. \A x \in Markets : qty'[x]["satellite"] = 0
      <3>1. k = "satellite" => qty' = qty
        <4>1. Share(restore) \in Int
          BY <1>t, <2>1 DEF Share, Smaller, RestoreType, LegType
        <4> QED BY <2>1, <2>3, <4>1, SizesAssumption
      <3> QED BY <1>t, <2>1, <3>1 DEF NoSatellites, LegType
    <2> QED BY <1>p, <2>1, <2>2, <2>4
  <1>11. CASE MissLeg
    <2>1. Proceed(restore, qty) /\ qty' = qty /\ UNCHANGED <<op, satelliteBuy>>
      BY <1>11 DEF MissLeg, vars, satelliteBuy
    <2> QED BY <1>t, <1>p, <2>1 DEF NoSatellites
  <1>12. CASE Crash
    BY <1>t, <1>12 DEF Crash, NoSatellites, satelliteBuy, NoLegs, Idle, NoCall
  <1>13. CASE UNCHANGED restoreVars
    BY <1>13 DEF NoSatellites, restoreVars, vars
  <1> QED BY <1>1, <1>2, <1>3, <1>4, <1>5, <1>6, <1>7, <1>8, <1>9, <1>10, <1>11, <1>12, <1>13 DEF RestoreNext

\* The legs that wait for their coins when the balance has been read.
LEMMA AnswerCovers ==
  ASSUME RestoreTypeOK, NoSatellites, BootInv, ~up, AnswerWallet
  PROVE  Covered(Answer, qty) /\ \A l \in Answer.legs : Reserved(Answer, l)
  <1>1. restore.at = "answer" /\ qty = NoLegs /\ restore.free = wallet
    BY DEF BootInv, AnswerWallet
  <1>2. Answer.claims = [m \in Markets |-> Claim(m, restore.file, wallet[m])] /\ Answer.free = wallet
        /\ Answer.file = restore.file
    BY <1>1 DEF Answer, RestoreTypeOK, RestoreType
  <1>3. ASSUME NEW m \in Markets
        PROVE  /\ Answer.claims[m] \in Nat /\ Answer.claims[m] <= wallet[m] /\ wallet[m] \in Nat
               /\ Smaller(restore.file[m]["core"], wallet[m]) <= Answer.claims[m]
    <2>1. /\ wallet[m] \in Nat /\ restore.file[m]["core"] \in Nat /\ restore.file[m]["satellite"] = 0
          /\ m \notin pending /\ qty[m]["core"] = 0 /\ qty[m]["satellite"] = 0
      BY <1>1, <1>3 DEF RestoreTypeOK, RestoreType, TypeOK, LegType, Kinds, NoSatellites, NoLegs
    <2>2. Answer.claims[m] = Smaller(wallet[m], restore.file[m]["core"])
      BY <1>2, <2>1 DEF Claim
    <2> QED BY <2>1, <2>2 DEF Smaller
  <1>4. Covered(Answer, qty)
    BY <1>1, <1>2, <1>3 DEF Covered, NoLegs, Kinds
  <1>5. ASSUME NEW l \in Answer.legs PROVE Reserved(Answer, l)
    <2>1. l \in Markets \X Sleeves /\ restore.file[l[1]][l[2]] > 0
      BY <1>5, AnswerType DEF Restorable
    <2>2. l[1] \in Markets /\ l[2] = "core"
      BY <2>1 DEF Sleeves, NoSatellites
    <2> QED BY <1>2, <1>3, <2>2 DEF Reserved
  <1> QED BY <1>4, <1>5

\* A leg that is filled takes its own reserve, or what nobody claims.
LEMMA AdoptCovers ==
  ASSUME RestoreTypeOK, NoSatellites, BootInv, ~up, AdoptLeg
  PROVE  /\ Covered(Adopted, qty') /\ \A l \in Adopted.legs : Reserved(Adopted, l)
  <1>1. PICK m \in Markets, k \in Kinds :
          /\ restore.at = "leg" /\ restore.now = <<m, k>> /\ qty' \in LegType
          /\ qty' = qty \/ qty' = [qty EXCEPT ![m][k] = Share(restore)]
    BY AdoptFacts
  <1>2. /\ Covered(restore, qty) /\ \A l \in restore.legs : Reserved(restore, l)
        /\ k = "scalper" \/ (k = "core" /\ Smaller(restore.file[m]["core"], wallet[m]) <= restore.claims[m])
    BY <1>1 DEF BootInv, Reserved
  <1>3. /\ Adopted.free = restore.free /\ Adopted.claims = restore.claims
        /\ Adopted.legs = restore.legs /\ Adopted.file = restore.file
    BY DEF Adopted, RestoreTypeOK, RestoreType
  <1>4. \A l \in Adopted.legs : Reserved(Adopted, l)
    BY <1>2, <1>3 DEF Reserved
  <1>5. ASSUME NEW x \in Markets
        PROVE  /\ qty'[x]["core"] <= restore.claims[x]
               /\ qty'[x]["scalper"] <= wallet[x] - restore.claims[x]
    <2>1. /\ restore.free[x] = wallet[x] /\ qty[x]["core"] <= restore.claims[x]
          /\ qty[x]["scalper"] <= wallet[x] - restore.claims[x]
      BY <1>2 DEF Covered
    <2>2. /\ k = "scalper" => Share(restore) = restore.free[m] - restore.claims[m]
          /\ k = "core" => Share(restore) = Smaller(restore.file[m]["core"], restore.free[m])
      BY <1>1 DEF Share
    <2>3. CASE qty' = qty \/ x # m
      BY <1>1, <2>1, <2>3 DEF RestoreTypeOK, TypeOK
    <2>4. CASE qty' # qty /\ x = m
      <3>1. qty'[x] = [qty[x] EXCEPT ![k] = Share(restore)] /\ DOMAIN qty[x] = Kinds
        BY <1>1, <2>4 DEF RestoreTypeOK, TypeOK
      <3>2. CASE k = "scalper"
        <4>1. wallet[m] \in Nat /\ restore.claims[m] \in Nat
          BY DEF RestoreTypeOK, RestoreType, TypeOK
        <4>2. qty'[x]["scalper"] = wallet[x] - restore.claims[x] /\ qty'[x]["core"] = qty[x]["core"]
          BY <2>1, <2>2, <2>4, <3>1, <3>2 DEF Kinds
        <4> QED BY <2>1, <2>4, <4>1, <4>2
      <3>3. CASE k = "core"
        BY <1>2, <2>1, <2>2, <2>4, <3>1, <3>3 DEF Kinds
      <3> QED BY <1>2, <3>2, <3>3
    <2> QED BY <2>3, <2>4
  <1>6. Covered(Adopted, qty')
    BY <1>2, <1>3, <1>5 DEF Covered
  <1> QED BY <1>4, <1>6

LEMMA BootStep ==
  ASSUME RestoreTypeOK, RestoreTypeOK', NoSatellites, NoSatellites', BootInv, ~env.satellites,
         [RestoreNext]_restoreVars
  PROVE  BootInv' /\ (~up /\ up' => Backed')
  <1>1. ASSUME NEW c \in Callers, BeginCall(c) \/ ContinueCall(c) PROVE up /\ up'
    <2>1. CASE BeginCall(c)
      BY <2>1 DEF BeginCall
    <2>2. CASE ContinueCall(c)
      <3>1. op[c] \in Call
        BY <2>2, ResumeFacts DEF RestoreTypeOK, ContinueCall
      <3>2. op[c] # NoCall
        BY <3>1, NoCallKind, CallFields
      <3> QED BY <2>2, <3>2 DEF BootInv, ContinueCall
    <2> QED BY <1>1, <2>1, <2>2
  <1>2. CASE PlaceOrder \/ PollOrder \/ SaveStops
    BY <1>2 DEF PlaceOrder, PollOrder, SaveStops, BootInv
  <1>3. CASE FillOrder
    <2>1. PICK m \in Markets, f \in 1 .. MaxOrder : FillSatellite(m, f)
      BY <1>3 DEF FillOrder
    <2>2. f <= 0 /\ f >= 1
      BY <2>1, SizesAssumption DEF FillSatellite, NoSatellites
    <2> QED BY <2>2, SizesAssumption
  <1>4. CASE BeginRestore
    <2>1. restore'.at = "balance" /\ restore.at = "idle" /\ UNCHANGED <<vars, up>>
      BY <1>4, NoLegsType DEF BeginRestore, RestoreType
    <2> QED BY <2>1 DEF BootInv, vars
  <1>5. CASE ReadWallet
    <2>1. /\ restore.at = "balance" /\ UNCHANGED <<vars, up>>
          /\ restore'.at = "answer" /\ restore'.free = wallet
      BY <1>5 DEF ReadWallet, RestoreTypeOK, RestoreType
    <2> QED BY <2>1 DEF BootInv, vars
  <1>6. CASE up /\ up'
    BY <1>6 DEF BootInv
  <1>7. CASE AnswerWallet
    <2>1. /\ Proceed(Answer, qty) /\ qty \in LegType /\ UNCHANGED <<vars, env>>
          /\ up => up'
      BY <1>7 DEF AnswerWallet, Answer, Proceed, RestoreTypeOK, TypeOK, LegType
    <2>2. CASE up
      BY <2>1, <2>2 DEF BootInv
    <2>3. CASE ~up
      <3>1. Covered(Answer, qty) /\ \A l \in Answer.legs : Reserved(Answer, l)
        BY <1>7, <2>3, AnswerCovers
      <3>2. UNCHANGED <<wallet, op, unbooked, uncredited, qty>> /\ \A m \in Markets : qty[m]["satellite"] = 0
        BY <2>1 DEF vars, NoSatellites
      <3> QED BY <2>1, <2>3, <3>1, <3>2, AnswerType, ProceedCovers
    <2> QED BY <2>2, <2>3
  <1>8. CASE MissWallet
    <2>1. UNCHANGED vars /\ up' /\ restore.at # "leg"
      BY <1>8 DEF MissWallet
    <2>2. ASSUME ~up, NEW m \in Markets PROVE Tracked(m)' + uncredited'[m] <= wallet'[m]
      <3>1. /\ \A k \in Kinds : unbooked[m][k] = 0 /\ qty[m][k] = 0
            /\ uncredited[m] = 0 /\ wallet[m] \in Nat
        BY <2>1, <2>2 DEF BootInv, NoLegs, NoSatellites, RestoreTypeOK, TypeOK
      <3>2. Tracked(m)' = 0
        BY <2>1, <3>1 DEF Tracked, Held, Kinds, vars
      <3> QED BY <2>1, <3>1, <3>2 DEF vars
    <2> QED BY <2>1, <2>2 DEF BootInv, Backed
  <1>9. CASE AdoptLeg
    <2>1. Proceed(Adopted, qty') /\ qty' \in LegType /\ Adopted \in RestoreType
      BY <1>9, AdoptFacts, AdoptedType
    <2>2. CASE up
      <3>1. up'
        BY <2>1, <2>2 DEF Proceed
      <3> QED BY <2>2, <3>1 DEF BootInv
    <2>3. CASE ~up
      <3>1. Covered(Adopted, qty') /\ \A l \in Adopted.legs : Reserved(Adopted, l)
        BY <1>9, <2>3, AdoptCovers
      <3>2. UNCHANGED <<wallet, op, unbooked, uncredited>> /\ \A m \in Markets : qty'[m]["satellite"] = 0
        BY <1>9 DEF AdoptLeg, satelliteBuy, NoSatellites
      <3> QED BY <2>1, <2>3, <3>1, <3>2, ProceedCovers
    <2> QED BY <2>2, <2>3
  <1>10. CASE MissLeg
    <2>1. /\ Proceed(restore, qty) /\ qty \in LegType /\ UNCHANGED <<vars, env>> /\ restore.at = "leg"
          /\ restore \in RestoreType
      BY <1>10 DEF MissLeg, RestoreTypeOK, TypeOK, LegType
    <2>2. CASE up
      <3>1. up'
        BY <2>1, <2>2 DEF Proceed
      <3> QED BY <2>2, <3>1 DEF BootInv
    <2>3. CASE ~up
      <3>1. Covered(restore, qty) /\ \A l \in restore.legs : Reserved(restore, l)
        BY <2>1, <2>3 DEF BootInv
      <3>2. UNCHANGED <<wallet, op, unbooked, uncredited, qty>> /\ \A m \in Markets : qty[m]["satellite"] = 0
        BY <2>1 DEF vars, NoSatellites
      <3> QED BY <2>1, <2>3, <3>1, <3>2, ProceedCovers
    <2> QED BY <2>2, <2>3
  <1>11. CASE Crash
    <2>1. /\ ~up' /\ restore' = Idle /\ qty' = NoLegs
          /\ \A c \in Callers : op'[c] = NoCall
          /\ \A m \in Markets, k \in Kinds : unbooked'[m][k] = 0
      BY <1>11 DEF Crash, NoLegs
    <2> QED BY <2>1, NoLegsType DEF BootInv
  <1>12. CASE UNCHANGED restoreVars
    <2>1. BootInv'
      BY <1>12 DEF BootInv, Covered, Reserved, restoreVars, vars
    <2> QED BY <1>12, <2>1 DEF restoreVars
  <1> QED BY <1>1, <1>2, <1>3, <1>4, <1>5, <1>6, <1>7, <1>8, <1>9, <1>10, <1>11, <1>12 DEF RestoreNext

(* The boot restore reconciles the memory with the exchange (restorePositionsFromExchange *)
(* and calcCoreClaims): wherever the process died, whatever answers, reads and sales it    *)
(* lost before and whatever reads the restore loses, no leg then believes in coins the      *)
(* wallet does not hold, for any coins, callers and lots.  The satellites are off, as       *)
(* shipped: two saved legs of a coin are each clamped to the whole balance.                  *)
THEOREM BootsReconcile ==
  ASSUME \A e \in Environments : ~e.satellites
  PROVE  RestoreSpec => BootReconciles
  <1> DEFINE Inv == RestoreTypeOK /\ NoSatellites /\ BootInv
  <1>1. RestoreInit => Inv
    BY KeepInit, BootInit
  <1>2. Inv /\ [RestoreNext]_restoreVars => Inv' /\ [~up /\ up' => Backed']_restoreVars
    <2> SUFFICES ASSUME Inv, [RestoreNext]_restoreVars PROVE Inv' /\ (~up /\ up' => Backed')
      OBVIOUS
    <2>1. RestoreTypeOK' /\ ~env.satellites
      BY RestoreTypeStep DEF RestoreTypeOK
    <2>2. NoSatellites'
      BY <2>1, NoSatellitesStep
    <2> QED BY <2>1, <2>2, BootStep
  <1> QED BY <1>1, <1>2, PTL DEF RestoreSpec, BootReconciles
=============================================================================
