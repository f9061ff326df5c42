------------------------------ MODULE LiveTrader ------------------------------
(***************************************************************************)
(* The order path of src/src/executor/liveTrader.js: the legs of a market   *)
(* share one fungible wallet, the calls on them are async functions that     *)
(* interleave at every await, and a market lock (#withMarketLock) or a       *)
(* per-leg guard (satelliteChecks) is all that keeps them apart.             *)
(*                                                                           *)
(* One price, so a quantity is also its notional: every amount below is a    *)
(* number of lots, and Floor and MinOrder are notionals in lots.             *)
(***************************************************************************)
EXTENDS Integers, FiniteSets

CONSTANTS
  Markets,           \* base assets, one wallet balance each
  NoMarket,          \* the market of a caller with no call in flight
  Callers,           \* concurrent calls into the trader (cycle, risk loop, dashboard)
  MaxOrder,          \* the largest buy, in lots
  MaxLeg,            \* bound: a leg is not grown past this
  MaxWallet,         \* bound: no buy or placement that could lift a balance past this
  Floor,             \* the exchange's own order floor (#sellFloor)
  MinOrder,          \* FALLBACK_MIN_NOTIONAL, the bot's floor for the orders it sizes
  MaxOpenPositions,  \* config.risk.maxOpenPositions
  Faults             \* the exchange faults that may occur, a subset of AllFaults

\* readAfterSale: the balance read that follows a sale fails after its retries.
\* lostAck:       createOrder executes and its answer is lost (a timeout).
AllFaults == {"readAfterSale", "lostAck"}

ASSUME SizesAssumption ==
  /\ MaxOrder \in Nat /\ MaxLeg \in Nat /\ MaxWallet \in Nat /\ MaxOpenPositions \in Nat
  /\ Floor \in Nat \ {0}
  /\ MinOrder \in Nat /\ MinOrder >= Floor

ASSUME NoMarketAssumption == NoMarket \notin Markets

ASSUME FaultsAssumption == Faults \subseteq AllFaults

VARIABLES
  wallet,      \* free balance of each base asset on the exchange
  qty,         \* this.positions: tracked quantity of each leg, 0 = no entry
  pending,     \* this.pendingSatellite: markets with a satellite buy known to the bot
  resting,     \* lots of that buy still on the book
  uncredited,  \* lots of that buy filled on the exchange, not yet credited by a poll
  busy,        \* this.#busyMarkets
  checks,      \* this.satelliteChecks
  op,          \* the call each caller is suspended in
  unbooked,    \* auxiliary: lots an in-flight call has sold and not yet booked
  faults       \* auxiliary: the faults of this behaviour's exchange

vars == <<wallet, qty, pending, resting, uncredited, busy, checks, op, unbooked, faults>>

-------------------------------------------------------------------------------
(* Legs and calls.                                                           *)

Kinds == {"scalper", "core", "satellite"}   \* 'SYM', 'SYM#core', 'SYM#bo'

Buys      == {"open", "grow"}
Sells     == {"close", "trim", "partial", "satsell"}
Locked    == Buys \cup {"close", "trim", "partial"}   \* run under #withMarketLock
Guarded   == {"satsell"}                              \* runs under satelliteChecks

\* A suspended call: what it does, on which leg, the await it is at, the quantity it
\* wants to trade and the quantity the exchange has filled so far.
Call == [kind: Buys \cup Sells, market: Markets, leg: Kinds,
         step: {"free", "order", "rest", "book"}, want: Nat, filled: Nat]

NoCall == [kind |-> "none", market |-> NoMarket, leg |-> "scalper",
           step |-> "free", want |-> 0, filled |-> 0]

Smaller(a, b) == IF a <= b THEN a ELSE b

\* What a leg really holds: its tracked quantity less what its call has already sold.
Held(m, k) == qty[m][k] - unbooked[m][k]

Tracked(m) == Held(m, "scalper") + Held(m, "core") + Held(m, "satellite")

Scalpers == {m \in Markets : qty[m]["scalper"] > 0}

TypeOK ==
  /\ wallet \in [Markets -> Nat]
  /\ qty \in [Markets -> [Kinds -> Nat]]
  /\ pending \subseteq Markets
  /\ resting \in [Markets -> Nat]
  /\ uncredited \in [Markets -> Nat]
  /\ busy \subseteq Markets
  /\ checks \subseteq Markets
  /\ op \in [Callers -> Call \cup {NoCall}]
  /\ unbooked \in [Markets -> [Kinds -> Nat]]

Init ==
  /\ wallet = [m \in Markets |-> 0]
  /\ qty = [m \in Markets |-> [k \in Kinds |-> 0]]
  /\ pending = {}
  /\ resting = [m \in Markets |-> 0]
  /\ uncredited = [m \in Markets |-> 0]
  /\ busy = {}
  /\ checks = {}
  /\ op = [c \in Callers |-> NoCall]
  /\ unbooked = [m \in Markets |-> [k \in Kinds |-> 0]]
  /\ faults \in {{}, Faults}

-------------------------------------------------------------------------------
(* Entering and leaving a call.                                              *)

\* Mutant of TakeLock: the lock is taken without asking who holds it.
TakeLockUnchecked(m) == busy' = busy \cup {m} /\ UNCHANGED checks

\* #withMarketLock: a call on a market that has one in flight is skipped.
TakeLock(m) == m \notin busy /\ busy' = busy \cup {m} /\ UNCHANGED checks

\* satelliteTick: one tick per satellite leg at a time, whatever the market lock says.
TakeGuard(m) == m \notin checks /\ checks' = checks \cup {m} /\ UNCHANGED busy

Suspend(c, kind, m, leg, step, want) ==
  /\ op[c] = NoCall
  /\ op' = [op EXCEPT ![c] = [kind |-> kind, market |-> m, leg |-> leg, step |-> step,
                              want |-> want, filled |-> 0]]

\* The call returns, by its result or by an exception: the finally blocks release the
\* lock or the guard, and a sale nobody booked is forgotten.
Return(c) ==
  /\ op' = [op EXCEPT ![c] = NoCall]
  /\ busy' = IF op[c].kind \in Locked THEN busy \ {op[c].market} ELSE busy
  /\ checks' = IF op[c].kind \in Guarded THEN checks \ {op[c].market} ELSE checks
  /\ unbooked' = [unbooked EXCEPT ![op[c].market][op[c].leg] = 0]

satelliteBuy == <<pending, resting, uncredited>>

-------------------------------------------------------------------------------
(* Starting a call.                                                          *)

\* #openPosition: no leg yet and a free slot, both read before the first await.
OpenScalper(c, m, q) ==
  /\ qty[m]["scalper"] = 0
  /\ Cardinality(Scalpers) < MaxOpenPositions
  /\ TakeLock(m)
  /\ Suspend(c, "open", m, "scalper", "order", q)
  /\ UNCHANGED <<wallet, qty, satelliteBuy, unbooked>>

\* openCorePosition: the sleeve has its own budget and takes no slot.
OpenCore(c, m, q) ==
  /\ qty[m]["core"] = 0
  /\ TakeLock(m)
  /\ Suspend(c, "open", m, "core", "order", q)
  /\ UNCHANGED <<wallet, qty, satelliteBuy, unbooked>>

\* resizeCorePosition, a positive delta.
GrowCore(c, m, q) ==
  /\ qty[m]["core"] > 0
  /\ TakeLock(m)
  /\ Suspend(c, "grow", m, "core", "order", q)
  /\ UNCHANGED <<wallet, qty, satelliteBuy, unbooked>>

\* resizeCorePosition, a negative delta.
TrimCore(c, m, q) ==
  /\ qty[m]["core"] > 0
  /\ TakeLock(m)
  /\ Suspend(c, "trim", m, "core", "free", Smaller(q, qty[m]["core"]))
  /\ UNCHANGED <<wallet, qty, satelliteBuy, unbooked>>

\* #closePosition: a stop, a strategy sell, a vote flip or a manual close.
Close(c, m, leg) ==
  /\ leg # "satellite"
  /\ qty[m][leg] > 0
  /\ TakeLock(m)
  /\ Suspend(c, "close", m, leg, "free", qty[m][leg])
  /\ UNCHANGED <<wallet, qty, satelliteBuy, unbooked>>

\* #partialClose: half the leg, when half is neither nothing nor everything.
PartialClose(c, m) ==
  /\ qty[m]["scalper"] \div 2 > 0
  /\ TakeLock(m)
  /\ Suspend(c, "partial", m, "scalper", "free", qty[m]["scalper"] \div 2)
  /\ UNCHANGED <<wallet, qty, satelliteBuy, unbooked>>

\* satelliteTick past its exit decision: #sellSatellite, outside the market lock.
SellSatellite(c, m) ==
  /\ qty[m]["satellite"] > 0
  /\ TakeGuard(m)
  /\ Suspend(c, "satsell", m, "satellite", "free", qty[m]["satellite"])
  /\ UNCHANGED <<wallet, qty, satelliteBuy, unbooked>>

Start(c) ==
  \E m \in Markets :
    \/ \E q \in MinOrder .. MaxOrder : OpenScalper(c, m, q) \/ OpenCore(c, m, q) \/ GrowCore(c, m, q)
    \/ \E q \in 1 .. MaxLeg : TrimCore(c, m, q)
    \/ \E leg \in Kinds : Close(c, m, leg)
    \/ PartialClose(c, m)
    \/ SellSatellite(c, m)

-------------------------------------------------------------------------------
(* A buy: #limitBuy, then the leg is set or grown.                           *)

\* The exchange fills an IOC limit buy in full, in part or not at all.
LimitBuy(c) ==
  /\ op[c].kind \in Buys /\ op[c].step = "order"
  /\ \E f \in 0 .. op[c].want :
       /\ wallet[op[c].market] + f <= MaxWallet
       /\ op[c].kind = "grow" => qty[op[c].market]["core"] + f <= MaxLeg
       /\ wallet' = [wallet EXCEPT ![op[c].market] = @ + f]
       /\ op' = [op EXCEPT ![c].filled = f, ![c].step = "book"]
  /\ UNCHANGED <<qty, satelliteBuy, busy, checks, unbooked>>

\* The order executed and createOrder timed out: the catch returns null, untracked.
LostBuy(c) ==
  /\ "lostAck" \in faults
  /\ op[c].kind \in Buys /\ op[c].step = "order"
  /\ \E f \in 1 .. op[c].want :
       /\ wallet[op[c].market] + f <= MaxWallet
       /\ wallet' = [wallet EXCEPT ![op[c].market] = @ + f]
  /\ Return(c)
  /\ UNCHANGED <<qty, satelliteBuy>>

\* Mutant of BookBuy: the leg gets what was ordered, not what filled.
BookBuyWanted(c) ==
  /\ op[c].kind \in Buys /\ op[c].step = "book"
  /\ qty' = IF op[c].filled < Floor THEN qty
            ELSE [qty EXCEPT ![op[c].market][op[c].leg] = @ + op[c].want]
  /\ Return(c)
  /\ UNCHANGED <<wallet, satelliteBuy>>

\* Nothing filled, or a part fill no order could sell: no leg. A grow keeps any fill.
BookBuy(c) ==
  /\ op[c].kind \in Buys /\ op[c].step = "book"
  /\ qty' = IF op[c].kind = "open" /\ op[c].filled < Floor THEN qty
            ELSE [qty EXCEPT ![op[c].market][op[c].leg] =
                    IF op[c].kind = "open" THEN op[c].filled ELSE @ + op[c].filled]
  /\ Return(c)
  /\ UNCHANGED <<wallet, satelliteBuy>>

-------------------------------------------------------------------------------
(* A sale: read the free balance, #limitSell, its market fallback, book it.  *)

\* Mutant of SellSize: an exit sells the free balance of the asset.
SellSizeOfWallet(o, free) == IF free > 0 THEN free ELSE o.want

\* What the balance answer leaves of the wanted quantity: a close, a partial and a
\* satellite sell ignore a zero balance; a trim does not.
SellSize(o, free) ==
  IF o.kind = "trim" \/ free > 0 THEN Smaller(free, o.want) ELSE o.want

\* The size is set; the trim and the partial drop an order under the bot's floor, and a
\* trim of everything becomes a close under the lock it already holds.
Sized(c, size) ==
  IF op[c].kind \in {"trim", "partial"} /\ size < MinOrder
  THEN Return(c)
  ELSE /\ op' = IF op[c].kind = "trim" /\ size >= qty[op[c].market]["core"]
                THEN [op EXCEPT ![c].kind = "close", ![c].want = qty[op[c].market]["core"]]
                ELSE [op EXCEPT ![c].step = "order", ![c].want = size]
       /\ UNCHANGED <<busy, checks, unbooked>>

ReadFree(c) ==
  /\ op[c].kind \in Sells /\ op[c].step = "free"
  /\ \/ Sized(c, SellSize(op[c], wallet[op[c].market]))
     \/ Sized(c, op[c].want)   \* the read failed: the stored quantity
  /\ UNCHANGED <<wallet, qty, satelliteBuy>>

\* The exchange takes a sell no larger than the balance and not under its floor.
Accepted(m, q) == q <= wallet[m] /\ q >= Floor

\* f lots of the call's leg leave the wallet.
Execute(c, f) ==
  /\ wallet' = [wallet EXCEPT ![op[c].market] = @ - f]
  /\ unbooked' = [unbooked EXCEPT ![op[c].market][op[c].leg] = @ + f]

\* The IOC limit sell; a rest over the floor goes to market next.
LimitSell(c) ==
  /\ op[c].kind \in Sells /\ op[c].step = "order"
  /\ Accepted(op[c].market, op[c].want)
  /\ \E f \in 0 .. op[c].want :
       /\ Execute(c, f)
       /\ op' = [op EXCEPT ![c].filled = f,
                           ![c].step = IF op[c].want - f >= Floor THEN "rest" ELSE "book"]
  /\ UNCHANGED <<qty, satelliteBuy, busy, checks>>

\* Mutant of FailOrder: an order that is refused is sent again, the lock held meanwhile.
FailOrderRetrying(c) ==
  /\ op[c].kind # "none" /\ op[c].step = "order"
  /\ UNCHANGED <<wallet, qty, satelliteBuy, busy, checks, op, unbooked>>

\* createOrder throws: refused, or its answer lost with or without the order executing.
FailOrder(c) ==
  /\ op[c].kind # "none" /\ op[c].step = "order"
  /\ Return(c)
  /\ UNCHANGED <<wallet, qty, satelliteBuy>>

LostSell(c) ==
  /\ "lostAck" \in faults
  /\ op[c].kind \in Sells /\ op[c].step = "order"
  /\ Accepted(op[c].market, op[c].want)
  /\ \E f \in 1 .. op[c].want : wallet' = [wallet EXCEPT ![op[c].market] = @ - f]
  /\ Return(c)
  /\ UNCHANGED <<qty, satelliteBuy>>

\* The catastrophe fallback sells the rest at market, or fails and leaves it.
MarketSell(c) ==
  /\ op[c].kind \in Sells /\ op[c].step = "rest"
  /\ LET rest == op[c].want - op[c].filled
     IN \/ /\ Accepted(op[c].market, rest)
           /\ \E f \in 0 .. rest :
                /\ Execute(c, f)
                /\ op' = [op EXCEPT ![c].filled = @ + f, ![c].step = "book"]
        \/ /\ op' = [op EXCEPT ![c].step = "book"]
           /\ UNCHANGED <<wallet, unbooked>>
  /\ UNCHANGED <<qty, satelliteBuy, busy, checks>>

\* The fallback executed and its answer was lost: its catch books the limit fill alone.
LostRest(c) ==
  /\ "lostAck" \in faults
  /\ op[c].kind \in Sells /\ op[c].step = "rest"
  /\ Accepted(op[c].market, op[c].want - op[c].filled)
  /\ \E f \in 1 .. op[c].want - op[c].filled : wallet' = [wallet EXCEPT ![op[c].market] = @ - f]
  /\ op' = [op EXCEPT ![c].step = "book"]
  /\ UNCHANGED <<qty, satelliteBuy, busy, checks, unbooked>>

\* What the leg holds once `o` is booked: nothing filled keeps it; a close or a satellite
\* exit whose rest no order can sell drops it; anything else keeps what did not sell.
LeftAfter(o, held) ==
  IF o.kind \in {"close", "satsell"} /\ o.filled > 0 /\ o.want - o.filled < Floor THEN 0
  ELSE held - Smaller(o.filled, held)

BookSale(c) ==
  /\ op[c].kind \in Sells /\ op[c].step = "book"
  /\ qty' = [qty EXCEPT ![op[c].market][op[c].leg] = LeftAfter(op[c], @)]
  /\ Return(c)
  /\ UNCHANGED <<wallet, satelliteBuy>>

\* A close and a partial read the balance before they book: if that read fails, the
\* catch returns null and the leg keeps the quantity it just sold.
LoseSale(c) ==
  /\ "readAfterSale" \in faults
  /\ op[c].kind \in {"close", "partial"} /\ op[c].step = "book" /\ op[c].filled > 0
  /\ Return(c)
  /\ UNCHANGED <<wallet, qty, satelliteBuy>>

-------------------------------------------------------------------------------
(* The resting satellite buy (its own life is SatelliteOrder's subject).     *)

\* placeSatelliteOrder, outside the market lock.
PlaceSatellite(m, q) ==
  /\ qty[m]["satellite"] = 0 /\ m \notin pending
  /\ wallet[m] + q <= MaxWallet
  /\ pending' = pending \cup {m}
  /\ resting' = [resting EXCEPT ![m] = q]
  /\ UNCHANGED <<wallet, qty, uncredited, busy, checks, op, unbooked>>

\* The exchange fills part of the order on the book.
FillSatellite(m, f) ==
  /\ f <= resting[m] /\ wallet[m] + f <= MaxWallet
  /\ wallet' = [wallet EXCEPT ![m] = @ + f]
  /\ resting' = [resting EXCEPT ![m] = @ - f]
  /\ uncredited' = [uncredited EXCEPT ![m] = @ + f]
  /\ UNCHANGED <<qty, pending, busy, checks, op, unbooked>>

\* #pollSatelliteOrder: credit what filled; an order no longer open is forgotten, and an
\* expired one is cancelled first.
PollSatellite(m, left) ==
  /\ m \in pending /\ m \notin checks
  /\ left \in {0, resting[m]}
  /\ qty' = [qty EXCEPT ![m]["satellite"] = @ + uncredited[m]]
  /\ uncredited' = [uncredited EXCEPT ![m] = 0]
  /\ resting' = [resting EXCEPT ![m] = left]
  /\ pending' = IF left = 0 THEN pending \ {m} ELSE pending
  /\ UNCHANGED <<wallet, busy, checks, op, unbooked>>

Satellite ==
  \E m \in Markets :
    \/ \E q \in MinOrder .. MaxOrder : PlaceSatellite(m, q)
    \/ \E f \in 1 .. MaxOrder : FillSatellite(m, f)
    \/ \E left \in 0 .. MaxOrder : PollSatellite(m, left)

Resume(c) ==
  \/ LimitBuy(c) \/ BookBuy(c) \/ LostBuy(c)
  \/ ReadFree(c) \/ LimitSell(c) \/ MarketSell(c) \/ LostRest(c)
  \/ BookSale(c) \/ LoseSale(c)
  \/ FailOrder(c) \/ LostSell(c)

Next == ((\E c \in Callers : Start(c) \/ Resume(c)) \/ Satellite) /\ UNCHANGED faults

Spec == Init /\ [][Next]_vars

\* Every exchange request settles (the client's 15 s timeout), so a suspended call resumes.
FairSpec == Spec /\ \A c \in Callers : WF_vars(Resume(c) /\ UNCHANGED faults)

-------------------------------------------------------------------------------
(* Properties.                                                               *)

\* The coins the legs believe they hold, less those in-flight sales have already sold, plus
\* the fills no poll has credited, are in the wallet.
Backed == \A m \in Markets : Tracked(m) + uncredited[m] <= wallet[m]

(* The tracked quantity never runs ahead of the wallet (the comment in        *)
(* #closePositionNow), whatever calls are suspended and however their orders   *)
(* filled, when the exchange loses no answer and no read after a sale fails.   *)
TrackedBacked == faults = {} => Backed

(* #withMarketLock: a market is locked exactly while one open, close or resize *)
(* is suspended on it, so no exception path leaks a lock and no two orders of   *)
(* the scalper and the sleeve meet on one market.                              *)
OneOrderPerMarket ==
  /\ \A m \in busy : \E c \in Callers : op[c].market = m /\ op[c].kind \in Locked
  /\ \A c \in Callers : op[c].kind \in Locked => op[c].market \in busy
  /\ \A c, d \in Callers :
       op[c].kind \in Locked /\ op[d].kind \in Locked /\ op[c].market = op[d].market => c = d

\* Whatever leaves a wallet is taken from one leg that still holds it.
OwnCoinsSold ==
  faults = {} => \A m \in Markets : wallet'[m] < wallet[m] =>
    \E k \in Kinds : /\ wallet[m] - wallet'[m] <= Held(m, k)
                     /\ unbooked'[m][k] = unbooked[m][k] + (wallet[m] - wallet'[m])

(* "one exit can never sell what another exit or the sleeve owns": every lot a  *)
(* sale takes out of the wallet belongs to one leg that still holds it, when no  *)
(* answer of the exchange is lost.                                              *)
SellsItsOwnCoins == [][OwnCoinsSold]_vars

(* A locked market is released: no path out of a call keeps the lock, or every    *)
(* later order on the coin would be skipped for the life of the process.          *)
LockIsReleased == \A m \in Markets : m \in busy ~> m \notin busy

===============================================================================
