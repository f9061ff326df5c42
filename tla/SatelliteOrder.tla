---------------------------- MODULE SatelliteOrder ----------------------------
(***************************************************************************)
(* The life of a satellite leg in src/src/executor/liveTrader.js: a GTC buy   *)
(* rests on the book and is polled by satelliteTick, its fills become a        *)
(* position, the position exits. Two files, position_state.json and             *)
(* satellite_orders.json, carry it over a restart. One key, its own coins.       *)
(***************************************************************************)
EXTENDS Integers

CONSTANTS
  Orders,      \* order ids, 1 .. n, in the order they are placed
  MaxQty,      \* the largest order, in lots
  MinOrder,    \* FALLBACK_MIN_NOTIONAL: the smallest order placed
  Floor,       \* the exchange's own order floor, and MIN_RESTORE_NOTIONAL
  MaxSatCrashes, \* bound on the crashes
  SatFaults    \* a subset of AllSatFaults

\* poll:     an order request of a poll may fail after its retries.
\* betweenFiles: the process may die between the two saves of one fill.
\* ack:      the answer to the placement may be lost (a timeout, a crash).
\* sale:     a sale may execute and its answer be lost.
\* midSale:  the process may die between a sale and its booking.
AllSatFaults == {"poll", "betweenFiles", "ack", "sale", "midSale"}

ASSUME SatelliteAssumption ==
  /\ Orders \subseteq Nat \ {0} /\ 0 \notin Orders
  /\ MaxQty \in Nat /\ MaxSatCrashes \in Nat
  /\ Floor \in Nat \ {0} /\ MinOrder \in Nat /\ MinOrder >= Floor
  /\ SatFaults \subseteq AllSatFaults

VARIABLES
  book,       \* the exchange's record of each order
  coins,      \* the free coins of the leg on the exchange
  pend,       \* this.pendingSatellite.get(key)
  pos,        \* this.positions.get(key)
  orderFile,  \* satellite_orders.json
  posFile,    \* position_state.json
  placing,    \* the order whose placement has not been answered, 0 = none
  tick,       \* the satelliteTick in flight
  late,       \* now >= validUntil
  up,         \* the process is running
  dies,       \* crashes so far
  credited    \* auxiliary: what polls have credited of each order

satVars == <<book, coins, pend, pos, orderFile, posFile, placing, tick, late, up, dies, credited>>

NoResting == [id |-> 0, filled |-> 0, exit |-> FALSE]
NoPos   == [qty |-> 0, id |-> 0, filled |-> 0, exit |-> FALSE]
NoTick  == [at |-> "idle", closing |-> FALSE, status |-> "none", filled |-> 0, want |-> 0, sold |-> 0]

Steps == {"idle", "status", "cancel", "reread", "credit", "settle", "decide", "mark", "sell", "rest", "book"}

Smaller(a, b) == IF a <= b THEN a ELSE b
Larger(a, b)  == IF a >= b THEN a ELSE b

SatInit ==
  /\ book = [o \in Orders |-> [status |-> "none", qty |-> 0, filled |-> 0]]
  /\ coins = 0
  /\ pend = NoResting /\ orderFile = NoResting
  /\ pos = NoPos /\ posFile = NoPos
  /\ placing = 0
  /\ tick = NoTick
  /\ late = FALSE
  /\ up = TRUE
  /\ dies = 0
  /\ credited = [o \in Orders |-> 0]

satMemory == <<pend, pos>>
satFiles  == <<orderFile, posFile>>
satProcess == <<up, dies>>

-------------------------------------------------------------------------------
(* Placing the order.                                                        *)

\* placeSatelliteOrder: no position and no resting order on the key; createOrder.
PlaceOrder(o, q) ==
  /\ up /\ pos = NoPos /\ pend = NoResting /\ placing = 0
  /\ book[o].status = "none" /\ \A p \in Orders : p < o => book[p].status # "none"
  /\ book' = [book EXCEPT ![o] = [status |-> "open", qty |-> q, filled |-> 0]]
  /\ placing' = o
  /\ UNCHANGED <<coins, satMemory, satFiles, tick, late, satProcess, credited>>

\* createOrder answers: the order is pending, and saved.
AckOrder ==
  /\ placing # 0
  /\ pend' = [NoResting EXCEPT !.id = placing]
  /\ orderFile' = pend'
  /\ placing' = 0 /\ late' = FALSE
  /\ UNCHANGED <<book, coins, pos, posFile, tick, satProcess, credited>>

\* createOrder times out although the order rests: the catch returns null.
LoseAck ==
  /\ "ack" \in SatFaults
  /\ placing # 0 /\ placing' = 0
  /\ UNCHANGED <<book, coins, satMemory, satFiles, tick, late, satProcess, credited>>

\* validUntil passes.
Expire ==
  /\ up /\ pend # NoResting /\ ~late /\ late' = TRUE
  /\ UNCHANGED <<book, coins, satMemory, satFiles, placing, tick, satProcess, credited>>

\* The exchange fills a part of an order, or its rest.
FillOrder(o, f) ==
  /\ book[o].status = "open" /\ book[o].filled + f <= book[o].qty
  /\ book' = [book EXCEPT ![o].filled = @ + f,
                          ![o].status = IF book[o].filled + f = book[o].qty THEN "closed" ELSE @]
  /\ coins' = coins + f
  /\ UNCHANGED <<satMemory, satFiles, placing, tick, late, satProcess, credited>>

-------------------------------------------------------------------------------
(* A tick: poll the order, decide on the position, sell it.                   *)

Goto(step) == tick' = [tick EXCEPT !.at = step]

\* The risk loop calls satelliteTick for a key with an order or a position.
BeginTick ==
  /\ up /\ tick.at = "idle"
  /\ pend # NoResting \/ pos # NoPos
  /\ tick' = [NoTick EXCEPT !.at = IF pend # NoResting THEN "status" ELSE "decide"]
  /\ UNCHANGED <<book, coins, satMemory, satFiles, placing, late, satProcess, credited>>

\* After a poll the tick decides on the position, or sells it if the exit is decided.
AfterPoll == IF tick.closing THEN "sell" ELSE "decide"

Saw(step) == tick' = [tick EXCEPT !.at = step, !.status = book[pend.id].status, !.filled = book[pend.id].filled]

\* fetchOrderStatus; an order still open is cancelled when the leg exits or has expired.
ReadOrder ==
  /\ tick.at = "status"
  /\ Saw(IF book[pend.id].status = "open" /\ (tick.closing \/ pend.exit \/ late) THEN "cancel" ELSE "credit")
  /\ UNCHANGED <<book, coins, satMemory, satFiles, placing, late, satProcess, credited>>

\* Mutant of CancelOrder: the order is not read again after the cancel.
CancelWithoutReread ==
  /\ tick.at = "cancel"
  /\ book' = [book EXCEPT ![pend.id].status = IF @ = "open" THEN "canceled" ELSE @]
  /\ tick' = [tick EXCEPT !.at = "credit", !.status = "canceled"]
  /\ UNCHANGED <<coins, satMemory, satFiles, placing, late, satProcess, credited>>

CancelOrder ==
  /\ tick.at = "cancel"
  /\ book' = [book EXCEPT ![pend.id].status = IF @ = "open" THEN "canceled" ELSE @]
  /\ Goto("reread")
  /\ UNCHANGED <<coins, satMemory, satFiles, placing, late, satProcess, credited>>

\* A cancel that fails is followed by the same re-read.
FailCancel ==
  /\ "poll" \in SatFaults
  /\ tick.at = "cancel" /\ Goto("reread")
  /\ UNCHANGED <<book, coins, satMemory, satFiles, placing, late, satProcess, credited>>

Reread ==
  /\ tick.at = "reread" /\ Saw("credit")
  /\ UNCHANGED <<book, coins, satMemory, satFiles, placing, late, satProcess, credited>>

\* fetchOrderStatus throws: the poll changes nothing, the tick goes on without it.
FailPoll ==
  /\ "poll" \in SatFaults
  /\ tick.at \in {"status", "reread"} /\ Goto(AfterPoll)
  /\ UNCHANGED <<book, coins, satMemory, satFiles, placing, late, satProcess, credited>>

\* What earlier polls have credited, by the order or by the position.
Accounted == Larger(pend.filled, pos.filled)

\* The new fills join the position, which is saved first.
CreditFill ==
  /\ tick.at = "credit"
  /\ LET filled == Larger(Accounted, tick.filled)
         added  == filled - Accounted
     IN  /\ pos' = IF added = 0 THEN pos
                   ELSE [qty |-> pos.qty + added, id |-> pend.id, filled |-> filled, exit |-> pend.exit \/ pos.exit]
         /\ posFile' = IF added = 0 THEN posFile ELSE pos'
         /\ credited' = [credited EXCEPT ![pend.id] = @ + added]
  /\ Goto("settle")
  /\ UNCHANGED <<book, coins, pend, orderFile, placing, late, satProcess>>

\* The order remembers the fill, or is forgotten when it is off the book; it is saved.
SettleOrder ==
  /\ tick.at = "settle"
  /\ pend' = IF tick.status # "open" THEN NoResting ELSE [pend EXCEPT !.filled = Larger(Accounted, tick.filled)]
  /\ orderFile' = pend'
  /\ Goto(AfterPoll)
  /\ UNCHANGED <<book, coins, pos, posFile, placing, late, satProcess, credited>>

\* No position, or no exit: the tick ends. stepSatellitePosition decides on the price.
Hold ==
  /\ tick.at = "decide" /\ ~pos.exit
  /\ tick' = NoTick
  /\ UNCHANGED <<book, coins, satMemory, satFiles, placing, late, satProcess, credited>>

\* Mutant of DecideExit: the decision stays in memory.
DecideExitUnsaved ==
  /\ tick.at = "decide" /\ pos # NoPos
  /\ pos' = [pos EXCEPT !.exit = TRUE]
  /\ Goto("mark")
  /\ UNCHANGED <<book, coins, pend, posFile, orderFile, placing, late, satProcess, credited>>

\* An exit, decided now or by an earlier tick, is saved with the position.
DecideExit ==
  /\ tick.at = "decide" /\ pos # NoPos
  /\ pos' = [pos EXCEPT !.exit = TRUE]
  /\ posFile' = pos'
  /\ Goto("mark")
  /\ UNCHANGED <<book, coins, pend, orderFile, placing, late, satProcess, credited>>

\* Mutant of MarkOrder: the leg is sold, its order rests on.
MarkNothing ==
  /\ tick.at = "mark"
  /\ tick' = [tick EXCEPT !.at = "sell", !.closing = TRUE]
  /\ UNCHANGED <<book, coins, satMemory, satFiles, placing, late, satProcess, credited>>

\* An order still resting learns of the exit, and is polled again with a cancel.
MarkOrder ==
  /\ tick.at = "mark"
  /\ pend' = IF pend = NoResting THEN pend ELSE [pend EXCEPT !.exit = TRUE]
  /\ orderFile' = IF pend = NoResting THEN orderFile ELSE pend'
  /\ tick' = [tick EXCEPT !.at = IF pend = NoResting THEN "sell" ELSE "status", !.closing = TRUE]
  /\ UNCHANGED <<book, coins, pos, posFile, placing, late, satProcess, credited>>

\* The balance answer caps the sell; a zero balance or a failed read does not.
Sizes == {IF coins > 0 THEN Smaller(coins, pos.qty) ELSE pos.qty, pos.qty}

Accepted(q) == q >= Floor /\ q <= coins

\* #sellSatellite: the IOC limit sell.
SellLimit ==
  /\ tick.at = "sell"
  /\ \E q \in Sizes : Accepted(q) /\ \E f \in 0 .. q :
       /\ coins' = coins - f
       /\ tick' = [tick EXCEPT !.want = q, !.sold = f, !.at = IF q - f >= Floor THEN "rest" ELSE "book"]
  /\ UNCHANGED <<book, satMemory, satFiles, placing, late, satProcess, credited>>

\* createOrder throws and nothing was sold: retried at the next tick.
FailSell ==
  /\ tick.at = "sell"
  /\ tick' = NoTick
  /\ UNCHANGED <<book, coins, satMemory, satFiles, placing, late, satProcess, credited>>

\* createOrder executes and throws, its answer is lost: the leg stays whole, and its next sell is
\* of the coins that are left. With none left its whole quantity is refused at every tick.
LoseSale ==
  /\ "sale" \in SatFaults
  /\ tick.at = "sell" /\ tick' = NoTick
  /\ \E q \in Sizes : Accepted(q) /\ \E f \in 1 .. q : coins' = coins - f
  /\ UNCHANGED <<book, satMemory, satFiles, placing, late, satProcess, credited>>

\* The rest goes to market, or stays.
SellRest ==
  /\ tick.at = "rest"
  /\ \E f \in 0 .. tick.want - tick.sold :
       /\ coins' = coins - f
       /\ tick' = [tick EXCEPT !.sold = @ + f, !.at = "book"]
  /\ UNCHANGED <<book, satMemory, satFiles, placing, late, satProcess, credited>>

\* The market order executes, its answer is lost: what it sold is not counted.
LoseRest ==
  /\ "sale" \in SatFaults
  /\ tick.at = "rest" /\ Goto("book")
  /\ \E f \in 1 .. tick.want - tick.sold : coins' = coins - f
  /\ UNCHANGED <<book, satMemory, satFiles, placing, late, satProcess, credited>>

\* The position keeps what an order can still sell, and is gone otherwise.
BookSale ==
  /\ tick.at = "book"
  /\ pos' = IF tick.sold = 0 THEN pos
            ELSE IF tick.want - tick.sold >= Floor THEN [pos EXCEPT !.qty = @ - tick.sold] ELSE NoPos
  /\ posFile' = IF tick.sold = 0 THEN posFile ELSE pos'
  /\ tick' = NoTick
  /\ UNCHANGED <<book, coins, pend, orderFile, placing, late, satProcess, credited>>

-------------------------------------------------------------------------------
(* Crash and restart.                                                        *)

\* The process dies: what its files and the exchange hold is what is left.
SatCrash ==
  /\ up /\ dies < MaxSatCrashes
  /\ tick.at = "settle" => "betweenFiles" \in SatFaults
  /\ tick.sold > 0 => "midSale" \in SatFaults
  /\ placing # 0 => "ack" \in SatFaults
  /\ up' = FALSE /\ dies' = dies + 1
  /\ pend' = NoResting /\ pos' = NoPos /\ placing' = 0 /\ tick' = NoTick
  /\ UNCHANGED <<book, coins, satFiles, late, credited>>

\* restorePositionsFromExchange: the saved leg, clamped to the free coins.
Restored == LET q == Smaller(posFile.qty, coins)
            IN  IF q < Floor THEN NoPos ELSE [posFile EXCEPT !.qty = q]

\* The constructor loads the orders, then the legs are restored.
Boot ==
  /\ ~up /\ up' = TRUE
  /\ pend' = orderFile
  /\ pos' = Restored
  /\ posFile' = IF pos' = NoPos THEN posFile ELSE pos'
  /\ UNCHANGED <<book, coins, orderFile, placing, tick, late, dies, credited>>

Poll == ReadOrder \/ CancelOrder \/ FailCancel \/ Reread \/ FailPoll \/ CreditFill \/ SettleOrder
Exit == Hold \/ DecideExit \/ MarkOrder \/ SellLimit \/ FailSell \/ LoseSale \/ SellRest \/ LoseRest \/ BookSale

SatNext ==
  \/ \E o \in Orders, q \in MinOrder .. MaxQty : PlaceOrder(o, q)
  \/ AckOrder \/ LoseAck \/ Expire
  \/ \E o \in Orders, f \in 1 .. MaxQty : FillOrder(o, f)
  \/ BeginTick \/ Poll \/ Exit
  \/ SatCrash \/ Boot

SatSpec == SatInit /\ [][SatNext]_satVars

\* The limit sell fills in full.
SellAll == SellLimit /\ tick'.sold = tick'.want

\* The risk loop ticks every two minutes and a tick's requests settle; a process that died
\* is restarted (docker's restart policy); requests that keep being retried succeed at
\* some point, and so does a limit sell.
SatFairSpec ==
  /\ SatSpec
  /\ WF_satVars(AckOrder) /\ WF_satVars(Boot)
  /\ WF_satVars(BeginTick) /\ WF_satVars(Poll \/ Exit)
  /\ SF_satVars(ReadOrder) /\ SF_satVars(CancelOrder) /\ SF_satVars(Reread) /\ SF_satVars(SellAll)

-------------------------------------------------------------------------------
(* Properties.                                                               *)

Ledger == INSTANCE OrderLedger WITH
  resting  <- {o \in Orders : book[o].status = "open"},
  filled   <- [o \in Orders |-> book[o].filled],
  watched  <- {orderFile.id} \ {0}

(* Every fill is credited to a position exactly once, over polls that race with the     *)
(* book, cancels that fail and restarts, and an order is forgotten only when it is off   *)
(* the book and fully credited ("Re-read after cancelling: more of the buy may fill      *)
(* while cancellation is in flight").                                                    *)
FillsCreditedOnce == Ledger!LedgerSpec

\* The leg is exiting: by its position or its order, in memory or in the files.
Exiting == IF up THEN pos.exit \/ pend.exit ELSE posFile.exit \/ orderFile.exit

(* satelliteExitReason, exitReason: an exit that was decided is never taken back, by a   *)
(* later fill, a failed sell or a restart, until the leg and its order are gone.          *)
ExitSticks == [][Exiting => Exiting' \/ (up' /\ pos' = NoPos /\ pend' = NoResting)]_satVars

(* "retrying next tick": a leg that has to exit ends sold, with its order off the book.   *)
(* Where the answer to its sale was lost, it is sold for the exchange only: the bot keeps   *)
(* the leg, with fewer coins behind it than an order takes, until a restart drops it.        *)
ExitCompletes == pos.exit ~> ((pos = NoPos \/ coins < Floor) /\ pend = NoResting)

===============================================================================
