----------------------------- MODULE OrderProofs -----------------------------
(* Proofs about the orders of a coin: the satellite's (SatelliteOrder), for     *)
(* every set of orders, every order size and any number of crashes, where the   *)
(* polls keep the promise of OrderLedger, step by step, and an exit that was     *)
(* decided is not taken back; and the one a vote sends (SignalAggregator), for   *)
(* every ballot and reading of the market, which more votes never cost and a     *)
(* worse market never enlarges.                                                 *)
EXTENDS SatelliteOrder, SignalAggregator, FoldLemmas


-------------------------------------------------------------------------------
(* The values the variables take.                                            *)

OrderStatus == {"none", "open", "closed", "canceled"}
PollSteps   == {"status", "cancel", "reread", "credit", "settle"}
SaleSteps   == {"mark", "sell", "rest", "book"}

RestingType == [id : Orders \cup {0}, filled : Nat, exit : BOOLEAN]
PosType     == [qty : Nat, id : Orders \cup {0}, filled : Nat, exit : BOOLEAN]
TickType    == [at : Steps, closing : BOOLEAN, status : OrderStatus, filled : Nat, want : Nat, sold : Nat]

SatTypeOK ==
  /\ book \in [Orders -> [status : OrderStatus, qty : Nat, filled : Nat]]
  /\ coins \in Nat
  /\ pend \in RestingType /\ orderFile \in RestingType
  /\ pos \in PosType /\ posFile \in PosType
  /\ placing \in Orders \cup {0}
  /\ tick \in TickType
  /\ late \in BOOLEAN /\ up \in BOOLEAN /\ dies \in Nat
  /\ credited \in [Orders -> Nat]

\* The leg the bot holds, or will hold after its boot.
Leg == IF up THEN pos ELSE IF posFile.qty < Floor THEN NoPos ELSE posFile

\* The order the bot knows of, or is about to.
Known == IF placing # 0 THEN placing ELSE orderFile.id

\* An order not on the book yet has filled nothing; no poll credits more than was filled.
BookInv ==
  \A o \in Orders : /\ credited[o] <= book[o].filled
                    /\ book[o].status = "none" => book[o].filled = 0

\* The placement awaits with nothing on the key.
PlacingInv ==
  placing # 0 => /\ up /\ pend = NoResting /\ pos = NoPos
                 /\ book[placing].status # "none" /\ credited[placing] = 0

\* The files hold what the memory holds, but for a leg too small to be restored.
FileInv ==
  /\ up => orderFile = pend /\ (posFile = pos \/ (pos = NoPos /\ posFile.qty < Floor))
  /\ ~up => tick = NoTick
  /\ orderFile.id = 0 => orderFile = NoResting

\* A tick polls an order there is and sells a leg there is, no more than it holds.
TickInv ==
  /\ tick.at \in PollSteps => pend.id # 0
  /\ tick.at \in SaleSteps \/ tick.closing => pos.qty > 0
  /\ tick.at \in {"credit", "settle"} =>
       /\ tick.filled <= book[pend.id].filled
       /\ tick.status # "open" => book[pend.id].status # "open" /\ book[pend.id].filled = tick.filled
  /\ tick.at = "settle" => tick.filled <= credited[pend.id]
  /\ tick.at \notin {"rest", "book"} => tick.sold = 0
  /\ tick.at \in {"rest", "book"} => tick.sold <= tick.want /\ tick.want <= pos.qty
  /\ tick.at = "rest" => tick.want - tick.sold <= coins

\* What the order and the leg say was credited of it is what was.
CreditInv ==
  /\ orderFile.id # 0 =>
       /\ book[orderFile.id].status # "none"
       /\ credited[orderFile.id] =
            IF tick.at = "settle" THEN Larger(orderFile.filled, pos.filled) ELSE orderFile.filled
  /\ Leg.qty = 0 => Leg = NoPos
  /\ Leg.qty > 0 => /\ Leg.id # 0 /\ Leg.filled = credited[Leg.id]
                    /\ orderFile.id # 0 => Leg.id = orderFile.id

\* The exchange holds the coins of the leg and those not credited yet.
CoinInv ==
  LET uncredited == IF Known = 0 THEN 0 ELSE book[Known].filled - credited[Known]
  IN  coins + tick.sold >= Leg.qty + uncredited

\* A sale is answered and booked, and a fill in both files, before the process dies.
NothingHalfDone == SatFaults \cap {"betweenFiles", "sale", "midSale"} = {}

OrderInv == SatTypeOK /\ BookInv /\ PlacingInv /\ FileInv /\ TickInv /\ CreditInv /\ CoinInv

LEMMA NothingTypes ==
  /\ NoResting \in RestingType /\ NoPos \in PosType /\ NoTick \in TickType
  /\ \A o \in Orders : [NoResting EXCEPT !.id = o] \in RestingType
  /\ \A s \in Steps : [NoTick EXCEPT !.at = s] \in TickType
  BY DEF NoResting, NoPos, NoTick, RestingType, PosType, TickType, OrderStatus, Steps

LEMMA SatInitInv == SatInit => OrderInv
  <1> SUFFICES ASSUME SatInit PROVE OrderInv
    OBVIOUS
  <1>1. SatTypeOK
    BY DEF SatInit, SatTypeOK, RestingType, PosType, TickType, NoResting, NoPos, NoTick, OrderStatus, Steps
  <1>2. Leg = NoPos /\ Known = 0 /\ orderFile.id = 0
    BY DEF SatInit, Leg, Known, NoResting
  <1> QED BY <1>1, <1>2 DEF SatInit, OrderInv, BookInv, PlacingInv, FileInv, TickInv, CreditInv, CoinInv,
             NoPos, NoTick, NoResting, PollSteps, SaleSteps

-------------------------------------------------------------------------------
(* Every step keeps the variables to their values.                            *)

LEMMA SatTypeStep ==
  ASSUME OrderInv, [SatNext]_satVars
  PROVE  SatTypeOK'
  <1> USE SatelliteAssumption DEF OrderInv
  <1>1. ASSUME NEW o \in Orders, NEW q \in MinOrder .. MaxQty, PlaceOrder(o, q) PROVE SatTypeOK'
    BY <1>1 DEF PlaceOrder, SatTypeOK, OrderStatus, satMemory, satFiles, satProcess
  <1>2. CASE AckOrder \/ LoseAck \/ Expire
    <2>1. CASE AckOrder
      BY <2>1, NothingTypes DEF AckOrder, SatTypeOK, satProcess
    <2>2. CASE LoseAck \/ Expire
      BY <2>2 DEF LoseAck, Expire, SatTypeOK, satMemory, satFiles, satProcess
    <2> QED BY <1>2, <2>1, <2>2
  <1>3. ASSUME NEW o \in Orders, NEW f \in 1 .. MaxQty, FillOrder(o, f) PROVE SatTypeOK'
    <2>1. f \in Nat /\ book[o].filled + f \in Nat /\ coins + f \in Nat
      BY DEF SatTypeOK
    <2>2. PICK s \in OrderStatus : book' = [book EXCEPT ![o].filled = @ + f, ![o].status = s]
      BY <1>3 DEF FillOrder, OrderStatus, SatTypeOK
    <2>3. book' \in [Orders -> [status : OrderStatus, qty : Nat, filled : Nat]]
      BY <2>1, <2>2 DEF SatTypeOK
    <2> QED BY <1>3, <2>1, <2>3 DEF FillOrder, SatTypeOK, satMemory, satFiles, satProcess
  <1>4. CASE BeginTick
    <2>1. tick' \in TickType
      BY <1>4, NothingTypes DEF BeginTick, Steps
    <2> QED BY <1>4, <2>1 DEF BeginTick, SatTypeOK, satMemory, satFiles, satProcess
  <1>5. CASE ReadOrder \/ Reread
    <2>1. pend.id \in Orders
      BY <1>5 DEF ReadOrder, Reread, TickInv, PollSteps, SatTypeOK, RestingType
    <2>2. \E step \in Steps : Saw(step)
      BY <1>5 DEF ReadOrder, Reread, Steps
    <2>3. PICK step \in Steps : Saw(step)
      BY <2>2
    <2>4. book[pend.id].status \in OrderStatus /\ book[pend.id].filled \in Nat
      BY <2>1 DEF SatTypeOK
    <2>5. tick' \in TickType
      BY <2>3, <2>4 DEF Saw, SatTypeOK, TickType
    <2> QED BY <1>5, <2>5 DEF ReadOrder, Reread, SatTypeOK, satMemory, satFiles, satProcess
  <1>6. CASE CancelOrder \/ FailCancel \/ FailPoll
    <2>1. tick' \in TickType
      <3>1. \E step \in Steps : Goto(step)
        BY <1>6 DEF CancelOrder, FailCancel, FailPoll, AfterPoll, Steps
      <3> QED BY <3>1 DEF Goto, SatTypeOK, TickType
    <2>2. book' \in [Orders -> [status : OrderStatus, qty : Nat, filled : Nat]]
      BY <1>6 DEF CancelOrder, FailCancel, FailPoll, SatTypeOK, OrderStatus
    <2> QED BY <1>6, <2>1, <2>2 DEF CancelOrder, FailCancel, FailPoll, SatTypeOK, satMemory, satFiles, satProcess
  <1>7. CASE CreditFill
    <2>1. pend.id \in Orders
      BY <1>7 DEF CreditFill, TickInv, PollSteps, SatTypeOK, RestingType
    <2>2. Accounted \in Nat /\ Larger(Accounted, tick.filled) - Accounted \in Nat
          /\ Larger(Accounted, tick.filled) \in Nat
      BY DEF Accounted, Larger, SatTypeOK, RestingType, PosType, TickType
    <2> QED BY <1>7, <2>1, <2>2 DEF CreditFill, Goto, SatTypeOK, TickType, RestingType, PosType, Steps,
               satMemory, satFiles, satProcess
  <1>8. CASE SettleOrder
    <2>2. Larger(Accounted, tick.filled) \in Nat
      BY DEF Accounted, Larger, SatTypeOK, RestingType, PosType, TickType
    <2> QED BY <1>8, <2>2 DEF SettleOrder, Goto, AfterPoll, SatTypeOK, TickType, RestingType, NoResting, Steps, satProcess
  <1>9. CASE Hold \/ FailSell
    BY <1>9, NothingTypes DEF Hold, FailSell, SatTypeOK, satMemory, satFiles, satProcess
  <1>10. CASE DecideExit \/ MarkOrder
    <2>1. CASE DecideExit
      BY <2>1 DEF DecideExit, Goto, SatTypeOK, TickType, PosType, Steps, satProcess
    <2>2. CASE MarkOrder
      <3>1. pend' \in RestingType /\ orderFile' \in RestingType
        BY <2>2 DEF MarkOrder, SatTypeOK, RestingType
      <3>2. PICK s \in Steps : tick' = [tick EXCEPT !.at = s, !.closing = TRUE]
        BY <2>2 DEF MarkOrder, Steps
      <3>3. tick' \in TickType
        BY <3>2 DEF SatTypeOK, TickType
      <3> QED BY <2>2, <3>1, <3>3 DEF MarkOrder, SatTypeOK, satProcess
    <2> QED BY <1>10, <2>1, <2>2
  <1>11. CASE SellLimit
    <2>1. PICK q \in Nat, f \in Nat :
            /\ f <= q /\ Accepted(q) /\ coins' = coins - f
            /\ tick' = [tick EXCEPT !.want = q, !.sold = f, !.at = IF q - f >= Floor THEN "rest" ELSE "book"]
      <3>1. PICK q \in Sizes : Accepted(q) /\ \E f \in 0 .. q :
              /\ coins' = coins - f
              /\ tick' = [tick EXCEPT !.want = q, !.sold = f, !.at = IF q - f >= Floor THEN "rest" ELSE "book"]
        BY <1>11 DEF SellLimit
      <3>2. q \in Nat
        BY DEF Sizes, Smaller, SatTypeOK, PosType
      <3>3. PICK f \in 0 .. q : /\ coins' = coins - f
              /\ tick' = [tick EXCEPT !.want = q, !.sold = f, !.at = IF q - f >= Floor THEN "rest" ELSE "book"]
        BY <3>1
      <3>4. f \in Nat /\ f <= q
        BY <3>2
      <3> QED BY <3>1, <3>2, <3>3, <3>4
    <2>2. coins - f \in Nat
      BY <2>1 DEF Accepted, SatTypeOK
    <2>3. PICK s \in Steps : tick' = [tick EXCEPT !.want = q, !.sold = f, !.at = s]
      BY <2>1 DEF Steps
    <2>4. tick' \in TickType
      BY <2>3 DEF SatTypeOK, TickType
    <2> QED BY <1>11, <2>1, <2>2, <2>4 DEF SellLimit, SatTypeOK, satMemory, satFiles, satProcess
  <1>12. CASE SellRest
    <2>1. PICK f \in 0 .. tick.want - tick.sold :
            coins' = coins - f /\ tick' = [tick EXCEPT !.sold = @ + f, !.at = "book"]
      BY <1>12 DEF SellRest
    <2>2. tick.want - tick.sold <= coins /\ tick.want \in Nat /\ tick.sold \in Nat
      BY <1>12 DEF SellRest, TickInv, SatTypeOK, TickType
    <2>3. f \in Nat /\ coins - f \in Nat /\ tick.sold + f \in Nat
      BY <2>2 DEF SatTypeOK
    <2>4. tick' \in TickType
      BY <2>1, <2>3 DEF SatTypeOK, TickType, Steps
    <2> QED BY <1>12, <2>1, <2>3, <2>4 DEF SellRest, SatTypeOK, satMemory, satFiles, satProcess
  <1>13. CASE BookSale
    <2>1. pos.qty - tick.sold \in Nat
      BY <1>13 DEF BookSale, TickInv, SatTypeOK, TickType, PosType
    <2>2. [pos EXCEPT !.qty = @ - tick.sold] \in PosType
      BY <2>1 DEF SatTypeOK, PosType
    <2> QED BY <1>13, <2>2, NothingTypes DEF BookSale, SatTypeOK, satProcess
  <1>14. CASE SatCrash
    <2>1. /\ pend' = NoResting /\ pos' = NoPos /\ placing' = 0 /\ tick' = NoTick /\ up' = FALSE /\ dies' = dies + 1
          /\ UNCHANGED <<book, coins, orderFile, posFile, late, credited>>
      BY <1>14 DEF SatCrash, satFiles
    <2>2. pend' \in RestingType /\ pos' \in PosType /\ tick' \in TickType
      BY <2>1, NothingTypes
    <2>3. dies' \in Nat
      BY <2>1 DEF SatTypeOK
    <2> QED BY <2>1, <2>2, <2>3 DEF SatTypeOK
  <1>15. CASE Boot
    <2>1. Smaller(posFile.qty, coins) \in Nat
      BY DEF Smaller, SatTypeOK, PosType
    <2>2. Restored \in PosType
      BY <2>1, NothingTypes DEF Restored, SatTypeOK, PosType
    <2> QED BY <1>15, <2>2 DEF Boot, SatTypeOK
  <1>16. CASE LoseSale \/ LoseRest
    <2>1. coins' \in Nat
      <3>1. CASE LoseSale
        <4>1. PICK q \in Sizes : Accepted(q) /\ \E f \in 1 .. q : coins' = coins - f
          BY <3>1 DEF LoseSale
        <4>2. q \in Nat /\ q <= coins /\ coins \in Nat
          BY <4>1 DEF Sizes, Smaller, Accepted, SatTypeOK, PosType
        <4>3. PICK f \in 1 .. q : coins' = coins - f
          BY <4>1
        <4> QED BY <4>2, <4>3
      <3>2. CASE LoseRest
        <4>1. PICK f \in 1 .. tick.want - tick.sold : coins' = coins - f
          BY <3>2 DEF LoseRest
        <4>2. tick.want - tick.sold <= coins /\ tick.want \in Nat /\ tick.sold \in Nat /\ coins \in Nat
          BY <3>2 DEF LoseRest, TickInv, SatTypeOK, TickType
        <4> QED BY <4>1, <4>2
      <3> QED BY <1>16, <3>1, <3>2
    <2>2. tick' \in TickType
      BY <1>16, NothingTypes DEF LoseSale, LoseRest, Goto, SatTypeOK, TickType, Steps
    <2> QED BY <1>16, <2>1, <2>2 DEF LoseSale, LoseRest, SatTypeOK, satMemory, satFiles, satProcess
  <1>17. CASE UNCHANGED satVars
    BY <1>17 DEF satVars, SatTypeOK
  <1> QED BY <1>1, <1>2, <1>3, <1>4, <1>5, <1>6, <1>7, <1>8, <1>9, <1>10, <1>11, <1>12, <1>13, <1>14, <1>15, <1>16, <1>17
          DEF SatNext, Poll, Exit


-------------------------------------------------------------------------------
(* Every step keeps the invariant, while every sale is answered and no process   *)
(* dies between the two saves of a fill or between a sale and its booking.        *)

\* A step that only moves the tick on, and neither to nor from the two saves of a fill.
LEMMA TickOnly ==
  ASSUME OrderInv, SatTypeOK',
         UNCHANGED <<book, coins, pend, pos, orderFile, posFile, placing, up, credited>>,
         up \/ tick' = tick, tick'.at = "settle" <=> tick.at = "settle", tick'.sold = tick.sold,
         TickInv'
  PROVE  OrderInv'
  <1>1. Leg' = Leg /\ Known' = Known
    BY DEF Leg, Known
  <1>2. BookInv' /\ PlacingInv' /\ FileInv'
    BY DEF OrderInv, BookInv, PlacingInv, FileInv
  <1>3. CreditInv' /\ CoinInv'
    BY <1>1 DEF OrderInv, CreditInv, CoinInv
  <1> QED BY <1>2, <1>3 DEF OrderInv

LEMMA Moves ==
  ASSUME OrderInv, SatTypeOK', Expire \/ BeginTick \/ ReadOrder \/ FailCancel \/ Reread \/ FailPoll \/ Hold \/ FailSell
  PROVE  OrderInv'
  <1> USE DEF PollSteps, SaleSteps
  <1>0. /\ UNCHANGED <<book, coins, pend, pos, orderFile, posFile, placing, up, credited>>
        /\ TickInv /\ tick \in TickType /\ pend \in RestingType /\ pos \in PosType
        /\ ~up => tick = NoTick
    BY DEF OrderInv, FileInv, SatTypeOK, Expire, BeginTick, ReadOrder, FailCancel, Reread, FailPoll, Hold, FailSell,
       satMemory, satFiles, satProcess
  <1>1. CASE Expire
    <2>1. tick' = tick
      BY <1>1 DEF Expire
    <2> QED BY <1>0, <2>1, TickOnly DEF TickInv
  <1>2. CASE BeginTick
    <2>1. /\ up /\ tick.at = "idle" /\ tick'.at \in {"status", "decide"} /\ ~tick'.closing /\ tick'.sold = 0
          /\ tick'.at = "status" => pend # NoResting
      BY <1>2 DEF BeginTick, NoTick
    <2>2. tick.sold = 0
      BY <1>0, <2>1 DEF TickInv
    <2>3. pend # NoResting => pend.id # 0
      BY <2>1 DEF OrderInv, FileInv
    <2>4. TickInv'
      BY <1>0, <2>1, <2>3 DEF TickInv
    <2> QED BY <1>0, <2>1, <2>2, <2>4, TickOnly
  <1>3. CASE ReadOrder \/ Reread
    <2>1. /\ tick.at \in {"status", "reread"} /\ tick'.at \in {"cancel", "credit"}
          /\ tick'.status = book[pend.id].status /\ tick'.filled = book[pend.id].filled
          /\ tick'.closing = tick.closing /\ tick'.sold = tick.sold /\ tick'.want = tick.want
      BY <1>0, <1>3 DEF ReadOrder, Reread, Saw, TickType
    <2>2. up
      BY <1>0, <2>1 DEF NoTick
    <2>3. pend.id \in Orders /\ tick.sold = 0
      BY <1>0, <2>1 DEF TickInv, RestingType
    <2>4. book[pend.id].filled \in Nat
      BY <2>3 DEF OrderInv, SatTypeOK
    <2>5. TickInv'
      BY <1>0, <2>1, <2>3, <2>4 DEF TickInv
    <2> QED BY <1>0, <2>1, <2>2, <2>5, TickOnly
  <1>4. CASE FailCancel \/ FailPoll
    <2>1. /\ tick.at \in {"status", "cancel", "reread"} /\ tick'.at \in {"reread", "sell", "decide"}
          /\ tick'.at = "sell" => tick.closing
          /\ tick'.at = "reread" => tick.at = "cancel"
          /\ tick'.closing = tick.closing /\ tick'.sold = tick.sold /\ tick'.want = tick.want
      BY <1>0, <1>4 DEF FailCancel, FailPoll, Goto, AfterPoll, TickType
    <2>2. up
      BY <1>0, <2>1 DEF NoTick
    <2>3. TickInv'
      BY <1>0, <2>1 DEF TickInv
    <2> QED BY <1>0, <2>1, <2>2, <2>3, TickOnly
  <1>5. CASE Hold \/ FailSell
    <2>1. tick.at \in {"decide", "sell"} /\ tick' = NoTick
      BY <1>5 DEF Hold, FailSell
    <2>2. up
      BY <1>0, <2>1 DEF NoTick
    <2>3. tick.sold = 0 /\ tick'.sold = 0 /\ tick'.at = "idle" /\ ~tick'.closing
      BY <1>0, <2>1 DEF TickInv, NoTick
    <2>4. TickInv'
      BY <2>3 DEF TickInv
    <2> QED BY <1>0, <2>1, <2>2, <2>3, <2>4, TickOnly
  <1> QED BY <1>1, <1>2, <1>3, <1>4, <1>5

\* The placement of an order.
LEMMA Places ==
  ASSUME OrderInv, SatTypeOK', NEW o \in Orders, NEW q \in MinOrder .. MaxQty, PlaceOrder(o, q)
  PROVE  OrderInv'
  <1>1. /\ up /\ pos = NoPos /\ pend = NoResting /\ placing = 0 /\ book[o].status = "none"
        /\ book'[o].status = "open" /\ book'[o].filled = 0
        /\ \A p \in Orders : p # o => book'[p] = book[p]
        /\ placing' = o
        /\ UNCHANGED <<coins, pend, pos, orderFile, posFile, tick, up, credited>>
    BY DEF PlaceOrder, satMemory, satFiles, satProcess, OrderInv, SatTypeOK
  <1>2. o # 0 /\ orderFile.id = 0 /\ credited[o] = 0 /\ book[o].filled = 0 /\ pend.id = 0
    BY <1>1, SatelliteAssumption DEF OrderInv, BookInv, FileInv, NoResting, SatTypeOK
  <1>3. BookInv' /\ PlacingInv' /\ FileInv' /\ TickInv'
    BY <1>1, <1>2 DEF OrderInv, BookInv, PlacingInv, FileInv, TickInv, PollSteps
  <1>4. Leg' = Leg /\ Known' = o /\ Known = 0
    BY <1>1, <1>2 DEF Leg, Known
  <1>5. CreditInv' /\ CoinInv'
    BY <1>1, <1>2, <1>4 DEF OrderInv, CreditInv, CoinInv
  <1> QED BY <1>3, <1>5 DEF OrderInv

LEMMA Acks ==
  ASSUME OrderInv, SatTypeOK', AckOrder \/ LoseAck
  PROVE  OrderInv'
  <1>1. /\ placing # 0 /\ placing' = 0 /\ UNCHANGED <<book, coins, pos, posFile, tick, up, credited>>
    BY DEF AckOrder, LoseAck, satProcess, satMemory, satFiles
  <1>2. /\ up /\ pend = NoResting /\ pos = NoPos /\ orderFile = pend /\ orderFile.id = 0 /\ placing \in Orders
        /\ book[placing].status # "none" /\ credited[placing] = 0 /\ tick.at \notin PollSteps
        /\ Leg' = Leg /\ Known = placing /\ Leg = NoPos
    BY <1>1 DEF OrderInv, PlacingInv, FileInv, TickInv, SatTypeOK, NoResting, Leg, Known
  <1>3. \/ pend' = pend /\ orderFile' = orderFile
        \/ pend' = [NoResting EXCEPT !.id = placing] /\ orderFile' = pend'
    BY DEF AckOrder, LoseAck, satMemory, satFiles
  <1>4. /\ orderFile' = pend' /\ orderFile'.id \in {0, placing} /\ orderFile'.filled = 0
        /\ orderFile'.id = 0 => orderFile' = NoResting
    <2>1. CASE pend' = pend /\ orderFile' = orderFile
      BY <1>2, <2>1 DEF NoResting
    <2>2. CASE pend' = [NoResting EXCEPT !.id = placing] /\ orderFile' = pend'
      <3>1. pend' = [id |-> placing, filled |-> 0, exit |-> FALSE]
        BY <2>2 DEF NoResting
      <3> QED BY <1>1, <2>2, <3>1
    <2> QED BY <1>3, <2>1, <2>2
  <1>5. BookInv' /\ PlacingInv' /\ FileInv' /\ TickInv'
    BY <1>1, <1>2, <1>4 DEF OrderInv, BookInv, PlacingInv, FileInv, TickInv, PollSteps
  <1>6. CreditInv'
    BY <1>1, <1>2, <1>4 DEF CreditInv, NoPos, PollSteps
  <1>7. CoinInv'
    BY <1>1, <1>2, <1>4 DEF OrderInv, CoinInv, Known, BookInv, SatTypeOK, TickType, NoPos
  <1> QED BY <1>5, <1>6, <1>7 DEF OrderInv

\* The exchange fills or cancels an order.
LEMMA Fills ==
  ASSUME OrderInv, SatTypeOK', NEW o \in Orders, NEW f \in 1 .. MaxQty, FillOrder(o, f)
  PROVE  OrderInv'
  <1>1. /\ book[o].status = "open" /\ book'[o].status \in {"open", "closed"}
        /\ book'[o].filled = book[o].filled + f
        /\ \A p \in Orders : p # o => book'[p] = book[p]
        /\ coins' = coins + f
        /\ UNCHANGED <<pend, pos, orderFile, posFile, placing, tick, up, credited>>
    BY DEF FillOrder, satMemory, satFiles, satProcess, OrderInv, SatTypeOK
  <1>2. f \in Nat /\ f >= 1 /\ book[o].filled \in Nat /\ credited[o] \in Nat
    BY DEF OrderInv, SatTypeOK
  <1>3. BookInv' /\ PlacingInv' /\ FileInv'
    BY <1>1, <1>2 DEF OrderInv, BookInv, PlacingInv, FileInv, SatTypeOK
  <1>4. TickInv'
    <2>1. pend.id # 0 => pend.id \in Orders
      BY DEF OrderInv, SatTypeOK, RestingType
    <2>2. tick.filled \in Nat /\ coins \in Nat /\ tick.want \in Nat /\ tick.sold \in Nat
      BY DEF OrderInv, SatTypeOK, TickType
    <2> QED BY <1>1, <1>2, <2>1, <2>2 DEF OrderInv, TickInv, PollSteps, SatTypeOK
  <1>5. Leg' = Leg /\ Known' = Known
    BY <1>1 DEF Leg, Known
  <1>6. CreditInv'
    BY <1>1, <1>5 DEF OrderInv, CreditInv, SatTypeOK, RestingType
  <1>7. CoinInv'
    BY <1>1, <1>2, <1>5 DEF OrderInv, CoinInv, SatTypeOK, TickType, PosType, Leg, NoPos, Known, RestingType
  <1> QED BY <1>3, <1>4, <1>6, <1>7 DEF OrderInv

LEMMA Cancels ==
  ASSUME OrderInv, SatTypeOK', CancelOrder
  PROVE  OrderInv'
  <1>1. /\ tick.at = "cancel" /\ tick'.at = "reread" /\ tick'.closing = tick.closing /\ tick'.sold = tick.sold
        /\ UNCHANGED <<coins, pend, pos, orderFile, posFile, placing, up, credited>>
    BY DEF CancelOrder, Goto, satMemory, satFiles, satProcess, OrderInv, SatTypeOK, TickType
  <1>2. pend.id \in Orders /\ up /\ tick.sold = 0
    BY <1>1 DEF OrderInv, TickInv, PollSteps, FileInv, NoTick, SatTypeOK, RestingType
  <1>3. \A p \in Orders : /\ book'[p].filled = book[p].filled
                          /\ book'[p].status = "none" <=> book[p].status = "none"
    BY <1>2 DEF CancelOrder, OrderInv, SatTypeOK, OrderStatus
  <1>4. BookInv' /\ PlacingInv' /\ FileInv' /\ TickInv'
    BY <1>1, <1>2, <1>3 DEF OrderInv, BookInv, PlacingInv, FileInv, TickInv, PollSteps, SaleSteps, SatTypeOK
  <1>5. Leg' = Leg /\ Known' = Known /\ (Known # 0 => Known \in Orders) /\ (orderFile.id # 0 => orderFile.id \in Orders)
    BY <1>1 DEF Leg, Known, OrderInv, SatTypeOK, RestingType
  <1>6. CreditInv' /\ CoinInv'
    BY <1>1, <1>3, <1>5 DEF OrderInv, CreditInv, CoinInv
  <1> QED BY <1>4, <1>6 DEF OrderInv


\* The two saves of a fill.
LEMMA Credits ==
  ASSUME OrderInv, SatTypeOK', CreditFill
  PROVE  OrderInv'
  <1> DEFINE o == pend.id
             seen == Larger(Accounted, tick.filled)
             added == seen - Accounted
  <1>1. /\ tick.at = "credit" /\ tick'.at = "settle" /\ tick'.closing = tick.closing /\ tick'.sold = tick.sold
        /\ tick'.filled = tick.filled /\ tick'.status = tick.status
        /\ UNCHANGED <<book, coins, pend, orderFile, placing, up>>
    BY DEF CreditFill, Goto, satProcess, OrderInv, SatTypeOK, TickType
  <1>2. /\ o \in Orders /\ o # 0 /\ up /\ orderFile = pend /\ tick.sold = 0 /\ tick.filled <= book[o].filled
        /\ book[o].filled \in Nat /\ credited[o] \in Nat /\ tick.filled \in Nat /\ pos.qty \in Nat
        /\ pend.filled \in Nat /\ pos.filled \in Nat /\ credited[o] <= book[o].filled
    BY <1>1 DEF OrderInv, TickInv, PollSteps, FileInv, NoTick, SatTypeOK, RestingType, TickType, PosType, BookInv
  <1>3. /\ Leg = pos /\ placing = 0 /\ Known = o
        /\ credited[o] = pend.filled
        /\ pos.qty = 0 => pos = NoPos
        /\ pos.qty > 0 => pos.id = o /\ pos.filled = credited[o]
    BY <1>1, <1>2 DEF Leg, Known, OrderInv, CreditInv, PlacingInv, NoResting
  <1>4. Accounted = credited[o]
    BY <1>2, <1>3 DEF Accounted, Larger, NoPos
  <1>5. /\ seen \in Nat /\ added \in Nat /\ seen <= book[o].filled /\ seen >= credited[o] /\ seen >= tick.filled
        /\ seen = credited[o] + added
    BY <1>2, <1>4 DEF Larger
  <1>6. /\ credited'[o] = seen /\ \A p \in Orders : p # o => credited'[p] = credited[p]
    <2>1. credited' = [credited EXCEPT ![o] = @ + added]
      BY DEF CreditFill
    <2> QED BY <1>2, <1>5, <2>1 DEF OrderInv, SatTypeOK
  <1>7. /\ added = 0 => pos' = pos /\ posFile' = posFile
        /\ added # 0 => /\ posFile' = pos'
                        /\ pos' = [qty |-> pos.qty + added, id |-> o, filled |-> seen, exit |-> pend.exit \/ pos.exit]
    BY DEF CreditFill
  <1>8. pos'.qty = pos.qty + added
    BY <1>2, <1>5, <1>7
  <1> HIDE DEF seen, added, o
  <1>9. BookInv' /\ PlacingInv' /\ FileInv'
    BY <1>1, <1>2, <1>3, <1>5, <1>6, <1>7 DEF OrderInv, BookInv, PlacingInv, FileInv
  <1>10. TickInv'
    <2>1. pend.id = o
      BY DEF o
    <2> QED BY <1>1, <1>2, <1>5, <1>6, <1>8, <2>1 DEF OrderInv, TickInv, PollSteps, SaleSteps
  <1>11. CreditInv'
    <2>1. Leg' = pos' /\ orderFile'.id = o /\ orderFile'.filled = pend.filled
      BY <1>1, <1>2 DEF Leg, o
    <2>2. Larger(orderFile'.filled, pos'.filled) = credited'[o]
      <3>1. CASE added = 0
        BY <1>2, <1>3, <1>5, <1>6, <1>7, <2>1, <3>1 DEF Larger, NoPos
      <3>2. CASE added # 0
        BY <1>2, <1>3, <1>5, <1>6, <1>7, <2>1, <3>2 DEF Larger
      <3> QED BY <3>1, <3>2
    <2>3. pos'.qty = 0 => pos' = NoPos
      BY <1>2, <1>3, <1>5, <1>7, <1>8
    <2>4. pos'.qty > 0 => pos'.id = o /\ pos'.filled = credited'[o]
      <3>1. CASE added = 0
        BY <1>2, <1>3, <1>5, <1>6, <1>7, <3>1
      <3>2. CASE added # 0
        BY <1>6, <1>7, <3>2
      <3> QED BY <3>1, <3>2
    <2> QED BY <1>1, <1>2, <2>1, <2>2, <2>3, <2>4 DEF CreditInv, OrderInv
  <1>12. CoinInv'
    <2>1. Leg' = pos' /\ Known' = o
      BY <1>1, <1>2, <1>3 DEF Leg, Known
    <2> QED BY <1>1, <1>2, <1>3, <1>5, <1>6, <1>8, <2>1 DEF OrderInv, CoinInv, SatTypeOK
  <1> QED BY <1>9, <1>10, <1>11, <1>12 DEF OrderInv

\* What the order remembers of its fills when it is settled.
LEMMA SettleFacts ==
  ASSUME OrderInv, SatTypeOK', SettleOrder
  PROVE  /\ tick.at = "settle" /\ pend.id \in Orders /\ pend.id # 0 /\ up /\ orderFile = pend /\ placing = 0
         /\ credited[pend.id] <= book[pend.id].filled
         /\ tick.status # "open" => /\ book[pend.id].status # "open"
                                    /\ credited[pend.id] = book[pend.id].filled
         /\ tick.status # "open" => pend' = NoResting
         /\ tick.status = "open" => /\ pend'.id = pend.id /\ pend'.exit = pend.exit
                                    /\ pend'.filled = credited[pend.id]
         /\ orderFile' = pend'
         /\ UNCHANGED <<book, coins, pos, posFile, placing, up, credited>>
  <1>1. /\ tick.at = "settle" /\ orderFile' = pend'
        /\ UNCHANGED <<book, coins, pos, posFile, placing, up, credited>>
    BY DEF SettleOrder, satProcess
  <1>2. /\ pend.id \in Orders /\ pend.id # 0 /\ up /\ orderFile = pend
    BY <1>1 DEF OrderInv, TickInv, PollSteps, FileInv, NoTick, SatTypeOK, RestingType
  <1>3. /\ placing = 0 /\ credited[pend.id] <= book[pend.id].filled /\ tick.filled <= credited[pend.id]
        /\ credited[pend.id] = Larger(pend.filled, pos.filled)
        /\ tick.status # "open" => book[pend.id].status # "open" /\ book[pend.id].filled = tick.filled
    BY <1>1, <1>2 DEF OrderInv, TickInv, BookInv, PlacingInv, NoResting, CreditInv
  <1>4. /\ credited[pend.id] \in Nat /\ book[pend.id].filled \in Nat /\ tick.filled \in Nat
    BY <1>2 DEF OrderInv, SatTypeOK, TickType
  <1>5. Larger(Accounted, tick.filled) = credited[pend.id]
    BY <1>3, <1>4 DEF Accounted, Larger
  <1>6. tick.status = "open" => pend' = [pend EXCEPT !.filled = credited[pend.id]]
    BY <1>5 DEF SettleOrder
  <1>7. tick.status = "open" => /\ pend'.id = pend.id /\ pend'.exit = pend.exit
                                /\ pend'.filled = credited[pend.id]
    BY <1>6 DEF OrderInv, SatTypeOK, RestingType
  <1> QED BY <1>1, <1>2, <1>3, <1>4, <1>7 DEF SettleOrder

LEMMA Settles ==
  ASSUME OrderInv, SatTypeOK', SettleOrder
  PROVE  OrderInv'
  <1>1. /\ tick'.at \in {"sell", "decide"}
        /\ tick'.at = "sell" => tick.closing
        /\ tick'.closing = tick.closing /\ tick'.sold = tick.sold
    BY DEF SettleOrder, Goto, AfterPoll, OrderInv, SatTypeOK, TickType
  <1>2. /\ pend'.id \in {0, pend.id} /\ (pend'.id = 0 => pend' = NoResting)
        /\ pend'.id # 0 => pend'.filled = credited[pend.id]
        /\ Leg' = pos /\ Leg = pos /\ Known = pend.id /\ Known' = pend'.id
    BY SettleFacts DEF NoResting, Leg, Known
  <1>3. BookInv' /\ PlacingInv' /\ FileInv'
    BY <1>2, SettleFacts DEF OrderInv, BookInv, PlacingInv, FileInv
  <1>4. TickInv'
    <2>1. tick.at = "settle" /\ pos' = pos /\ TickInv
      BY SettleFacts DEF OrderInv
    <2> QED BY <1>1, <2>1 DEF TickInv, PollSteps, SaleSteps
  <1>5. CreditInv'
    <2>1. /\ tick.at = "settle" /\ orderFile' = pend' /\ pend.id # 0 /\ orderFile = pend
          /\ UNCHANGED <<book, credited>> /\ CreditInv
      BY SettleFacts DEF OrderInv
    <2> QED BY <1>1, <1>2, <2>1 DEF CreditInv
  <1>6. CoinInv'
    <2>1. credited[pend.id] \in Nat /\ book[pend.id].filled \in Nat /\ coins \in Nat /\ tick.sold \in Nat
          /\ pos.qty \in Nat
      BY SettleFacts DEF OrderInv, SatTypeOK, TickType, PosType
    <2> QED BY <1>1, <1>2, <2>1, SettleFacts DEF OrderInv, CoinInv
  <1> QED BY <1>3, <1>4, <1>5, <1>6 DEF OrderInv

\* The decision to exit.
LEMMA Decides ==
  ASSUME OrderInv, SatTypeOK', DecideExit \/ MarkOrder
  PROVE  OrderInv'
  <1>1. /\ tick.at \in {"decide", "mark"} /\ tick'.at \in {"mark", "sell", "status"} /\ tick'.sold = tick.sold
        /\ tick'.at = "status" => pend # NoResting
        /\ UNCHANGED <<book, coins, placing, up, credited>>
    <2>1. CASE DecideExit
      BY <2>1 DEF DecideExit, Goto, satProcess, OrderInv, SatTypeOK, TickType
    <2>2. CASE MarkOrder
      BY <2>2 DEF MarkOrder, satProcess, OrderInv, SatTypeOK, TickType
    <2> QED BY <2>1, <2>2
  <1>2. /\ up /\ tick.sold = 0 /\ orderFile = pend /\ pos # NoPos /\ pos.qty > 0 /\ placing = 0
        /\ (pend.id = 0 => pend = NoResting)
    <2>1. up
      BY <1>1 DEF OrderInv, FileInv, NoTick
    <2>2. pos # NoPos /\ pos.qty \in Nat /\ (pos.qty = 0 => pos = NoPos)
      BY <1>1, <2>1 DEF DecideExit, MarkOrder, OrderInv, TickInv, SaleSteps, CreditInv, Leg, SatTypeOK, PosType, NoPos
    <2> QED BY <1>1, <2>1, <2>2 DEF OrderInv, TickInv, FileInv, PlacingInv
  <1>3. /\ pos'.qty = pos.qty /\ pos'.id = pos.id /\ pos'.filled = pos.filled
        /\ posFile' = pos' \/ (posFile' = posFile /\ pos' = pos)
    BY DEF DecideExit, MarkOrder, OrderInv, SatTypeOK, PosType
  <1>4. /\ pend'.id = pend.id /\ pend'.filled = pend.filled /\ orderFile' = pend'
        /\ (pend = NoResting => pend' = NoResting)
    BY <1>2 DEF DecideExit, MarkOrder, OrderInv, SatTypeOK, RestingType
  <1>5. BookInv' /\ PlacingInv' /\ FileInv' /\ TickInv'
    BY <1>1, <1>2, <1>3, <1>4 DEF OrderInv, BookInv, PlacingInv, FileInv, TickInv, PollSteps
  <1>6. Leg' = pos' /\ Leg = pos /\ Known' = pend.id /\ Known = pend.id
    BY <1>1, <1>2, <1>4 DEF Leg, Known
  <1>7. CreditInv' /\ CoinInv'
    BY <1>1, <1>2, <1>3, <1>4, <1>6 DEF OrderInv, CreditInv, CoinInv
  <1> QED BY <1>5, <1>7 DEF OrderInv

\* The sale.
LEMMA SellsLimit ==
  ASSUME OrderInv, SatTypeOK', SellLimit
  PROVE  OrderInv'
  <1>1. /\ tick.at = "sell" /\ UNCHANGED <<book, pend, pos, orderFile, posFile, placing, up, credited>>
    BY DEF SellLimit, satMemory, satFiles, satProcess
  <1>2. up /\ pos.qty > 0 /\ tick.sold = 0 /\ pos.qty \in Nat /\ coins \in Nat
    BY <1>1 DEF OrderInv, FileInv, NoTick, TickInv, SaleSteps, SatTypeOK, PosType
  <1>3. PICK q \in Sizes : Accepted(q) /\ \E f \in 0 .. q :
              /\ coins' = coins - f
              /\ tick' = [tick EXCEPT !.want = q, !.sold = f, !.at = IF q - f >= Floor THEN "rest" ELSE "book"]
    BY DEF SellLimit
  <1>4. q \in Nat /\ q <= pos.qty /\ q <= coins
    BY <1>2, <1>3 DEF Sizes, Smaller, Accepted
  <1>5. PICK f \in 0 .. q :
              /\ coins' = coins - f
              /\ tick' = [tick EXCEPT !.want = q, !.sold = f, !.at = IF q - f >= Floor THEN "rest" ELSE "book"]
    BY <1>3
  <1>6. /\ f \in Nat /\ f <= q /\ coins' + tick'.sold = coins /\ tick'.sold = f /\ tick'.want = q
        /\ tick'.at \in {"rest", "book"} /\ tick'.closing = tick.closing
    BY <1>2, <1>4, <1>5 DEF OrderInv, SatTypeOK, TickType
  <1>7. TickInv'
    BY <1>1, <1>2, <1>4, <1>5, <1>6 DEF TickInv, PollSteps, SaleSteps
  <1>8. Leg' = Leg /\ Known' = Known
    BY <1>1 DEF Leg, Known
  <1>9. CreditInv' /\ CoinInv'
    BY <1>1, <1>2, <1>6, <1>8 DEF OrderInv, CreditInv, CoinInv
  <1> QED BY <1>1, <1>2, <1>7, <1>9 DEF OrderInv, BookInv, PlacingInv, FileInv

LEMMA SellsRest ==
  ASSUME OrderInv, SatTypeOK', SellRest
  PROVE  OrderInv'
  <1>1. /\ tick.at = "rest" /\ UNCHANGED <<book, pend, pos, orderFile, posFile, placing, up, credited>>
    BY DEF SellRest, satMemory, satFiles, satProcess
  <1>2. /\ up /\ pos.qty > 0 /\ tick.sold <= tick.want /\ tick.want <= pos.qty /\ tick.sold \in Nat
        /\ tick.want \in Nat /\ coins \in Nat
    BY <1>1 DEF OrderInv, FileInv, NoTick, TickInv, SaleSteps, SatTypeOK, TickType
  <1>3. PICK f \in 0 .. tick.want - tick.sold : coins' = coins - f /\ tick' = [tick EXCEPT !.sold = @ + f, !.at = "book"]
    BY DEF SellRest
  <1>4. /\ tick'.sold = tick.sold + f /\ tick'.want = tick.want /\ tick'.at = "book" /\ tick'.closing = tick.closing
        /\ coins' + tick'.sold = coins + tick.sold /\ tick'.sold <= tick.want
    BY <1>2, <1>3 DEF OrderInv, SatTypeOK, TickType
  <1>5. TickInv'
    BY <1>1, <1>2, <1>4 DEF TickInv, PollSteps, SaleSteps
  <1>6. Leg' = Leg /\ Known' = Known
    BY <1>1 DEF Leg, Known
  <1>7. CreditInv' /\ CoinInv'
    BY <1>1, <1>2, <1>4, <1>6 DEF OrderInv, CreditInv, CoinInv
  <1> QED BY <1>1, <1>2, <1>5, <1>7 DEF OrderInv, BookInv, PlacingInv, FileInv

LEMMA SellsBooked ==
  ASSUME OrderInv, SatTypeOK', BookSale
  PROVE  OrderInv'
  <1>1. /\ tick.at = "book" /\ tick' = NoTick
        /\ UNCHANGED <<book, coins, pend, orderFile, placing, up, credited>>
    BY DEF BookSale, satProcess
  <1>2. /\ up /\ pos.qty > 0 /\ tick.sold <= tick.want /\ tick.want <= pos.qty /\ tick.sold \in Nat
        /\ tick.want \in Nat /\ coins \in Nat /\ pos.qty \in Nat /\ placing = 0
        /\ tick'.sold = 0 /\ tick'.at = "idle" /\ ~tick'.closing
    BY <1>1 DEF OrderInv, FileInv, NoTick, TickInv, SaleSteps, SatTypeOK, TickType, PosType, PlacingInv, NoPos
  <1>3. \/ pos' = pos /\ posFile' = posFile /\ tick.sold = 0
        \/ pos' = NoPos /\ posFile' = pos'
        \/ pos' = [pos EXCEPT !.qty = @ - tick.sold] /\ posFile' = pos' /\ tick.want - tick.sold >= Floor
    BY DEF BookSale
  <1>4. /\ pos'.qty = 0 => pos' = NoPos
        /\ pos'.qty > 0 => pos'.id = pos.id /\ pos'.filled = pos.filled
        /\ pos'.qty + tick.sold <= pos.qty
        /\ posFile' = pos' \/ (pos' = pos /\ posFile' = posFile)
    <2>1. CASE pos' = pos /\ posFile' = posFile /\ tick.sold = 0
      BY <1>2, <2>1
    <2>2. CASE pos' = NoPos /\ posFile' = pos'
      BY <1>2, <2>2 DEF NoPos
    <2>3. CASE pos' = [pos EXCEPT !.qty = @ - tick.sold] /\ posFile' = pos' /\ tick.want - tick.sold >= Floor
      BY <1>2, <2>3, SatelliteAssumption DEF OrderInv, SatTypeOK, PosType
    <2> QED BY <1>3, <2>1, <2>2, <2>3
  <1>5. TickInv' /\ FileInv' /\ BookInv' /\ PlacingInv'
    BY <1>1, <1>2, <1>4 DEF OrderInv, TickInv, PollSteps, SaleSteps, FileInv, BookInv, PlacingInv
  <1>6. Leg' = pos' /\ Leg = pos /\ Known' = Known
    BY <1>1, <1>2 DEF Leg, Known
  <1>7. CreditInv'
    BY <1>1, <1>2, <1>4, <1>6 DEF OrderInv, CreditInv
  <1>8. CoinInv'
    <2>1. pos'.qty \in Nat
      BY DEF SatTypeOK, PosType
    <2>2. Known # 0 => book[Known].filled - credited[Known] \in Int
      BY DEF Known, OrderInv, SatTypeOK, RestingType
    <2> QED BY <1>1, <1>2, <1>4, <1>6, <2>1, <2>2 DEF OrderInv, CoinInv
  <1> QED BY <1>5, <1>7, <1>8 DEF OrderInv

\* The process dies, and boots.
LEMMA Crashes ==
  ASSUME OrderInv, SatTypeOK', NothingHalfDone, SatCrash
  PROVE  OrderInv'
  <1> USE DEF NothingHalfDone
  <1>1. /\ up /\ ~up' /\ tick.at # "settle" /\ ~(tick.sold > 0)
        /\ pend' = NoResting /\ pos' = NoPos /\ placing' = 0 /\ tick' = NoTick
        /\ UNCHANGED <<book, coins, orderFile, posFile, credited>>
    BY DEF SatCrash, satFiles
  <1>2. /\ tick.sold = 0 /\ tick'.sold = 0 /\ tick'.at = "idle" /\ ~tick'.closing
        /\ pos.qty \in Nat /\ posFile.qty \in Nat /\ NoPos.qty = 0
    BY <1>1 DEF OrderInv, SatTypeOK, TickType, PosType, NoTick, NoPos
  <1>3. Leg = pos /\ (Leg' = pos \/ Leg' = NoPos)
    BY <1>1 DEF Leg, OrderInv, FileInv
  <1>4. /\ Known' = orderFile.id
        /\ placing # 0 => orderFile.id = 0 /\ Known = placing /\ credited[placing] <= book[placing].filled
                            /\ credited[placing] \in Nat /\ book[placing].filled \in Nat
        /\ placing = 0 => Known = orderFile.id
    BY <1>1 DEF Known, OrderInv, PlacingInv, FileInv, NoResting, BookInv, SatTypeOK
  <1>5. TickInv' /\ FileInv' /\ BookInv' /\ PlacingInv'
    BY <1>1, <1>2 DEF OrderInv, TickInv, PollSteps, SaleSteps, FileInv, BookInv, PlacingInv
  <1>6. CreditInv'
    BY <1>1, <1>2, <1>3 DEF OrderInv, CreditInv
  <1>7. CoinInv'
    <2>1. Known # 0 => book[Known].filled - credited[Known] \in Int
      BY DEF Known, OrderInv, SatTypeOK, RestingType
    <2>2. coins \in Nat
      BY DEF OrderInv, SatTypeOK
    <2> QED BY <1>1, <1>2, <1>3, <1>4, <2>1, <2>2 DEF OrderInv, CoinInv
  <1> QED BY <1>5, <1>6, <1>7 DEF OrderInv

\* A leg an order can sell is restored as it was saved.
LEMMA Boots ==
  ASSUME OrderInv, SatTypeOK', Boot
  PROVE  OrderInv' /\ pos' = Leg
  <1>1. /\ ~up /\ up' /\ pend' = orderFile /\ pos' = Restored
        /\ posFile' = IF pos' = NoPos THEN posFile ELSE pos'
        /\ UNCHANGED <<book, coins, orderFile, placing, tick, credited>>
    BY DEF Boot
  <1>2. /\ placing = 0 /\ tick = NoTick /\ tick.sold = 0 /\ tick.at = "idle" /\ ~tick.closing
        /\ coins \in Nat /\ posFile.qty \in Nat
    BY <1>1 DEF OrderInv, PlacingInv, FileInv, NoTick, SatTypeOK, PosType
  <1>3. coins >= Leg.qty
    <2>1. Known # 0 => /\ book[Known].filled - credited[Known] \in Int
                       /\ book[Known].filled - credited[Known] >= 0
      BY DEF Known, OrderInv, SatTypeOK, RestingType, BookInv
    <2>2. Leg.qty \in Nat
      BY <1>2 DEF Leg, NoPos, OrderInv, SatTypeOK, PosType
    <2> QED BY <1>2, <2>1, <2>2 DEF OrderInv, CoinInv
  <1>4. pos' = Leg
    <2>1. CASE posFile.qty < Floor
      <3>1. Smaller(posFile.qty, coins) < Floor
        BY <1>2, <2>1, SatelliteAssumption DEF Smaller
      <3> QED BY <1>1, <2>1, <3>1 DEF Leg, Restored
    <2>2. CASE ~(posFile.qty < Floor)
      <3>1. Leg = posFile
        BY <1>1, <2>2 DEF Leg
      <3>2. Smaller(posFile.qty, coins) = posFile.qty
        BY <1>2, <1>3, <3>1 DEF Smaller
      <3>3. Restored = [posFile EXCEPT !.qty = posFile.qty]
        BY <2>2, <3>2 DEF Restored
      <3>4. [posFile EXCEPT !.qty = posFile.qty] = posFile
        BY DEF OrderInv, SatTypeOK, PosType
      <3> QED BY <1>1, <3>1, <3>3, <3>4
    <2> QED BY <2>1, <2>2
  <1>5. Leg' = pos' /\ Known' = Known
    BY <1>1 DEF Leg, Known
  <1>6. posFile' = pos' \/ (pos' = NoPos /\ posFile'.qty < Floor)
    BY <1>1, <1>4, SatelliteAssumption DEF Leg, NoPos
  <1>7. TickInv' /\ FileInv' /\ BookInv' /\ PlacingInv'
    BY <1>1, <1>2, <1>6 DEF OrderInv, TickInv, PollSteps, SaleSteps, FileInv, BookInv, PlacingInv
  <1>8. CreditInv' /\ CoinInv'
    BY <1>1, <1>2, <1>4, <1>5 DEF OrderInv, CreditInv, CoinInv
  <1> QED BY <1>4, <1>7, <1>8 DEF OrderInv

LEMMA OrderStep ==
  ASSUME OrderInv, NothingHalfDone, [SatNext]_satVars
  PROVE  OrderInv'
  <1>1. SatTypeOK'
    BY SatTypeStep
  <1>2. CASE UNCHANGED satVars
    BY <1>1, <1>2 DEF satVars, OrderInv, BookInv, PlacingInv, FileInv, TickInv, CreditInv, CoinInv, Leg, Known
  <1>3. CASE SatNext
    BY <1>1, <1>3, Moves, Places, Acks, Fills, Cancels, Credits, Settles, Decides, SellsLimit, SellsRest,
       SellsBooked, Crashes, Boots DEF SatNext, Poll, Exit, LoseSale, LoseRest, NothingHalfDone
  <1> QED BY <1>2, <1>3


-------------------------------------------------------------------------------
(* The refinement: what the ledger sees, and which of its steps each action is. *)

Resting == {o \in Orders : book[o].status = "open"}
Filled  == [o \in Orders |-> book[o].filled]
Watched == {orderFile.id} \ {0}

LEMMA LedgerStarts == SatInit => Ledger!LedgerInit
  <1> SUFFICES ASSUME SatInit PROVE Ledger!LedgerInit
    OBVIOUS
  <1>1. Resting = {} /\ Watched = {} /\ Filled = [o \in Orders |-> 0] /\ credited = [o \in Orders |-> 0]
    BY DEF SatInit, Resting, Watched, Filled, NoResting
  <1> QED BY <1>1 DEF Ledger!LedgerInit, Resting, Watched, Filled

LEMMA LedgerStutters ==
  ASSUME UNCHANGED <<Resting, Filled, credited, Watched>>
  PROVE  [Ledger!LedgerNext]_(Ledger!ledger)
  BY DEF Ledger!ledger, Resting, Filled, Watched

LEMMA LedgerSteps ==
  ASSUME OrderInv, OrderInv', [SatNext]_satVars
  PROVE  [Ledger!LedgerNext]_(Ledger!ledger)
  <1> USE DEF Resting, Filled, Watched
  <1>n. ASSUME UNCHANGED <<book, credited>>, orderFile'.id = orderFile.id
        PROVE  [Ledger!LedgerNext]_(Ledger!ledger)
    BY <1>n, LedgerStutters
  <1>t. book \in [Orders -> [status : OrderStatus, qty : Nat, filled : Nat]] /\ credited \in [Orders -> Nat]
    BY DEF OrderInv, SatTypeOK
  <1>1. ASSUME NEW o \in Orders, NEW q \in MinOrder .. MaxQty, PlaceOrder(o, q)
        PROVE  Ledger!Place(o)
    <2>1. /\ book[o].status = "none" /\ book'[o].status = "open" /\ book'[o].filled = 0 /\ book[o].filled = 0
          /\ \A p \in Orders : p # o => book'[p] = book[p]
          /\ UNCHANGED <<orderFile, credited>>
      BY <1>1, <1>t DEF PlaceOrder, satFiles, OrderInv, BookInv
    <2>2. o \notin Watched
      BY <2>1 DEF OrderInv, CreditInv
    <2>3. Filled' = Filled
      BY <2>1
    <2>4. Resting' = Resting \cup {o}
      BY <2>1
    <2> QED BY <2>1, <2>2, <2>3, <2>4 DEF Ledger!Place
  <1>2. ASSUME AckOrder PROVE Ledger!Watch(placing)
    <2>1. /\ placing # 0 /\ orderFile'.id = placing /\ UNCHANGED <<book, credited>>
      BY <1>2 DEF AckOrder, NoResting
    <2>2. orderFile.id = 0 /\ credited[placing] = 0
      BY <2>1 DEF OrderInv, PlacingInv, FileInv, NoResting
    <2> QED BY <2>1, <2>2 DEF Ledger!Watch
  <1>3. ASSUME NEW o \in Orders, NEW f \in 1 .. MaxQty, FillOrder(o, f)
        PROVE  Ledger!Fill(o)
    <2>1. /\ book[o].status = "open" /\ book'[o].status \in {"open", "closed"}
          /\ book'[o].filled = book[o].filled + f /\ book[o].filled \in Nat
          /\ \A p \in Orders : p # o => book'[p] = book[p]
          /\ UNCHANGED <<orderFile, credited>>
      BY <1>3, <1>t DEF FillOrder, satFiles
    <2>f. f \in Nat /\ f > 0
      OBVIOUS
    <2>2. Filled'[o] > Filled[o] /\ Filled' = [Filled EXCEPT ![o] = Filled'[o]]
      <3>1. Filled'[o] = Filled[o] + f /\ Filled[o] \in Nat
        BY <2>1
      <3>2. Filled'[o] > Filled[o]
        BY <2>f, <3>1
      <3>3. \A p \in Orders : p # o => Filled'[p] = Filled[p]
        BY <2>1
      <3> QED BY <3>2, <3>3
    <2>3. o \in Resting /\ Resting' \in {Resting, Resting \ {o}}
      BY <2>1
    <2> QED BY <2>1, <2>2, <2>3 DEF Ledger!Fill
  <1>4. CASE CancelOrder
    <2>1. pend.id \in Orders /\ UNCHANGED <<orderFile, credited>>
      BY <1>4 DEF CancelOrder, OrderInv, TickInv, PollSteps, SatTypeOK, RestingType, satFiles
    <2>2. CASE book[pend.id].status = "open"
      <3>1. /\ book'[pend.id].status = "canceled" /\ book'[pend.id].filled = book[pend.id].filled
            /\ \A p \in Orders : p # pend.id => book'[p] = book[p]
        BY <1>4, <1>t, <2>1, <2>2 DEF CancelOrder
      <3>2. /\ Filled' = Filled /\ Watched' = Watched
            /\ Resting' = Resting \ {pend.id} /\ pend.id \in Resting
        <4>1. Filled' = Filled /\ Watched' = Watched
          BY <3>1, <2>1
        <4>2. \A p : p \in Resting' <=> p \in Resting \ {pend.id}
          BY <3>1, <2>1
        <4> QED BY <2>1, <2>2, <4>1, <4>2
      <3>3. PICK o \in Orders : o = pend.id
        BY <2>1
      <3>4. Ledger!Cancel(o)
        BY <2>1, <3>2, <3>3 DEF Ledger!Cancel
      <3> QED BY <3>4 DEF Ledger!LedgerNext
    <2>3. CASE book[pend.id].status # "open"
      <3>1. book' = book
        BY <1>4, <1>t, <2>1, <2>3 DEF CancelOrder
      <3> QED BY <1>n, <2>1, <3>1
    <2> QED BY <2>2, <2>3
  <1>5. CASE CreditFill
    <2> DEFINE o == pend.id
               added == Larger(Accounted, tick.filled) - Accounted
    <2>1. /\ tick.at = "credit" /\ credited' = [credited EXCEPT ![o] = @ + added] /\ UNCHANGED <<book, orderFile>>
      BY <1>5 DEF CreditFill
    <2>2. o \in Orders /\ o # 0 /\ up /\ orderFile = pend
      BY <2>1 DEF OrderInv, TickInv, PollSteps, FileInv, NoTick, SatTypeOK, RestingType
    <2>3. added \in Nat
      BY DEF Accounted, Larger, OrderInv, SatTypeOK, RestingType, PosType, TickType
    <2>4. credited'[o] <= book[o].filled /\ credited'[o] = credited[o] + added
      BY <1>t, <2>1, <2>2, <2>3 DEF OrderInv, BookInv
    <2>5. CASE added = 0
      <3>1. credited' = credited
        BY <1>t, <2>1, <2>2, <2>5
      <3> QED BY <1>n, <2>1, <3>1
    <2>6. CASE added # 0
      <3>1. credited[o] + added \in credited[o] + 1 .. Filled[o] /\ o \in Watched
        BY <1>t, <2>1, <2>2, <2>3, <2>4, <2>6
      <3>2. credited' = [credited EXCEPT ![o] = credited[o] + added]
        BY <2>1
      <3>3. Filled' = Filled /\ Watched' = Watched /\ Resting' = Resting
        BY <2>1
      <3> HIDE DEF o, added
      <3>4. Ledger!Credit(o)
        BY <3>1, <3>2, <3>3 DEF Ledger!Credit
      <3> QED BY <2>2, <3>4 DEF Ledger!LedgerNext
    <2> QED BY <2>5, <2>6
  <1>6. CASE SettleOrder
    <2>1. SatTypeOK'
      BY DEF OrderInv
    <2>2. CASE tick.status = "open"
      BY <1>6, <1>n, <2>1, <2>2, SettleFacts
    <2>3. CASE tick.status # "open"
      <3>1. /\ pend.id \in Orders /\ pend.id # 0 /\ orderFile = pend /\ orderFile'.id = 0
            /\ book[pend.id].status # "open" /\ credited[pend.id] = book[pend.id].filled
            /\ UNCHANGED <<book, credited>>
        BY <1>6, <2>1, <2>3, SettleFacts DEF NoResting
      <3>2. Ledger!Forget(pend.id)
        BY <3>1 DEF Ledger!Forget
      <3> QED BY <3>1, <3>2 DEF Ledger!LedgerNext
    <2> QED BY <2>2, <2>3
  <1>7. CASE MarkOrder
    <2>1. orderFile'.id = orderFile.id /\ UNCHANGED <<book, credited>>
      <3>1. up
        BY <1>7 DEF MarkOrder, OrderInv, FileInv, NoTick
      <3> QED BY <1>7, <3>1 DEF MarkOrder, OrderInv, FileInv, SatTypeOK, RestingType
    <2> QED BY <2>1, <1>n
  <1>8. CASE \/ LoseAck \/ Expire \/ BeginTick \/ ReadOrder \/ FailCancel \/ Reread \/ FailPoll \/ Hold
             \/ DecideExit \/ SellLimit \/ FailSell \/ LoseSale \/ SellRest \/ LoseRest \/ BookSale
             \/ SatCrash \/ Boot \/ UNCHANGED satVars
    <2>1. UNCHANGED <<book, orderFile, credited>>
      BY <1>8 DEF LoseAck, Expire, BeginTick, ReadOrder, FailCancel, Reread, FailPoll, Hold, DecideExit,
         SellLimit, FailSell, LoseSale, SellRest, LoseRest, BookSale, SatCrash, Boot, satVars, satFiles
    <2> QED BY <2>1, <1>n
  <1>9. AckOrder => placing \in Orders
    BY DEF AckOrder, OrderInv, SatTypeOK
  <1> QED BY <1>1, <1>2, <1>3, <1>4, <1>5, <1>6, <1>7, <1>8, <1>9 DEF SatNext, Poll, Exit, Ledger!LedgerNext

(* The polls keep the ledger's promise, for any number of orders of any size, polls that  *)
(* fail, cancels that race with fills, answers that are lost and restarts: every fill is    *)
(* credited once, and no order is forgotten before it is off the book and credited in full,  *)
(* unless the process dies between the two saves of one fill or between a sale and its       *)
(* booking, or the answer to a sale is lost.                                                *)
THEOREM PollsKeepTheLedger ==
  ASSUME NothingHalfDone
  PROVE  SatSpec => FillsCreditedOnce
  <1>1. OrderInv /\ [SatNext]_satVars => OrderInv'
    BY OrderStep
  <1>2. OrderInv /\ OrderInv' /\ [SatNext]_satVars => [Ledger!LedgerNext]_(Ledger!ledger)
    BY LedgerSteps
  <1> QED BY SatInitInv, LedgerStarts, <1>1, <1>2, PTL DEF SatSpec, FillsCreditedOnce, Ledger!LedgerSpec


-------------------------------------------------------------------------------
(* The exit, where an order can sell any fill.                                 *)

\* An exit that is on its way is on the leg and on its order.
ExitInv ==
  /\ OrderInv
  /\ up => posFile = pos
  /\ posFile.qty = 0 => posFile = NoPos
  /\ orderFile.exit => posFile = NoPos \/ posFile.exit
  /\ tick.at = "mark" => pos.exit
  /\ tick.at \in {"sell", "rest", "book"} => tick.closing
  /\ tick.closing => pend = NoResting \/ pend.exit

LEMMA ExitInit == SatInit => ExitInv
  <1> SUFFICES ASSUME SatInit PROVE ExitInv
    OBVIOUS
  <1> QED BY SatInitInv DEF SatInit, ExitInv, NoTick, NoPos, NoResting

\* A step that moves the tick on, but neither decides nor sells.
LEMMA ExitKept ==
  ASSUME ExitInv, OrderInv', UNCHANGED <<pos, posFile, pend, orderFile, up>>,
         tick'.at # "mark",
         tick'.at \in {"sell", "rest", "book"} => tick'.closing,
         tick'.closing => tick.closing
  PROVE  ExitInv'
  BY DEF ExitInv

LEMMA ExitStep ==
  ASSUME ExitInv, OrderInv', Floor = 1, [SatNext]_satVars
  PROVE  ExitInv'
  <1>t. /\ tick \in TickType /\ pend \in RestingType /\ pos \in PosType /\ (orderFile = pend \/ ~up)
        /\ SatTypeOK /\ SatTypeOK' /\ OrderInv
    BY DEF ExitInv, OrderInv, SatTypeOK, FileInv
  <1>u. ~up => tick = NoTick /\ placing = 0
    BY DEF ExitInv, OrderInv, FileInv, PlacingInv
  <1>1. CASE LoseAck \/ Expire \/ (\E o \in Orders, q \in MinOrder .. MaxQty : PlaceOrder(o, q))
             \/ (\E o \in Orders, f \in 1 .. MaxQty : FillOrder(o, f))
    <2>1. UNCHANGED <<pos, posFile, pend, orderFile, up, tick>>
      <3>1. CASE LoseAck \/ Expire
        BY <3>1 DEF LoseAck, Expire, satMemory, satFiles, satProcess
      <3>2. ASSUME NEW o \in Orders, NEW q \in MinOrder .. MaxQty, PlaceOrder(o, q)
            PROVE  UNCHANGED <<pos, posFile, pend, orderFile, up, tick>>
        BY <3>2 DEF PlaceOrder, satMemory, satFiles, satProcess
      <3>3. ASSUME NEW o \in Orders, NEW f \in 1 .. MaxQty, FillOrder(o, f)
            PROVE  UNCHANGED <<pos, posFile, pend, orderFile, up, tick>>
        BY <3>3 DEF FillOrder, satMemory, satFiles, satProcess
      <3> QED BY <1>1, <3>1, <3>2, <3>3
    <2> QED BY <2>1 DEF ExitInv
  <1>2. CASE BeginTick \/ ReadOrder \/ CancelOrder \/ FailCancel \/ Reread \/ FailPoll \/ Hold \/ FailSell \/ LoseSale
    <2>1. /\ tick'.at # "mark"
          /\ tick'.at \in {"sell", "rest", "book"} => tick'.closing
          /\ tick'.closing => tick.closing
      <3>1. CASE BeginTick \/ Hold \/ FailSell \/ LoseSale
        BY <3>1 DEF BeginTick, Hold, FailSell, LoseSale, NoTick
      <3>2. CASE ReadOrder \/ Reread
        <4>1. \E step \in {"cancel", "credit"} : Saw(step)
          BY <3>2 DEF ReadOrder, Reread
        <4>2. PICK step \in {"cancel", "credit"} : Saw(step)
          BY <4>1
        <4>3. tick'.at = step /\ tick'.closing = tick.closing
          BY <1>t, <4>2 DEF Saw, TickType
        <4> QED BY <4>3
      <3>3. CASE CancelOrder \/ FailCancel
        <4>1. Goto("reread")
          BY <3>3 DEF CancelOrder, FailCancel
        <4>2. tick'.at = "reread" /\ tick'.closing = tick.closing
          BY <1>t, <4>1 DEF Goto, TickType
        <4> QED BY <4>2
      <3>4. CASE FailPoll
        <4>1. tick'.at = AfterPoll /\ tick'.closing = tick.closing
          BY <1>t, <3>4 DEF FailPoll, Goto, TickType
        <4> QED BY <4>1 DEF AfterPoll
      <3> QED BY <1>2, <3>1, <3>2, <3>3, <3>4
    <2> QED BY <1>2, <2>1, ExitKept DEF BeginTick, ReadOrder, CancelOrder, FailCancel, Reread, FailPoll, Hold, FailSell,
               LoseSale, satMemory, satFiles, satProcess
  <1>3. CASE AckOrder
    <2>1. /\ up /\ pos = NoPos /\ orderFile'.exit = FALSE /\ orderFile' = pend' /\ placing # 0
          /\ UNCHANGED <<pos, posFile, tick, up>>
      BY <1>3 DEF AckOrder, ExitInv, OrderInv, PlacingInv, NoResting, satProcess
    <2>2. pos.qty = 0 /\ ~tick.closing /\ tick.at \notin SaleSteps
      BY <2>1 DEF ExitInv, OrderInv, TickInv, NoPos
    <2> QED BY <2>1, <2>2 DEF ExitInv, SaleSteps
  <1>4. CASE CreditFill
    <2>1. /\ tick.at = "credit" /\ tick'.at = "settle" /\ tick'.closing = tick.closing
          /\ UNCHANGED <<pend, orderFile, up>>
      BY <1>t, <1>4 DEF CreditFill, Goto, TickType, satProcess
    <2>2. up
      BY <1>u, <2>1 DEF NoTick
    <2>3. posFile' = pos' /\ (pos' = pos \/ pos'.exit = (pend.exit \/ pos.exit))
      BY <1>4, <2>2 DEF CreditFill, ExitInv
    <2>4. posFile'.qty = 0 => posFile' = NoPos
      BY <2>1, <2>2, <2>3 DEF OrderInv, CreditInv, Leg
    <2> QED BY <1>t, <2>1, <2>2, <2>3, <2>4 DEF ExitInv
  <1>5. CASE SettleOrder
    <2>1. /\ orderFile' = pend' /\ (pend' = NoResting \/ pend'.exit = pend.exit) /\ UNCHANGED <<pos, posFile, up>>
          /\ up /\ pend.id # 0
      BY <1>5, <1>t, SettleFacts
    <2>2. tick'.at \in {"sell", "decide"} /\ (tick'.at = "sell" => tick.closing) /\ tick'.closing = tick.closing
      BY <1>t, <1>5 DEF SettleOrder, Goto, AfterPoll, TickType
    <2>3. orderFile = pend /\ NoResting.exit = FALSE /\ pend # NoResting
      BY <1>t, <2>1 DEF NoResting
    <2> QED BY <2>1, <2>2, <2>3 DEF ExitInv
  <1>6. CASE DecideExit
    <2>1. /\ pos'.exit /\ posFile' = pos' /\ tick'.at = "mark" /\ tick'.closing = tick.closing /\ tick.at = "decide"
          /\ UNCHANGED <<pend, orderFile, up>>
      BY <1>t, <1>6 DEF DecideExit, Goto, TickType, PosType, satProcess
    <2>2. up
      BY <1>u, <2>1 DEF NoTick
    <2>3. posFile'.qty = 0 => posFile' = NoPos
      BY <2>1, <2>2 DEF OrderInv, CreditInv, Leg
    <2> QED BY <1>t, <2>1, <2>2, <2>3 DEF ExitInv
  <1>7. CASE MarkOrder
    <2>1. /\ tick.at = "mark" /\ tick'.at \in {"sell", "status"} /\ tick'.closing
          /\ (pend = NoResting => pend' = NoResting /\ orderFile' = orderFile)
          /\ (pend # NoResting => pend'.exit /\ orderFile' = pend')
          /\ UNCHANGED <<pos, posFile, up>>
      BY <1>t, <1>7 DEF MarkOrder, TickType, RestingType, satProcess
    <2>2. up /\ pos.exit
      BY <1>u, <2>1 DEF NoTick, ExitInv
    <2> QED BY <1>t, <2>1, <2>2 DEF ExitInv, NoResting
  <1>8. CASE SellLimit \/ SellRest \/ LoseRest
    <2>1. /\ tick.at \in {"sell", "rest"} /\ tick'.closing = tick.closing /\ tick'.at \in {"rest", "book"}
          /\ UNCHANGED <<pend, pos, orderFile, posFile, up>>
      <3>1. CASE SellLimit
        BY <1>t, <3>1 DEF SellLimit, TickType, satMemory, satFiles, satProcess
      <3>2. CASE SellRest
        BY <1>t, <3>2 DEF SellRest, TickType, satMemory, satFiles, satProcess
      <3>3. CASE LoseRest
        BY <1>t, <3>3 DEF LoseRest, Goto, TickType, satMemory, satFiles, satProcess
      <3> QED BY <1>8, <3>1, <3>2, <3>3
    <2> QED BY <2>1 DEF ExitInv
  <1>9. CASE BookSale
    <2>1. /\ tick.at = "book" /\ tick' = NoTick /\ UNCHANGED <<pend, orderFile, up>>
      BY <1>9 DEF BookSale, satProcess
    <2>2. up /\ tick'.at = "idle" /\ ~tick'.closing
      BY <1>u, <2>1 DEF NoTick
    <2>3. posFile' = pos' /\ (pos' = NoPos \/ pos'.exit = pos.exit)
      BY <1>9, <1>t, <2>2 DEF BookSale, ExitInv, PosType
    <2>4. posFile'.qty = 0 => posFile' = NoPos
      BY <2>1, <2>2, <2>3 DEF OrderInv, CreditInv, Leg
    <2>5. orderFile.exit => pos' = NoPos \/ pos'.exit
      <3>1. pos = posFile /\ (orderFile.exit => posFile = NoPos \/ posFile.exit)
        BY <2>2 DEF ExitInv
      <3>2. pos = NoPos => pos' = NoPos
        BY <2>1, <2>2 DEF ExitInv, OrderInv, TickInv, NoPos, SaleSteps
      <3> QED BY <2>3, <3>1, <3>2
    <2> QED BY <2>1, <2>2, <2>3, <2>4, <2>5 DEF ExitInv
  <1>10. CASE SatCrash
    <2>1. /\ ~up' /\ tick' = NoTick /\ UNCHANGED <<orderFile, posFile>>
      BY <1>10 DEF SatCrash, satFiles
    <2> QED BY <2>1 DEF ExitInv, NoTick
  <1>11. CASE Boot
    <2>1. /\ ~up /\ posFile' = (IF pos' = NoPos THEN posFile ELSE pos') /\ pos' = Leg /\ UNCHANGED <<orderFile, tick>>
      BY <1>11, <1>t, Boots DEF Boot
    <2>2. posFile.qty \in Nat
      BY <1>t DEF SatTypeOK, PosType
    <2>3. posFile' = posFile /\ pos' = posFile
      BY <2>1, <2>2 DEF Leg, ExitInv
    <2> QED BY <1>u, <2>1, <2>3 DEF ExitInv, NoTick
  <1>12. CASE UNCHANGED satVars
    BY <1>12 DEF satVars, ExitInv
  <1> QED BY <1>1, <1>2, <1>3, <1>4, <1>5, <1>6, <1>7, <1>8, <1>9, <1>10, <1>11, <1>12 DEF SatNext, Poll, Exit

\* Where any fill can be sold, the files know of every exit.
LEMMA ExitInFiles ==
  ASSUME ExitInv
  PROVE  Exiting <=> posFile.exit \/ orderFile.exit
  BY DEF ExitInv, Exiting, OrderInv, FileInv

(* An exit that was decided survives late fills, failed cancels, failed sells and restarts  *)
(* until the leg and its order are gone, unless the process dies between the two saves of     *)
(* one fill or between a sale and its booking, or the answer to a sale is lost; a fill too     *)
(* small to be restored (Floor > 1) would lose its exit with the leg.                          *)
THEOREM ExitIsKept ==
  ASSUME Floor = 1, NothingHalfDone
  PROVE  SatSpec => ExitSticks
  <1>1. ExitInv /\ [SatNext]_satVars => ExitInv'
    BY OrderStep, ExitStep DEF ExitInv
  <1>2. ExitInv /\ ExitInv' /\ [SatNext]_satVars =>
          [Exiting => Exiting' \/ (up' /\ pos' = NoPos /\ pend' = NoResting)]_satVars
    <2> SUFFICES ASSUME ExitInv, ExitInv', SatNext, posFile.exit \/ orderFile.exit,
                        ~(posFile'.exit \/ orderFile'.exit)
                 PROVE  up' /\ pos' = NoPos /\ pend' = NoResting
      <3>1. ASSUME ExitInv' PROVE Exiting' <=> posFile'.exit \/ orderFile'.exit
        BY <3>1 DEF ExitInv, Exiting, OrderInv, FileInv
      <3> QED BY ExitInFiles, <3>1
    <2>t. SatTypeOK /\ SatTypeOK' /\ OrderInv
      BY DEF ExitInv, OrderInv
    <2>1. CASE BookSale
      <3>1. /\ up /\ up' /\ tick.at = "book" /\ UNCHANGED <<pend, orderFile>> /\ posFile = pos
        BY <2>1 DEF BookSale, ExitInv, OrderInv, FileInv, NoTick, satProcess
      <3>2. pend = NoResting
        BY <3>1 DEF ExitInv, OrderInv, FileInv
      <3>3. pos.exit
        BY <3>1, <3>2 DEF ExitInv, OrderInv, FileInv, NoResting
      <3>4. pos' = NoPos
        <4>1. posFile' = pos'
          BY <3>1 DEF ExitInv
        <4>2. pos'.exit = pos.exit \/ pos' = NoPos
          BY <2>1, <2>t DEF BookSale, SatTypeOK, PosType
        <4> QED BY <3>3, <4>1, <4>2
      <3> QED BY <3>1, <3>2, <3>4
    <2>2. CASE SettleOrder
      <3>1. up /\ up' /\ UNCHANGED <<pos, posFile>> /\ orderFile' = pend' /\ (pend' = NoResting \/ pend'.exit = pend.exit)
            /\ orderFile = pend
        BY <2>2, <2>t, SettleFacts
      <3>2. posFile = NoPos /\ posFile = pos
        BY <3>1 DEF ExitInv
      <3> QED BY <3>1, <3>2
    <2>3. CASE CreditFill
      <3>1. up /\ UNCHANGED orderFile /\ (posFile' = posFile \/ posFile'.exit = (pend.exit \/ pos.exit))
        BY <2>3 DEF CreditFill, ExitInv, OrderInv, FileInv, NoTick
      <3> QED BY <3>1 DEF ExitInv, OrderInv, FileInv
    <2>4. CASE AckOrder
      <3>1. placing # 0 /\ UNCHANGED posFile
        BY <2>4 DEF AckOrder
      <3> QED BY <3>1 DEF ExitInv, OrderInv, PlacingInv, FileInv, NoPos, NoResting
    <2>5. CASE Boot
      <3>1. UNCHANGED orderFile /\ posFile' = (IF pos' = NoPos THEN posFile ELSE pos') /\ pos' = Leg /\ ~up
        BY <2>5, <2>t, Boots DEF Boot
      <3>2. posFile' = posFile
        BY <3>1 DEF Leg
      <3> QED BY <3>1, <3>2
    <2>6. CASE DecideExit
      BY <2>6, <2>t DEF DecideExit, SatTypeOK, PosType
    <2>7. CASE MarkOrder
      <3>1. UNCHANGED posFile /\ (orderFile' = orderFile \/ orderFile'.exit)
        BY <2>7, <2>t DEF MarkOrder, SatTypeOK, RestingType
      <3> QED BY <3>1
    <2>8. BookSale \/ SettleOrder \/ CreditFill \/ AckOrder \/ Boot \/ DecideExit \/ MarkOrder \/ UNCHANGED satFiles
      BY DEF SatNext, Poll, Exit, PlaceOrder, LoseAck, Expire, FillOrder, BeginTick, ReadOrder, CancelOrder, FailCancel,
         Reread, FailPoll, Hold, SellLimit, FailSell, LoseSale, SellRest, LoseRest, SatCrash
    <2> QED BY <2>1, <2>2, <2>3, <2>4, <2>5, <2>6, <2>7, <2>8 DEF satFiles
  <1> QED BY ExitInit, <1>1, <1>2, PTL DEF SatSpec, ExitSticks

-----------------------------------------------------------------------------
(* Sizes. *)

\* The arithmetic of a factor per mille, and of a share.
LEMMA ProductsGrow ==
  ASSUME NEW a \in Nat, NEW b \in Nat, NEW f \in Nat, NEW g \in Nat, a <= b, f <= g
  PROVE  a * f \in Nat /\ b * g \in Nat /\ a * f <= b * g
  <1> DEFINE d == b - a
             e == g - f
  <1>1. d \in Nat /\ e \in Nat /\ b = a + d /\ g = f + e
    OBVIOUS
  <1> HIDE DEF d, e
  <1>2. b * g = a * f + a * e + d * f + d * e
    BY <1>1
  <1>3. a * f \in Nat /\ a * e \in Nat /\ d * f \in Nat /\ d * e \in Nat
    BY <1>1
  <1> DEFINE p == a * f
             q == a * e
             r == d * f
             s == d * e
             u == b * g
  <1>4. p \in Nat /\ q \in Nat /\ r \in Nat /\ s \in Nat /\ u = p + q + r + s
    BY <1>2, <1>3
  <1> HIDE DEF p, q, r, s, u
  <1>5. u \in Nat /\ p <= u
    BY <1>4
  <1> QED BY <1>4, <1>5 DEF p, u

LEMMA SharesGrow ==
  ASSUME NEW x \in Nat, NEW y \in Nat, NEW d \in Nat, d > 0, x <= y
  PROVE  x \div d \in Nat /\ y \div d \in Nat /\ x \div d <= y \div d
  <1> DEFINE p == x \div d
             q == y \div d
  <1>1. p \in Int /\ x = d * p + (x % d) /\ x % d \in 0 .. d - 1
    OBVIOUS
  <1>2. q \in Int /\ y = d * q + (y % d) /\ y % d \in 0 .. d - 1
    OBVIOUS
  <1> DEFINE r == x % d
             s == y % d
  <1>3. p \in Int /\ q \in Int /\ r \in 0 .. d - 1 /\ s \in 0 .. d - 1 /\ x = d * p + r /\ y = d * q + s
    BY <1>1, <1>2
  <1> HIDE DEF p, q, r, s
  <1>4. ASSUME NEW n \in Int, NEW m \in Int, n < m PROVE d * n + d <= d * m
    <2> DEFINE k == m - n - 1
    <2>1. k \in Nat /\ m = n + 1 + k
      BY <1>4
    <2> HIDE DEF k
    <2>2. d * m = d * n + d + d * k /\ d * k \in Nat
      BY <2>1
    <2> QED BY <2>2
  <1>5. p <= q
    <2> SUFFICES ASSUME q < p PROVE FALSE
      BY <1>3
    <2>1. d * q + d <= d * p
      BY <1>3, <1>4
    <2> DEFINE u == d * q
               v == d * p
    <2>2. u \in Int /\ v \in Int /\ u + d <= v /\ x = v + r /\ y = u + s
      BY <1>3, <2>1
    <2> HIDE DEF u, v
    <2> QED BY <1>3, <2>2
  <1>6. 0 <= p /\ 0 <= q
    <2>1. ASSUME NEW n \in Int, n < 0 PROVE d * n + d <= 0
      <3>1. d * n + d <= d * 0
        BY <1>4, <2>1
      <3> QED BY <3>1
    <2>2. ASSUME NEW n \in Int, NEW k \in 0 .. d - 1, d * n + k \in Nat PROVE 0 <= n
      <3> SUFFICES ASSUME n < 0 PROVE FALSE
        OBVIOUS
      <3> DEFINE u == d * n
      <3>1. u \in Int /\ u + d <= 0 /\ u + k \in Nat
        BY <2>1, <2>2
      <3> HIDE DEF u
      <3> QED BY <3>1
    <2> QED BY <1>3, <2>2
  <1> QED BY <1>3, <1>5, <1>6 DEF p, q

\* More of a size, at no lower a factor, is no smaller a size.
LEMMA TimesGrow ==
  ASSUME NEW a \in Nat, NEW b \in Nat, NEW f \in Nat, NEW g \in Nat, a <= b, f <= g
  PROVE  Times(a, f) \in Nat /\ Times(b, g) \in Nat /\ Times(a, f) <= Times(b, g)
  <1> DEFINE x == a * f
             y == b * g
             k == 1000
  <1>1. x \in Nat /\ y \in Nat /\ x <= y
    BY ProductsGrow
  <1>2. k \in Nat /\ k > 0
    OBVIOUS
  <1> HIDE DEF x, y, k
  <1>3. x \div k \in Nat /\ y \div k \in Nat /\ x \div k <= y \div k
    BY <1>1, <1>2, SharesGrow
  <1> QED BY <1>3 DEF Times, x, y, k

LEMMA TimesIsNat == ASSUME NEW a \in Nat, NEW f \in Nat PROVE Times(a, f) \in Nat
  <1>1. a <= a /\ f <= f
    OBVIOUS
  <1> QED BY <1>1, TimesGrow

LEMMA TimesAll == ASSUME NEW a \in Nat PROVE Times(a, 1000) = a
  BY DEF Times

\* The greater and the lesser of two, as the clamps and floors take them.
LEMMA LargerOfTwo ==
  ASSUME NEW a \in Int, NEW b \in Int
  PROVE  Max({a, b}) = IF a >= b THEN a ELSE b
  <1> DEFINE S == {a, b}
  <1>1. \E m \in S : \A x \in S : m >= x
    OBVIOUS
  <1>2. Max(S) \in S /\ \A x \in S : Max(S) >= x
    <2> HIDE DEF S
    <2> QED BY <1>1 DEF Max
  <1> DEFINE m == Max(S)
  <1>3. m \in {a, b} /\ m >= a /\ m >= b
    BY <1>2
  <1> HIDE DEF m
  <1>4. m = IF a >= b THEN a ELSE b
    BY <1>3
  <1> QED BY <1>4 DEF m

LEMMA SmallerOfTwo ==
  ASSUME NEW a \in Int, NEW b \in Int
  PROVE  Min({a, b}) = IF a <= b THEN a ELSE b
  <1> DEFINE S == {a, b}
  <1>1. \E m \in S : \A x \in S : m <= x
    OBVIOUS
  <1>2. Min(S) \in S /\ \A x \in S : Min(S) <= x
    <2> HIDE DEF S
    <2> QED BY <1>1 DEF Min
  <1> DEFINE m == Min(S)
  <1>3. m \in {a, b} /\ m <= a /\ m <= b
    BY <1>2
  <1> HIDE DEF m
  <1>4. m = IF a <= b THEN a ELSE b
    BY <1>3
  <1> QED BY <1>4 DEF m

\* The factor of each brake.
Volatile(quarters)  == IF quarters = 0 THEN 1000 ELSE Limited(500, 2000, 4000 \div quarters)
Macro(bull)         == IF bull THEN 1000 ELSE MacroFactor
Trending(adx)       == CASE adx = "strong" -> BoostFactor [] adx = "chop" -> PenaltyFactor [] OTHER -> 1000
Sure(conf)          == IF conf >= ConfMid THEN 1000 + ((conf - ConfMid) * (ConfMax - 1000)) \div (100 - ConfMid)
                       ELSE ConfMin + (conf * (1000 - ConfMin)) \div ConfMid
Misaligned(reading) == IF Reduces(reading) THEN ReduceFactor ELSE 1000

\* The chain is a product of the factors and a floor.
LEMMA SizeIsChain ==
  ASSUME NEW conf \in Nat, NEW r \in ReadingType, BasePct \in Nat,
         Volatile(r.volatility) \in Nat, Macro(r.bull) \in Nat, Trending(r.adx) \in Nat, Sure(conf) \in Nat
  PROVE  Size(conf, r) =
           Floored(Times(Times(Times(Times(Times(BasePct, Volatile(r.volatility)), Macro(r.bull)),
                                     Trending(r.adx)), Sure(conf)), Misaligned(r)))
  <1> DEFINE a == Times(BasePct, Volatile(r.volatility))
             b == Times(a, Macro(r.bull))
             c == Times(b, Trending(r.adx))
             d == Times(c, Sure(conf))
  <1>1. a \in Nat /\ BySymbolVolatility(BasePct, r.volatility) = a
    <2>1. a \in Nat
      BY TimesIsNat
    <2> QED BY <2>1, TimesAll DEF BySymbolVolatility, Volatile
  <1> HIDE DEF a
  <1>2. b \in Nat /\ ByMacro(a, r.bull) = b
    <2>1. b \in Nat
      BY <1>1, TimesIsNat
    <2> QED BY <1>1, <2>1, TimesAll DEF ByMacro, Macro
  <1> HIDE DEF b
  <1>3. c \in Nat /\ ByTrend(b, r.adx) = c
    <2>1. c \in Nat
      BY <1>2, TimesIsNat
    <2> QED BY <1>2, <2>1, TimesAll DEF ByTrend, Trending
  <1> HIDE DEF c
  <1>4. d \in Nat /\ ByConfidence(c, conf) = d
    <2>1. d \in Nat
      BY <1>3, TimesIsNat
    <2> QED BY <2>1 DEF ByConfidence, Sure
  <1> HIDE DEF d
  <1>5. Size(conf, r) = Floored(IF Reduces(r) THEN Times(d, ReduceFactor) ELSE d)
    BY <1>1, <1>2, <1>3, <1>4 DEF Size
  <1>6. (IF Reduces(r) THEN Times(d, ReduceFactor) ELSE d) = Times(d, Misaligned(r))
    BY <1>4, TimesAll DEF Misaligned
  <1> QED BY <1>5, <1>6 DEF a, b, c, d

\* A factor is no greater in a worse market, or at a lower confidence.
LEMMA FactorsOfVolatility ==
  ASSUME NEW q \in Nat, NEW p \in Nat, p = q \/ (p # 0 /\ q > p)
  PROVE  Volatile(q) \in Nat /\ Volatile(p) \in Nat /\ Volatile(q) <= Volatile(p)
  <1>1. ASSUME NEW x \in Nat PROVE Limited(500, 2000, x) = IF x < 500 THEN 500 ELSE IF x > 2000 THEN 2000 ELSE x
    <2>1. Min({2000, x}) = IF x > 2000 THEN 2000 ELSE x
      BY SmallerOfTwo
    <2> DEFINE m == Min({2000, x})
    <2>2. m \in Int /\ m = IF x > 2000 THEN 2000 ELSE x
      BY <2>1
    <2> HIDE DEF m
    <2>3. Max({500, m}) = IF 500 >= m THEN 500 ELSE m
      BY <2>2, LargerOfTwo
    <2> QED BY <2>2, <2>3 DEF Limited, m
  <1>2. ASSUME NEW x \in Nat \ {0} PROVE 4000 \div x \in Nat
    OBVIOUS
  <1>3. ASSUME NEW x \in Nat PROVE Volatile(x) \in Nat
    BY <1>1, <1>2 DEF Volatile
  <1>4. CASE p = q
    BY <1>3, <1>4
  <1>5. CASE p # 0 /\ q > p
    <2> DEFINE u == 4000 \div q
               v == 4000 \div p
    <2>1. u \in Nat /\ v \in Nat
      BY <1>2, <1>5
    <2>2. u <= v
      <3>1. 4000 = q * u + (4000 % q) /\ 4000 % q \in 0 .. q - 1
        BY <1>5
      <3>2. 4000 = p * v + (4000 % p) /\ 4000 % p \in 0 .. p - 1
        BY <1>5
      <3> DEFINE s == 4000 % q
                 t == 4000 % p
                 k == 4000
      <3>3. s \in Nat /\ t \in 0 .. p - 1 /\ k \in Nat /\ k = q * u + s /\ k = p * v + t
        BY <3>1, <3>2
      <3> HIDE DEF u, v, s, t, k
      <3> SUFFICES ASSUME v + 1 <= u PROVE FALSE
        BY <2>1
      <3>4. p * (v + 1) \in Nat /\ q * u \in Nat /\ p * (v + 1) <= q * u
        BY <1>5, <2>1, ProductsGrow
      <3>5. p * (v + 1) = p * v + p /\ p * v \in Nat
        BY <2>1
      <3> DEFINE x == p * v
                 y == q * u
      <3>6. x \in Nat /\ y \in Nat /\ x + p <= y /\ k = y + s /\ k = x + t
        BY <3>3, <3>4, <3>5
      <3> HIDE DEF x, y
      <3> QED BY <3>3, <3>6
    <2>3. Volatile(q) = Limited(500, 2000, u) /\ Volatile(p) = Limited(500, 2000, v)
      BY <1>5 DEF Volatile
    <2> HIDE DEF u, v
    <2> QED BY <1>1, <2>1, <2>2, <2>3
  <1> QED BY <1>4, <1>5

LEMMA FactorsOfTrend ==
  ASSUME NEW a, NEW b, Trend(a) <= Trend(b)
  PROVE  Trending(a) \in Nat /\ Trending(b) \in Nat /\ Trending(a) <= Trending(b)
  <1>1. PenaltyFactor \in Nat /\ PenaltyFactor <= 1000 /\ BoostFactor \in Nat /\ BoostFactor >= 1000
    BY SizingAssumption
  <1> QED BY <1>1 DEF Trend, Trending

LEMMA FactorsOfConfidence ==
  ASSUME NEW c \in Nat, NEW e \in Nat, c <= e
  PROVE  Sure(c) \in Nat /\ Sure(e) \in Nat /\ Sure(c) <= Sure(e)
  <1> DEFINE rise == ConfMax - 1000
             fall == 1000 - ConfMin
             left == 100 - ConfMid
             mid == ConfMid
             High(x) == ((x - mid) * rise) \div left
             Low(x) == (x * fall) \div mid
  <1>1. rise \in Nat /\ fall \in Nat /\ left \in Nat /\ left > 0 /\ mid \in Nat /\ mid > 0
        /\ ConfMin \in Nat /\ ConfMin + fall = 1000
    BY SizingAssumption
  <1>2. \A x : Sure(x) = IF x >= mid THEN 1000 + High(x) ELSE ConfMin + Low(x)
    BY DEF Sure
  <1> HIDE DEF rise, fall, left, mid
  <1>3. ASSUME NEW x \in Nat, NEW y \in Nat, x <= y, x >= mid
        PROVE  High(x) \in Nat /\ High(y) \in Nat /\ High(x) <= High(y)
    <2> DEFINE p == x - mid
               q == y - mid
               u == p * rise
               v == q * rise
    <2>1. p \in Nat /\ q \in Nat /\ p <= q
      BY <1>1, <1>3
    <2> HIDE DEF p, q
    <2>2. u \in Nat /\ v \in Nat /\ u <= v
      BY <1>1, <2>1, ProductsGrow
    <2> HIDE DEF u, v
    <2>3. u \div left \in Nat /\ v \div left \in Nat /\ u \div left <= v \div left
      BY <1>1, <2>2, SharesGrow
    <2> QED BY <2>3 DEF u, v, p, q
  <1>4. ASSUME NEW x \in Nat, NEW y \in Nat, x <= y
        PROVE  Low(x) \in Nat /\ Low(y) \in Nat /\ Low(x) <= Low(y)
    <2> DEFINE u == x * fall
               v == y * fall
    <2>2. u \in Nat /\ v \in Nat /\ u <= v
      BY <1>1, <1>4, ProductsGrow
    <2> HIDE DEF u, v
    <2>3. u \div mid \in Nat /\ v \div mid \in Nat /\ u \div mid <= v \div mid
      BY <1>1, <2>2, SharesGrow
    <2> QED BY <2>3 DEF u, v
  <1>5. Low(mid) = fall
    BY <1>1
  <1> HIDE DEF High, Low
  <1>6. CASE c >= mid
    <2>1. e >= mid
      BY <1>1, <1>6
    <2> QED BY <1>1, <1>2, <1>3, <1>6, <2>1
  <1>7. CASE ~(c >= mid) /\ e >= mid
    <2>1. c <= mid /\ mid <= e /\ mid >= mid /\ e <= e
      BY <1>1, <1>7
    <2>2. Low(c) \in Nat /\ Low(c) <= fall
      BY <1>1, <1>4, <1>5, <2>1
    <2>3. High(e) \in Nat
      BY <1>1, <1>3, <2>1
    <2> QED BY <1>1, <1>2, <1>7, <2>2, <2>3
  <1>8. CASE ~(c >= mid) /\ ~(e >= mid)
    <2>1. Sure(c) = ConfMin + Low(c) /\ Sure(e) = ConfMin + Low(e)
      BY <1>2, <1>8
    <2>2. Low(c) \in Nat /\ Low(e) \in Nat /\ Low(c) <= Low(e)
      BY <1>4
    <2> DEFINE x == Low(c)
               y == Low(e)
    <2>3. x \in Nat /\ y \in Nat /\ x <= y /\ Sure(c) = ConfMin + x /\ Sure(e) = ConfMin + y
      BY <2>1, <2>2
    <2> HIDE DEF x, y
    <2> QED BY <1>1, <2>3
  <1> QED BY <1>6, <1>7, <1>8

\* The floor keeps the order of two sizes.
LEMMA FloorsGrow ==
  ASSUME NEW a \in Nat, NEW b \in Nat, a <= b
  PROVE  Floored(a) <= Floored(b)
  <1>1. BasePct \in Nat /\ SizeFloor \in Nat
    BY SizingAssumption
  <1> DEFINE f == Times(BasePct, SizeFloor)
  <1>2. f \in Nat
    BY <1>1, TimesIsNat
  <1>3. Floored(a) = IF SizeFloor = 0 THEN a ELSE Max({a, f})
    BY DEF Floored
  <1>4. Floored(b) = IF SizeFloor = 0 THEN b ELSE Max({b, f})
    BY DEF Floored
  <1> HIDE DEF f
  <1> QED BY <1>2, <1>3, <1>4, LargerOfTwo

\* A worse market at no higher a confidence never gives a larger size.
LEMMA WorseIsSmaller ==
  ASSUME NEW r \in ReadingType, NEW s \in ReadingType, NEW c \in Nat, NEW e \in Nat, c <= e, Worse(r, s)
  PROVE  Size(c, r) <= Size(e, s)
  <1>1. BasePct \in Nat /\ MacroFactor \in Nat /\ MacroFactor <= 1000 /\ ReduceFactor \in Nat /\ ReduceFactor <= 1000
    BY SizingAssumption
  <1>2. r.volatility \in Nat /\ s.volatility \in Nat /\ r.bull \in BOOLEAN /\ s.bull \in BOOLEAN
    BY DEF ReadingType
  <1>3. Volatile(r.volatility) \in Nat /\ Volatile(s.volatility) \in Nat /\ Volatile(r.volatility) <= Volatile(s.volatility)
    <2> DEFINE q == r.volatility
               p == s.volatility
    <2>1. q \in Nat /\ p \in Nat /\ (p = q \/ (p # 0 /\ q > p))
      BY <1>2 DEF Worse
    <2> HIDE DEF q, p
    <2>2. Volatile(q) \in Nat /\ Volatile(p) \in Nat /\ Volatile(q) <= Volatile(p)
      BY <2>1, FactorsOfVolatility
    <2> QED BY <2>2 DEF q, p
  <1>4. Macro(r.bull) \in Nat /\ Macro(s.bull) \in Nat /\ Macro(r.bull) <= Macro(s.bull)
    BY <1>1, <1>2 DEF Macro, Worse
  <1>5. Trending(r.adx) \in Nat /\ Trending(s.adx) \in Nat /\ Trending(r.adx) <= Trending(s.adx)
    BY FactorsOfTrend DEF Worse
  <1>6. Sure(c) \in Nat /\ Sure(e) \in Nat /\ Sure(c) <= Sure(e)
    BY FactorsOfConfidence
  <1>7. Misaligned(r) \in Nat /\ Misaligned(s) \in Nat /\ Misaligned(r) <= Misaligned(s)
    <2>1. Reduces(s) => Reduces(r)
      BY DEF Worse, Reduces, Objects
    <2> QED BY <1>1, <2>1 DEF Misaligned
  <1> DEFINE v == Volatile(r.volatility)
             w == Volatile(s.volatility)
             a1 == Times(BasePct, v)
             b1 == Times(BasePct, w)
             a2 == Times(a1, Macro(r.bull))
             b2 == Times(b1, Macro(s.bull))
             a3 == Times(a2, Trending(r.adx))
             b3 == Times(b2, Trending(s.adx))
             a4 == Times(a3, Sure(c))
             b4 == Times(b3, Sure(e))
             a5 == Times(a4, Misaligned(r))
             b5 == Times(b4, Misaligned(s))
  <1>8. Size(c, r) = Floored(a5) /\ Size(e, s) = Floored(b5)
    BY <1>1, <1>3, <1>4, <1>5, <1>6, SizeIsChain
  <1>9. a1 \in Nat /\ b1 \in Nat /\ a1 <= b1
    <2>1. BasePct <= BasePct /\ v \in Nat /\ w \in Nat /\ v <= w
      BY <1>1, <1>3
    <2> HIDE DEF v, w
    <2> QED BY <1>1, <2>1, TimesGrow
  <1> HIDE DEF a1, b1
  <1>10. a2 \in Nat /\ b2 \in Nat /\ a2 <= b2
    BY <1>4, <1>9, TimesGrow
  <1> HIDE DEF a2, b2
  <1>11. a3 \in Nat /\ b3 \in Nat /\ a3 <= b3
    BY <1>5, <1>10, TimesGrow
  <1> HIDE DEF a3, b3
  <1>12. a4 \in Nat /\ b4 \in Nat /\ a4 <= b4
    BY <1>6, <1>11, TimesGrow
  <1> HIDE DEF a4, b4
  <1>13. a5 \in Nat /\ b5 \in Nat /\ a5 <= b5
    BY <1>7, <1>12, TimesGrow
  <1> HIDE DEF a5, b5
  <1> QED BY <1>8, <1>13, FloorsGrow
-----------------------------------------------------------------------------
(* Votes. *)

Weights(b)   == [i \in DOMAIN b |-> b[i].conf * b[i].weight]
Side(b, d)   == {i \in DOMAIN b : b[i].signal = d}
Behind(b, d) == SumFunctionOnSet(Weights(b), Side(b, d))

\* What is behind a direction without one vote, and what that vote puts there.
Without(b, d, i) == SumFunctionOnSet(Weights(b), Side(b, d) \ {i})
Puts(b, d, i)    == IF b[i].signal = d THEN Weights(b)[i] ELSE 0

LEMMA VoteFields ==
  ASSUME NEW b \in Seq(Votes), NEW i \in DOMAIN b
  PROVE  /\ b[i].signal \in Directions /\ b[i].conf \in Nat /\ b[i].weight \in Nat
         /\ Weights(b)[i] \in Nat /\ Weights(b)[i] = b[i].conf * b[i].weight
  <1>1. b[i] \in Votes
    OBVIOUS
  <1>2. b[i].signal \in Directions /\ b[i].conf \in Nat /\ b[i].weight \in Nat
    BY <1>1 DEF Votes
  <1>3. Weights(b)[i] = b[i].conf * b[i].weight
    BY DEF Weights
  <1> DEFINE u == b[i].conf
             v == b[i].weight
  <1>4. u \in Nat /\ v \in Nat
    BY <1>2
  <1> HIDE DEF u, v
  <1>5. u * v \in Nat
    BY <1>4
  <1> QED BY <1>2, <1>3, <1>5 DEF u, v

\* Any part of what is behind a direction has a sum.
LEMMA SidesAreSummed ==
  ASSUME NEW b \in Seq(Votes), NEW d, NEW S \in SUBSET Side(b, d)
  PROVE  Summable(Weights(b), S) /\ SumFunctionOnSet(Weights(b), S) \in Nat
  <1>1. \A i \in S : i \in DOMAIN b
    BY DEF Side
  <1>2. IsFiniteSet(S)
    <2>1. Len(b) \in Nat /\ DOMAIN b = 1 .. Len(b)
      OBVIOUS
    <2>2. IsFiniteSet(1 .. Len(b))
      BY <2>1, FS_Interval
    <2> QED BY <1>1, <2>1, <2>2, FS_Subset
  <1>3. \A i \in S : Weights(b)[i] \in Nat
    BY <1>1, VoteFields
  <1>4. Summable(Weights(b), S)
    BY <1>2, <1>3 DEF Summable
  <1> QED BY <1>3, <1>4, SumIsNat

\* What is behind a direction: one vote, and the others.
LEMMA OneVote ==
  ASSUME NEW b \in Seq(Votes), NEW d, NEW i \in DOMAIN b
  PROVE  Without(b, d, i) \in Nat /\ Behind(b, d) = Without(b, d, i) + Puts(b, d, i)
  <1> DEFINE S == Side(b, d)
             f == Weights(b)
             rest == SumFunctionOnSet(f, S \ {i})
  <1>1. rest \in Nat /\ Summable(f, S)
    BY SidesAreSummed
  <1>2. CASE b[i].signal = d
    <2>1. i \in S
      BY <1>2 DEF Side
    <2> HIDE DEF S, f
    <2>2. SumFunctionOnSet(f, S) = f[i] + SumFunctionOnSet(f, S \ {i})
      BY <1>1, <2>1, SumTakes
    <2>3. f[i] \in Nat
      BY VoteFields DEF f
    <2>4. SumFunctionOnSet(f, S) = rest + f[i]
      BY <1>1, <2>2, <2>3
    <2> QED BY <1>1, <1>2, <2>4 DEF Behind, Without, Puts, S, f
  <1>3. CASE b[i].signal # d
    <2>1. S \ {i} = S
      BY <1>3 DEF Side
    <2>2. SumFunctionOnSet(f, S) = rest
      BY <2>1
    <2> HIDE DEF S, f, rest
    <2>3. SumFunctionOnSet(f, S) = rest + 0
      BY <1>1, <2>2
    <2> QED BY <1>1, <1>3, <2>3 DEF Behind, Without, Puts, S, f, rest
  <1> QED BY <1>2, <1>3

\* w is b with its i-th vote turned to BUY, or a BUY made surer.
Turned(b, w, i) ==
  /\ w \in Seq(Votes) /\ i \in DOMAIN b /\ DOMAIN w = DOMAIN b /\ Len(w) = Len(b)
  /\ \A j \in DOMAIN b : j # i => w[j] = b[j]
  /\ w[i].signal = "BUY" /\ w[i].weight = b[i].weight /\ w[i].conf >= b[i].conf

\* A vote that turns leaves what the others put where it was.
LEMMA OthersStay ==
  ASSUME NEW b \in Seq(Votes), NEW w, NEW i, Turned(b, w, i), NEW d
  PROVE  Without(w, d, i) = Without(b, d, i)
  <1> DEFINE S == Side(b, d) \ {i}
  <1>1. Side(w, d) \ {i} = S
    BY DEF Turned, Side
  <1>2. Summable(Weights(b), S)
    BY SidesAreSummed
  <1>3. \A j \in S : Weights(w)[j] = Weights(b)[j]
    BY DEF Turned, Side, Weights
  <1>4. SumFunctionOnSet(Weights(w), S) = SumFunctionOnSet(Weights(b), S)
    <2> HIDE DEF S
    <2> QED BY <1>2, <1>3, SumAgrees
  <1> QED BY <1>1, <1>4 DEF Without

\* It adds to BUY and takes from the others.
LEMMA TurnedTally ==
  ASSUME NEW b \in Seq(Votes), NEW w, NEW i, Turned(b, w, i)
  PROVE  /\ Behind(w, "BUY") >= Behind(b, "BUY")
         /\ \A d \in {"SELL", "HOLD"} : Behind(w, d) <= Behind(b, d)
  <1>1. i \in DOMAIN b /\ i \in DOMAIN w /\ w \in Seq(Votes)
    BY DEF Turned
  <1>2. Weights(b)[i] \in Nat /\ Weights(w)[i] \in Nat /\ Weights(w)[i] >= Weights(b)[i]
    <2> DEFINE c == b[i].conf
               e == w[i].conf
               v == b[i].weight
    <2>1. c \in Nat /\ e \in Nat /\ v \in Nat /\ c <= e /\ Weights(b)[i] = c * v /\ Weights(w)[i] = e * v
      BY <1>1, VoteFields DEF Turned
    <2> HIDE DEF c, e, v
    <2> DEFINE m == e - c
    <2>2. m \in Nat /\ e = c + m
      BY <2>1
    <2> HIDE DEF m
    <2>3. e * v = c * v + m * v /\ m * v \in Nat /\ c * v \in Nat
      BY <2>1, <2>2
    <2> DEFINE x == c * v
               y == m * v
    <2>4. x \in Nat /\ y \in Nat /\ Weights(b)[i] = x /\ Weights(w)[i] = x + y
      BY <2>1, <2>3
    <2> HIDE DEF x, y
    <2> QED BY <2>4
  <1>3. ASSUME NEW d
        PROVE  /\ Without(b, d, i) \in Nat
               /\ Behind(b, d) = Without(b, d, i) + Puts(b, d, i)
               /\ Behind(w, d) = Without(b, d, i) + Puts(w, d, i)
    BY <1>1, OneVote, OthersStay
  <1>4. w[i].signal = "BUY"
    BY DEF Turned
  <1>5. Behind(w, "BUY") >= Behind(b, "BUY")
    <2>1. Puts(b, "BUY", i) <= Puts(w, "BUY", i) /\ Puts(b, "BUY", i) \in Nat /\ Puts(w, "BUY", i) \in Nat
      BY <1>2, <1>4 DEF Puts
    <2> QED BY <1>3, <2>1
  <1>6. ASSUME NEW d \in {"SELL", "HOLD"} PROVE Behind(w, d) <= Behind(b, d)
    <2>1. Puts(w, d, i) = 0 /\ Puts(b, d, i) \in Nat
      BY <1>2, <1>4 DEF Puts
    <2> QED BY <1>3, <2>1
  <1> QED BY <1>5, <1>6

\* The heaviest of the three.
LEMMA TopIs ==
  ASSUME NEW tally, \A d \in Directions : tally[d] \in Nat
  PROVE  /\ Top(tally) \in Nat
         /\ \E d \in Directions : Top(tally) = tally[d]
         /\ \A d \in Directions : tally[d] <= Top(tally)
  <1> DEFINE S == {tally[d] : d \in Directions}
  <1>1. S \in SUBSET Int /\ S # {} /\ IsFiniteSet(S)
    <2>1. S = {tally["BUY"], tally["SELL"], tally["HOLD"]}
      BY DEF Directions
    <2>2. IsFiniteSet(S)
      <3>1. IsFiniteSet({tally["BUY"]} \cup {tally["SELL"]} \cup {tally["HOLD"]})
        BY FS_Singleton, FS_Union
      <3>2. S = {tally["BUY"]} \cup {tally["SELL"]} \cup {tally["HOLD"]}
        BY <2>1
      <3> QED BY <3>1, <3>2
    <2>3. S # {}
      BY <2>1
    <2> QED BY <2>2, <2>3
  <1>2. Max(S) \in S /\ \A x \in S : x <= Max(S)
    <2> HIDE DEF S
    <2> QED BY <1>1, MaxIsGreatest
  <1>3. Top(tally) = Max(S)
    BY DEF Top
  <1> QED BY <1>2, <1>3

LEMMA TallyIs ==
  ASSUME NEW b \in Seq(Votes)
  PROVE  \A d \in Directions : Tally(b)[d] = Behind(b, d) /\ Behind(b, d) \in Nat
  <1>1. \A d : Behind(b, d) \in Nat
    BY SidesAreSummed DEF Behind
  <1>2. Tally(b) = [BUY |-> Behind(b, "BUY"), SELL |-> Behind(b, "SELL"), HOLD |-> Behind(b, "HOLD")]
    BY DEF Tally, Behind, Weights, Side
  <1>3. Tally(b)["BUY"] = Behind(b, "BUY") /\ Tally(b)["SELL"] = Behind(b, "SELL") /\ Tally(b)["HOLD"] = Behind(b, "HOLD")
    BY <1>2
  <1> QED BY <1>1, <1>3 DEF Directions

\* A BUY is what outweighs both others, and suffices.
LEMMA VotedBuy ==
  ASSUME NEW b \in Seq(Votes)
  PROVE  Voted(b) = "BUY" <=> /\ Behind(b, "BUY") > Behind(b, "SELL") /\ Behind(b, "BUY") > Behind(b, "HOLD")
                              /\ ~(Confidence(b) < MinConfidence)
  <1> DEFINE tally == Tally(b)
             top == Top(tally)
  <1>1. \A d \in Directions : tally[d] = Behind(b, d) /\ tally[d] \in Nat
    BY TallyIs
  <1>2. top \in Nat /\ (\E d \in Directions : top = tally[d]) /\ \A d \in Directions : tally[d] <= top
    <2> HIDE DEF tally
    <2> QED BY <1>1, TopIs
  <1> DEFINE B == tally["BUY"]
             S == tally["SELL"]
             H == tally["HOLD"]
  <1>3. /\ B = Behind(b, "BUY") /\ S = Behind(b, "SELL") /\ H = Behind(b, "HOLD")
        /\ B \in Nat /\ S \in Nat /\ H \in Nat
    BY <1>1 DEF Directions
  <1>4. Tied(tally) <=> \E c, d \in Directions : c # d /\ tally[c] = top /\ tally[d] = top
    BY DEF Tied
  <1>5. Winner(tally) = IF top = 0 THEN "HOLD" ELSE CHOOSE d \in Directions : tally[d] = top
    BY DEF Winner
  <1>6. Voted(b) = IF Tied(tally) \/ Confidence(b) < MinConfidence THEN "HOLD" ELSE Winner(tally)
    BY DEF Voted
  <1> HIDE DEF tally, top
  <1>7. ASSUME Voted(b) = "BUY" PROVE B > S /\ B > H /\ ~(Confidence(b) < MinConfidence)
    <2>1. ~Tied(tally) /\ ~(Confidence(b) < MinConfidence) /\ Winner(tally) = "BUY"
      BY <1>6, <1>7
    <2>2. B = top
      <3>1. \E d \in Directions : tally[d] = top
        BY <1>2
      <3>2. (CHOOSE d \in Directions : tally[d] = top) = "BUY"
        BY <1>5, <2>1
      <3> QED BY <3>1, <3>2
    <2>3. S # top /\ H # top
      BY <1>4, <2>1, <2>2 DEF Directions
    <2>4. S <= top /\ H <= top
      BY <1>2 DEF Directions
    <2> QED BY <1>2, <1>3, <2>1, <2>2, <2>3, <2>4
  <1>8. ASSUME B > S, B > H, ~(Confidence(b) < MinConfidence) PROVE Voted(b) = "BUY"
    <2>1. top = B
      <3>1. B <= top /\ top \in {B, S, H}
        BY <1>2 DEF Directions
      <3> QED BY <1>2, <1>3, <1>8, <3>1
    <2>2. S # top /\ H # top /\ top # 0
      BY <1>3, <1>8, <2>1
    <2>3. \A d \in Directions : tally[d] = top <=> d = "BUY"
      BY <2>1, <2>2 DEF Directions
    <2>4. ~Tied(tally)
      BY <1>4, <2>3
    <2>5. (CHOOSE d \in Directions : tally[d] = top) = "BUY"
      <3>1. "BUY" \in Directions
        BY DEF Directions
      <3> QED BY <2>3, <3>1
    <2> QED BY <1>5, <1>6, <1>8, <2>2, <2>4, <2>5
  <1> QED BY <1>3, <1>7, <1>8

LEMMA TopOfBuy ==
  ASSUME NEW b \in Seq(Votes), Voted(b) = "BUY"
  PROVE  Top(Tally(b)) = Behind(b, "BUY")
  <1> DEFINE tally == Tally(b)
             top == Top(tally)
  <1>1. \A d \in Directions : tally[d] = Behind(b, d) /\ tally[d] \in Nat
    BY TallyIs
  <1>2. top \in Nat /\ (\E d \in Directions : top = tally[d]) /\ \A d \in Directions : tally[d] <= top
    <2> HIDE DEF tally
    <2> QED BY <1>1, TopIs
  <1> HIDE DEF tally, top
  <1>3. top \in {Behind(b, "BUY"), Behind(b, "SELL"), Behind(b, "HOLD")} /\ Behind(b, "BUY") <= top
        /\ Behind(b, "BUY") \in Nat /\ Behind(b, "SELL") \in Nat /\ Behind(b, "HOLD") \in Nat
    BY <1>1, <1>2 DEF Directions
  <1>4. Behind(b, "BUY") > Behind(b, "SELL") /\ Behind(b, "BUY") > Behind(b, "HOLD")
    BY VotedBuy
  <1>5. top = Behind(b, "BUY")
    BY <1>2, <1>3, <1>4
  <1> QED BY <1>5 DEF top, tally

LEMMA ConfidenceIsNat ==
  ASSUME NEW b \in Seq(Votes)
  PROVE  Confidence(b) \in Nat
  <1> DEFINE top == Top(Tally(b))
             n == Len(b)
  <1>1. top \in Nat
    <2>1. \A d \in Directions : Tally(b)[d] \in Nat
      BY TallyIs
    <2> QED BY <2>1, TopIs
  <1>2. n \in Nat /\ (b # <<>> => n > 0)
    OBVIOUS
  <1>3. Confidence(b) = IF b = <<>> THEN 0 ELSE top \div n
    BY DEF Confidence
  <1> HIDE DEF top, n
  <1>4. ASSUME n > 0 PROVE top \div n \in Nat
    <2>1. top <= top
      BY <1>1
    <2> QED BY <1>1, <1>2, <1>4, <2>1, SharesGrow
  <1> QED BY <1>2, <1>3, <1>4

LEMMA ClampIs ==
  ASSUME NEW low \in Int, NEW high \in Int, low <= high, NEW x \in Int
  PROVE  Clamp(low, high, x) \in low .. high
  <1> DEFINE m == Min({high, x})
  <1>1. m = IF high <= x THEN high ELSE x
    BY SmallerOfTwo
  <1>2. m \in Int /\ m <= high
    BY <1>1
  <1> HIDE DEF m
  <1>3. Max({low, m}) = IF low >= m THEN low ELSE m
    BY <1>2, LargerOfTwo
  <1> QED BY <1>2, <1>3 DEF Clamp, m

LEMMA ThresholdIsInt == MinConfidence \in Int
  <1> DEFINE x == (RawConfidence * Scale) \div 100
  <1>1. RawConfidence \in Int /\ Scale \in Int
    <2>1. \A y \in {RawConfidence, Scale, Tighten, Loosen} : y \in 0 .. 100
      BY VotingAssumption, Zenon
    <2> QED BY <2>1
  <1>2. x \in Int
    BY <1>1
  <1> HIDE DEF x
  <1> DEFINE low == 0
             high == 100
  <1>3. low \in Int /\ high \in Int /\ low <= high
    OBVIOUS
  <1> HIDE DEF low, high
  <1>4. Clamp(low, high, x) \in low .. high
    BY <1>2, <1>3, ClampIs
  <1>5. Clamp(low, high, x) \in Int
    BY <1>3, <1>4
  <1> QED BY <1>5 DEF MinConfidence, low, high, x

\* A vote that turns to BUY leaves a BUY a BUY, and no less sure.
LEMMA TurnedStays ==
  ASSUME NEW b \in Seq(Votes), NEW w, NEW i, Turned(b, w, i), Voted(b) = "BUY"
  PROVE  Voted(w) = "BUY" /\ Confidence(w) >= Confidence(b)
  <1>1. w \in Seq(Votes) /\ i \in DOMAIN b /\ Len(w) = Len(b)
    BY DEF Turned
  <1> DEFINE B == Behind(b, "BUY")
             S == Behind(b, "SELL")
             H == Behind(b, "HOLD")
             WB == Behind(w, "BUY")
             WS == Behind(w, "SELL")
             WH == Behind(w, "HOLD")
             n == Len(b)
  <1>2. B \in Nat /\ S \in Nat /\ H \in Nat /\ WB \in Nat /\ WS \in Nat /\ WH \in Nat
    BY <1>1, TallyIs DEF Directions
  <1>3. WB >= B /\ WS <= S /\ WH <= H
    BY TurnedTally
  <1>4. B > S /\ B > H /\ ~(Confidence(b) < MinConfidence)
    BY VotedBuy
  <1>5. Top(Tally(b)) = B
    BY TopOfBuy
  <1>6. n \in Nat /\ n > 0 /\ b # <<>> /\ w # <<>>
    BY <1>1
  <1>7. Confidence(b) = B \div n
    BY <1>5, <1>6 DEF Confidence
  <1> DEFINE top == Top(Tally(w))
  <1>8. top \in Nat /\ WB <= top
    <2>1. \A d \in Directions : Tally(w)[d] = Behind(w, d) /\ Tally(w)[d] \in Nat
      BY <1>1, TallyIs
    <2>2. top \in Nat /\ \A d \in Directions : Tally(w)[d] <= top
      BY <2>1, TopIs
    <2> QED BY <2>1, <2>2 DEF Directions
  <1>9. Confidence(w) = top \div n
    BY <1>1, <1>6 DEF Confidence
  <1> HIDE DEF B, S, H, WB, WS, WH, n, top
  <1>10. B <= top
    BY <1>2, <1>3, <1>8
  <1>11. Confidence(b) <= Confidence(w)
    BY <1>2, <1>6, <1>7, <1>8, <1>9, <1>10, SharesGrow
  <1>12. Confidence(b) \in Nat /\ Confidence(w) \in Nat /\ MinConfidence \in Int
    BY <1>1, ConfidenceIsNat, ThresholdIsInt
  <1>13. WB > WS /\ WB > WH /\ ~(Confidence(w) < MinConfidence)
    BY <1>2, <1>3, <1>4, <1>11, <1>12
  <1>14. Voted(w) = "BUY"
    BY <1>1, <1>13, VotedBuy DEF WB, WS, WH
  <1> QED BY <1>11, <1>12, <1>14

\* The memory of the last decision asks no more of the surer ballot.
LEMMA TurnedBuys ==
  ASSUME NEW b \in Seq(Votes), NEW w, NEW i, Turned(b, w, i), NEW previous, Aggregated(b, previous) = "BUY"
  PROVE  Aggregated(w, previous) = "BUY"
  <1>1. Voted(b) = "BUY" /\ (previous # "BUY" => ~(Confidence(b) < MinConfidence + Margin))
    BY DEF Aggregated
  <1>2. Voted(w) = "BUY" /\ Confidence(w) >= Confidence(b)
    BY <1>1, TurnedStays
  <1>3. Confidence(b) \in Nat /\ Confidence(w) \in Nat /\ MinConfidence \in Int /\ Margin \in Int
    <2>1. w \in Seq(Votes)
      BY DEF Turned
    <2> QED BY <2>1, ConfidenceIsNat, ThresholdIsInt, AggregatorAssumption
  <1>4. previous # "BUY" => ~(Confidence(w) < MinConfidence + Margin)
    BY <1>1, <1>2, <1>3
  <1> QED BY <1>2, <1>4 DEF Aggregated

-----------------------------------------------------------------------------
(* The aggregator. *)

External == [source : Sources, signal : Directions, conf : Int, age : Int]

\* Cutting leaves signals.
LEMMA FewAre ==
  ASSUME NEW u \in Seq(External)
  PROVE  LastFew(u) \in Seq(External)
  <1> DEFINE m == Len(u) - MaxExternal + 1
             first == Max({1, m})
  <1>1. m \in Int /\ Len(u) \in Int
    BY AggregatorAssumption
  <1>2. first \in Int /\ first >= 1
    <2> HIDE DEF m
    <2> QED BY <1>1, LargerOfTwo
  <1> HIDE DEF first
  <1>3. \A j \in first .. Len(u) : u[j] \in External
    BY <1>2
  <1>4. SubSeq(u, first, Len(u)) \in Seq(External)
    BY <1>1, <1>2, <1>3
  <1> QED BY <1>4 DEF LastFew, first

\* Pruning leaves signals.
LEMMA PrunedAre ==
  ASSUME NEW s \in Seq(External)
  PROVE  Unexpired(s) \in Seq(External) /\ Pruned(s) \in Seq(External)
  <1> DEFINE D == SUBSET (1 .. Len(s))
             Taken(g, S) == IF s[Max(S)].age <= TTL THEN Append(g[S \ {Max(S)}], s[Max(S)]) ELSE g[S \ {Max(S)}]
             Folds(g) == g = [S \in D |-> IF S = {} THEN <<>> ELSE Taken(g, S)]
             f == [p \in Seq(External) \X External |-> IF p[2].age <= TTL THEN Append(p[1], p[2]) ELSE p[1]]
             h == CHOOSE g : Folds(g)
  <1>1. Unexpired(s) = h[1 .. Len(s)]
    <2>1. DOMAIN s = 1 .. Len(s)
      OBVIOUS
    <2> QED BY <2>1 DEF Unexpired, FoldLeft, MapThenFoldSet
  <1>2. \E g : Folds(g)
    <2>1. f \in [Seq(External) \X External -> Seq(External)]
      OBVIOUS
    <2>2. Len(s) \in Nat /\ Len(s) <= Len(s)
      OBVIOUS
    <2>3. PICK g \in [D -> Seq(External)] :
            \A S \in D : g[S] = IF S = {} THEN <<>> ELSE f[g[S \ {Max(S)}], s[Max(S)]]
      <3> DEFINE base == <<>>
      <3>1. base \in Seq(External)
        OBVIOUS
      <3> HIDE DEF f, base
      <3>2. \E g : IsFold(g, Seq(External), f, base, s, Len(s))
        BY <2>1, <2>2, <3>1, FoldExists
      <3> QED BY <3>2 DEF base, IsFold
    <2>4. ASSUME NEW S \in D, S # {} PROVE f[g[S \ {Max(S)}], s[Max(S)]] = Taken(g, S)
      <3>1. Max(S) \in S
        BY <2>2, <2>4, LastPosition
      <3>2. S \ {Max(S)} \in D /\ Max(S) \in 1 .. Len(s)
        BY <3>1
      <3>3. g[S \ {Max(S)}] \in Seq(External) /\ s[Max(S)] \in External
        BY <3>2
      <3> QED BY <3>3
    <2>5. Folds(g)
      <3> HIDE DEF f, Taken
      <3>1. g = [S \in D |-> g[S]]
        BY <2>3
      <3>2. \A S \in D : g[S] = IF S = {} THEN <<>> ELSE Taken(g, S)
        BY <2>3, <2>4
      <3> QED BY <3>1, <3>2
    <2> QED BY <2>5
  <1>3. Folds(h)
    <2> HIDE DEF Folds
    <2> QED BY <1>2
  <1>4. h[{}] = <<>>
    BY <1>3, Zenon
  <1>5. ASSUME NEW S \in D, S # {}, h[S \ {Max(S)}] \in Seq(External) PROVE h[S] \in Seq(External)
    <2> HIDE DEF h
    <2>0. Len(s) \in Nat
      OBVIOUS
    <2>1. Max(S) \in 1 .. Len(s)
      <3>1. Max(S) \in S
        BY <1>5, <2>0, LastPosition
      <3> QED BY <3>1
    <2>2. s[Max(S)] \in External
      BY <2>1
    <2>3. h[S] = Taken(h, S)
      <3> HIDE DEF Taken
      <3> QED BY <1>3, <1>5
    <2> QED BY <1>5, <2>2, <2>3
  <1> HIDE DEF h
  <1>6. Unexpired(s) \in Seq(External)
    <2> DEFINE n == Len(s)
               A == Seq(External)
    <2>1. n \in Nat /\ h[{}] \in A
      BY <1>4
    <2>2. \A S \in SUBSET (1 .. n) : S # {} /\ h[S \ {Max(S)}] \in A => h[S] \in A
      BY <1>5
    <2> HIDE DEF n, A
    <2>3. h[1 .. n] \in A
      BY <2>1, <2>2, FoldStays
    <2> QED BY <1>1, <2>3 DEF n, A
  <1>7. Pruned(s) \in Seq(External)
    BY <1>6, FewAre DEF Pruned
  <1> QED BY <1>6, <1>7

\* The ballot of strategies and what is kept of the signals.
LEMMA BallotIs ==
  ASSUME NEW b \in Seq(Votes), NEW kept \in Seq(External)
  PROVE  /\ Ballot(b, kept) \in Seq(Votes)
         /\ Len(Ballot(b, kept)) = Len(b) + Len(kept)
         /\ \A j \in 1 .. Len(b) : Ballot(b, kept)[j] = b[j]
         /\ \A j \in 1 .. Len(kept) : Ballot(b, kept)[Len(b) + j] = VoteOf(kept[j])
  <1> DEFINE e == [j \in DOMAIN kept |-> VoteOf(kept[j])]
  <1>1. ASSUME NEW j \in DOMAIN kept PROVE VoteOf(kept[j]) \in Votes
    <2>1. kept[j] \in External
      OBVIOUS
    <2>2. kept[j].source \in Sources /\ kept[j].signal \in Directions /\ kept[j].conf \in Int
      BY <2>1 DEF External
    <2>3. Clamp(0, 10, kept[j].conf) \in 0 .. 10
      <3> DEFINE low == 0
                 high == 10
                 x == kept[j].conf
      <3>1. low \in Int /\ high \in Int /\ low <= high /\ x \in Int
        BY <2>2
      <3> HIDE DEF low, high, x
      <3>2. Clamp(low, high, x) \in low .. high
        BY <3>1, ClampIs
      <3> QED BY <3>2 DEF low, high, x
    <2>4. SourceWeight[kept[j].source] \in 0 .. 10
      BY <2>2, VotingAssumption
    <2> QED BY <2>2, <2>3, <2>4 DEF VoteOf, Vote, Votes
  <1>2. DOMAIN kept = 1 .. Len(kept) /\ Len(kept) \in Nat /\ Len(b) \in Nat
    OBVIOUS
  <1>3. e \in Seq(Votes) /\ Len(e) = Len(kept) /\ \A j \in 1 .. Len(kept) : e[j] = VoteOf(kept[j])
    <2>1. e \in [1 .. Len(kept) -> Votes]
      BY <1>1, <1>2
    <2>2. \A j \in 1 .. Len(kept) : e[j] = VoteOf(kept[j])
      BY <1>2
    <2>3. DOMAIN e = 1 .. Len(kept)
      BY <1>2
    <2> HIDE DEF e
    <2> QED BY <1>2, <2>1, <2>2, <2>3
  <1> HIDE DEF e
  <1>4. b \o e \in Seq(Votes) /\ Len(b \o e) = Len(b) + Len(e)
        /\ (\A j \in 1 .. Len(b) : (b \o e)[j] = b[j]) /\ \A j \in 1 .. Len(e) : (b \o e)[Len(b) + j] = e[j]
    <2> DEFINE A == Votes
    <2>1. b \in Seq(A) /\ e \in Seq(A)
      BY <1>3
    <2> HIDE DEF A
    <2>2. b \o e \in Seq(A) /\ Len(b \o e) = Len(b) + Len(e)
      BY <2>1
    <2>3. \A j \in 1 .. Len(b) : (b \o e)[j] = b[j]
      BY <2>1
    <2>4. \A j \in 1 .. Len(e) : (b \o e)[Len(b) + j] = e[j]
      BY <2>1
    <2> QED BY <2>2, <2>3, <2>4 DEF A
  <1> QED BY <1>3, <1>4 DEF Ballot, e

\* One strategy that turns, turns one vote of the ballot.
LEMMA SurerTurns ==
  ASSUME NEW b \in Ballots, NEW w \in Surer(b), \A j \in DOMAIN w : w[j].conf >= b[j].conf,
         NEW kept \in Seq(External)
  PROVE  \E i : Turned(Ballot(b, kept), Ballot(w, kept), i)
  <1>1. b \in Seq(Votes)
    BY AggregatorAssumption
  <1>2. PICK i \in DOMAIN b, c \in Sureness : w = [b EXCEPT ![i] = Vote("BUY", c, b[i].weight)]
    BY DEF Surer
  <1>3. c \in 0 .. 10
    <2>1. PICK v \in UNION {ToSet(d) : d \in Ballots} : c = v.conf
      BY DEF Sureness
    <2>2. PICK d \in Ballots : v \in ToSet(d)
      BY <2>1
    <2>3. d \in Seq(Votes)
      BY AggregatorAssumption
    <2>4. v \in Votes
      BY <2>2, <2>3 DEF ToSet
    <2> QED BY <2>1, <2>4 DEF Votes
  <1>4. b[i] \in Votes
    BY <1>1
  <1>5. Vote("BUY", c, b[i].weight) \in Votes
    BY <1>3, <1>4 DEF Vote, Votes, Directions
  <1>6. w \in Seq(Votes) /\ DOMAIN w = DOMAIN b /\ Len(w) = Len(b) /\ w[i] = Vote("BUY", c, b[i].weight)
        /\ \A j \in DOMAIN b : j # i => w[j] = b[j]
    <2> DEFINE x == Vote("BUY", c, b[i].weight)
    <2>1. x \in Votes /\ w = [b EXCEPT ![i] = x]
      BY <1>2, <1>5
    <2> HIDE DEF x
    <2>2. w \in Seq(Votes) /\ DOMAIN w = DOMAIN b /\ Len(w) = Len(b) /\ w[i] = x
          /\ \A j \in DOMAIN b : j # i => w[j] = b[j]
      BY <1>1, <1>2, <2>1
    <2> QED BY <2>2 DEF x
  <1>7. w[i].signal = "BUY" /\ w[i].weight = b[i].weight /\ w[i].conf >= b[i].conf
    BY <1>6 DEF Vote
  <1> DEFINE p == Ballot(b, kept)
             q == Ballot(w, kept)
  <1>8. /\ p \in Seq(Votes) /\ Len(p) = Len(b) + Len(kept)
        /\ \A j \in 1 .. Len(b) : p[j] = b[j]
        /\ \A j \in 1 .. Len(kept) : p[Len(b) + j] = VoteOf(kept[j])
    BY <1>1, BallotIs
  <1>9. /\ q \in Seq(Votes) /\ Len(q) = Len(b) + Len(kept)
        /\ \A j \in 1 .. Len(b) : q[j] = w[j]
        /\ \A j \in 1 .. Len(kept) : q[Len(b) + j] = VoteOf(kept[j])
    <2>1. Len(w) = Len(b)
      BY <1>6
    <2>2. /\ q \in Seq(Votes) /\ Len(q) = Len(w) + Len(kept)
          /\ \A j \in 1 .. Len(w) : q[j] = w[j]
          /\ \A j \in 1 .. Len(kept) : q[Len(w) + j] = VoteOf(kept[j])
      BY <1>6, BallotIs
    <2> QED BY <2>1, <2>2
  <1> HIDE DEF p, q
  <1>10. Len(b) \in Nat /\ Len(kept) \in Nat /\ DOMAIN b = 1 .. Len(b) /\ DOMAIN p = 1 .. Len(p) /\ DOMAIN q = 1 .. Len(q)
    BY <1>1, <1>8, <1>9
  <1>11. ASSUME NEW j \in DOMAIN p, j # i PROVE q[j] = p[j]
    <2>1. CASE j <= Len(b)
      <3>1. j \in 1 .. Len(b)
        BY <1>8, <1>10, <2>1
      <3> QED BY <1>6, <1>8, <1>9, <1>10, <1>11, <3>1
    <2>2. CASE j > Len(b)
      <3> DEFINE k == j - Len(b)
      <3>1. k \in 1 .. Len(kept) /\ j = Len(b) + k
        BY <1>8, <1>10, <2>2
      <3> HIDE DEF k
      <3> QED BY <1>8, <1>9, <3>1
    <2> QED BY <1>8, <1>10, <2>1, <2>2
  <1>12. i \in DOMAIN p /\ DOMAIN q = DOMAIN p /\ Len(q) = Len(p) /\ p[i] = b[i] /\ q[i] = w[i]
    BY <1>8, <1>9, <1>10
  <1>13. Turned(p, q, i)
    BY <1>7, <1>9, <1>11, <1>12 DEF Turned
  <1> QED BY <1>13 DEF p, q

\* The signals kept are signals, and a BUY is as large as computePositionSize said.
AggInv ==
  /\ externals \in Seq(External)
  /\ sent.order = "BUY" => /\ sent.conf \in Nat /\ sent.reading \in Readings
                           /\ sent.size = Size(sent.conf, sent.reading)

LEMMA AggStep ==
  ASSUME AggInv, [AggNext]_aggVars
  PROVE  AggInv'
  <1>0. NoOrder.order # "BUY"
    BY DEF NoOrder
  <1>1. ASSUME NEW source \in Sources, NEW signal \in Directions, NEW c \in Int, Ingest(source, signal, c)
        PROVE  AggInv'
    <2> DEFINE x == [source |-> source, signal |-> signal, conf |-> c, age |-> 0]
               y == Append(Pruned(externals), x)
    <2>1. x \in External
      BY DEF External
    <2> HIDE DEF x
    <2>2. y \in Seq(External)
      BY <2>1, PrunedAre DEF AggInv
    <2>3. externals' = LastFew(y) /\ sent' = NoOrder
      BY <1>1 DEF Ingest, x
    <2> HIDE DEF y
    <2>4. LastFew(y) \in Seq(External)
      BY <2>2, FewAre
    <2> QED BY <1>0, <2>3, <2>4 DEF AggInv
  <1>2. ASSUME NEW strategies \in Ballots, Evaluate(strategies) PROVE AggInv'
    <2> DEFINE kept == Pruned(externals)
               ballot == Ballot(strategies, kept)
               conf == Confidence(ballot)
    <2>1. kept \in Seq(External)
      BY PrunedAre DEF AggInv
    <2>2. conf \in Nat
      <3>1. strategies \in Seq(Votes)
        BY AggregatorAssumption
      <3> HIDE DEF kept
      <3>2. ballot \in Seq(Votes)
        BY <2>1, <3>1, BallotIs
      <3> HIDE DEF ballot
      <3> QED BY <3>2, ConfidenceIsNat
    <2>3. externals' = kept
      BY <1>2 DEF Evaluate
    <2> DEFINE decision == Resolved(Aggregated(ballot, last), conf, strategies, held)
               Order(reading) == [order |-> decision, conf |-> conf, reading |-> reading,
                                  size |-> IF held THEN 0 ELSE Size(conf, reading)]
               Where == IF held THEN {NoReading} ELSE Readings
    <2>4. sent' = NoOrder \/ \E reading \in Where : held = (decision = "SELL") /\ sent' = Order(reading)
      <3>1. sent' = NoOrder
            \/ \E mood \in IF held THEN {"neutral"} ELSE {"greed", "neutral", "fear"},
                  reading \in IF held THEN {NoReading} ELSE Readings :
                 /\ Admitted(decision, conf, mood, held)
                 /\ held = (decision = "SELL")
                 /\ decision = "BUY" => ~Blocked(reading)
                 /\ held' = ~held
                 /\ sent' = Order(reading)
        BY <1>2, Zenon DEF Evaluate
      <3> HIDE DEF decision, Order
      <3> QED BY <3>1
    <2> HIDE DEF kept, ballot, conf, decision
    <2>5. ASSUME sent'.order = "BUY"
          PROVE  sent'.conf \in Nat /\ sent'.reading \in Readings /\ sent'.size = Size(sent'.conf, sent'.reading)
      <3>1. PICK reading \in Where : held = (decision = "SELL") /\ sent' = Order(reading)
        <4> HIDE DEF Order
        <4> QED BY <1>0, <2>4, <2>5
      <3>2. decision = "BUY" /\ ~held
        BY <2>5, <3>1
      <3> QED BY <2>2, <3>1, <3>2
    <2> QED BY <2>1, <2>3, <2>5 DEF AggInv
  <1>3. CASE Tick
    <2>1. externals' = [i \in DOMAIN externals |->
                          IF externals[i].source = "twitter" THEN externals[i]
                          ELSE [externals[i] EXCEPT !.age = Min({@ + 1, TTL + 1})]]
      BY <1>3 DEF Tick
    <2>2. ASSUME NEW i \in DOMAIN externals PROVE externals'[i] \in External
      <3> DEFINE x == externals[i]
      <3>1. x \in External /\ TTL \in Int
        BY AggregatorAssumption DEF AggInv
      <3> DEFINE a == Min({x.age + 1, TTL + 1})
      <3>2. a \in Int
        <4>1. x.age + 1 \in Int /\ TTL + 1 \in Int
          BY <3>1 DEF External
        <4> QED BY <4>1, SmallerOfTwo
      <3>3. externals'[i] = IF x.source = "twitter" THEN x ELSE [x EXCEPT !.age = a]
        BY <2>1
      <3> HIDE DEF x, a
      <3> QED BY <3>1, <3>2, <3>3 DEF External
    <2>3. externals' \in Seq(External)
      <3>1. DOMAIN externals' = DOMAIN externals /\ DOMAIN externals = 1 .. Len(externals) /\ Len(externals) \in Nat
        BY <2>1 DEF AggInv
      <3>2. externals' = [i \in 1 .. Len(externals) |-> externals'[i]]
        BY <2>1, <3>1
      <3>3. externals' \in [1 .. Len(externals) -> External]
        BY <2>2, <3>1, <3>2
      <3> QED BY <3>1, <3>3
    <2>4. sent' = NoOrder
      BY <1>3 DEF Tick
    <2> QED BY <1>0, <2>3, <2>4 DEF AggInv
  <1>4. CASE Stopped
    BY <1>0, <1>4 DEF Stopped, AggInv
  <1>5. CASE Restart
    <2>1. externals' \in Seq(External)
      BY <1>5 DEF Restart
    <2> QED BY <1>0, <1>5, <2>1 DEF Restart, AggInv
  <1>6. CASE UNCHANGED aggVars
    BY <1>6 DEF aggVars, AggInv
  <1>7. ASSUME NEW form \in Forms, NEW signal \in Directions, NEW c \in Confidences, Webhook(form, signal, c)
        PROVE  AggInv'
    <2>1. c \in Int /\ "webhook" \in Sources
      BY AggregatorAssumption
    <2> QED BY <1>1, <1>7, <2>1 DEF Webhook
  <1>8. ASSUME NEW form \in Forms, NEW signal \in Directions, NEW details \in Details, Telegram(form, signal, details)
        PROVE  AggInv'
    <2>1. TelegramBase \in Int /\ details \in Int /\ "telegram" \in Sources
      BY AggregatorAssumption
    <2>2. (TelegramBase + 5 * details) \div 10 \in Int
      BY <2>1
    <2> QED BY <1>1, <1>8, <2>1, <2>2 DEF Telegram
  <1>9. ASSUME NEW signal \in Directions, NEW c \in Confidences, Twitter(signal, c)
        PROVE  AggInv'
    <2>1. c \in Int /\ "twitter" \in Sources
      BY AggregatorAssumption
    <2> QED BY <1>1, <1>9, <2>1 DEF Twitter
  <1> QED BY <1>2, <1>3, <1>4, <1>5, <1>6, <1>7, <1>8, <1>9 DEF AggNext

\* A strategy that turns to BUY, or buys surer, never costs an entry, whatever the external signals
\* and the last decision; and a worse market or a lower confidence never enlarges one, through every
\* factor, clamp and floor, for any ballots, weights, thresholds, factors and readings.
\* (aggregateVotes, aggregate and computePositionSize.)
THEOREM BetterNeverCosts == AggSpec => []BetterNeverHurts
  <1>1. AggInit => AggInv
    <2> SUFFICES ASSUME AggInit PROVE AggInv
      OBVIOUS
    <2>1. externals \in Seq(External)
      BY DEF AggInit
    <2>2. sent.order # "BUY"
      BY DEF AggInit, NoOrder
    <2> QED BY <2>1, <2>2 DEF AggInv
  <1>2. AggInv /\ [AggNext]_aggVars => AggInv'
    BY AggStep
  <1>3. ASSUME AggInv PROVE BetterNeverHurts
    <2> DEFINE kept == Pruned(externals)
    <2>0. kept \in Seq(External)
      BY <1>3, PrunedAre DEF AggInv
    <2> HIDE DEF kept
    <2>1. ASSUME NEW b \in Ballots, Aggregated(Ballot(b, kept), last) = "BUY",
                 NEW w \in Surer(b), \A i \in DOMAIN w : w[i].conf >= b[i].conf
          PROVE  Aggregated(Ballot(w, kept), last) = "BUY"
      <3>1. PICK i : Turned(Ballot(b, kept), Ballot(w, kept), i)
        BY <2>0, <2>1, SurerTurns
      <3>2. Ballot(b, kept) \in Seq(Votes)
        <4>1. b \in Seq(Votes)
          BY AggregatorAssumption
        <4> QED BY <2>0, <4>1, BallotIs
      <3> QED BY <2>1, <3>1, <3>2, TurnedBuys
    <2>2. ASSUME sent.order = "BUY", NEW r \in Readings, NEW conf \in 0 .. sent.conf, Worse(r, sent.reading)
          PROVE  Size(conf, r) <= sent.size
      <3> DEFINE e == sent.conf
                 s == sent.reading
      <3>1. e \in Nat /\ s \in ReadingType /\ r \in ReadingType /\ sent.size = Size(e, s)
        BY <1>3, <2>2, AggregatorAssumption DEF AggInv
      <3>2. conf \in Nat /\ conf <= e
        BY <3>1
      <3> HIDE DEF e, s
      <3>3. Size(conf, r) <= Size(e, s)
        BY <2>2, <3>1, <3>2, WorseIsSmaller DEF s
      <3> QED BY <3>1, <3>3
    <2> QED BY <2>1, <2>2 DEF BetterNeverHurts, kept
  <1> QED BY <1>1, <1>2, <1>3, PTL DEF AggSpec
===============================================================================
