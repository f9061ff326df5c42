----------------------------- MODULE PaperTrader -----------------------------
(***************************************************************************)
(* src/src/executor/paperTrader.js: simulated cash, positions and resting   *)
(* satellite orders.  Every method runs to its end without an await, so an  *)
(* operation is a function of the book: it returns the book it leaves, the  *)
(* rows it appends to the trade file on its way, and the record it hands to *)
(* its caller (NoRecord for null).                                          *)
(*                                                                          *)
(* Quantities are lots and prices whole numbers.  A position keeps its cost *)
(* (qty * entryPrice in the code): a blended entry is then exact, and what  *)
(* the code rounds to 8 decimals is a lot's share of the cost here.         *)
(***************************************************************************)
EXTENDS StopRules, Sequences

CONSTANTS
  Scalpers, Cores, Satellites,   \* position keys: 'SYM', 'SYM#core', 'SYM#bo'
  Prices,
  Atrs,                          \* atrPct of a symbol per mille; 0 when the ATR stops are off
  InitialBalance,
  MaxPositionPct,
  Floor,                         \* FALLBACK_MIN_NOTIONAL
  Allocations,                   \* what the sleeve gives a coin, and steps a resize by
  Signals                        \* satellite orders as planned: limit, stop and size

Keys == Scalpers \cup Cores \cup Satellites

ASSUME PaperAssumption ==
  /\ IsFiniteSet(Keys)
  /\ Prices \subseteq Nat \ {0}
  /\ InitialBalance \in Nat
  /\ Floor \in Nat \ {0} /\ \A p \in Prices : p <= Floor   \* no order is of less than a lot
  /\ MaxPositionPct \in 0 .. 1000
  /\ Allocations \subseteq Nat
  /\ \A s \in Signals : s.stop \in 1 .. s.limit - 1 /\ s.limit \in 1 .. Floor /\ s.size \in Nat
  /\ Atrs \subseteq Nat
  /\ Scalpers \cap Cores = {} /\ Scalpers \cap Satellites = {} /\ Cores \cap Satellites = {}

\* No entry under a key in this.positions, or in this.pendingSatellite.
Flat == [qty |-> 0, cost |-> 0, stop |-> 0, initial |-> 0, target |-> 0, high |-> 0,
         partialDone |-> FALSE, tierDue |-> FALSE]
NoOrder == [reserve |-> 0, limit |-> 0, stop |-> 0]
NoRecord == [side |-> "none"]

NewBook ==
  [balance |-> InitialBalance, reserved |-> 0, pnl |-> 0,
   positions |-> [k \in Keys |-> Flat], pending |-> [k \in Satellites |-> NoOrder]]

Held(b, k)    == b.positions[k].qty > 0
Waiting(b, k) == k \in Satellites /\ b.pending[k].reserve > 0
EntryPrice(p) == p.cost \div p.qty

\* What an operation does to the account.
Step(b, rows, record) == [book |-> b, rows |-> rows, record |-> record]
Nothing(b) == Step(b, <<>>, NoRecord)

\* The record of a trade: what the trade was, and the position it leaves; its time is set when
\* it is written down.
Record(side, k, qty, price, pnl, b, reason) ==
  [side |-> side, key |-> k, qty |-> qty, price |-> price, pnl |-> pnl, at |-> 0,
   balance |-> b.balance, reason |-> reason, position |-> b.positions[k]]

-----------------------------------------------------------------------------
(* Opening and closing. *)

Bought(b, k, p) ==
  [b EXCEPT !.balance = @ - p.cost, !.positions[k] = p]

\* Sells lots of a position at a price; a position without lots is gone.
Sold(b, k, lots, price) ==
  LET p     == b.positions[k]
      basis == IF lots = p.qty THEN p.cost ELSE lots * EntryPrice(p)
  IN [b EXCEPT !.balance = @ + lots * price,
               !.pnl = @ + (lots * price - basis),
               !.positions[k] = IF lots = p.qty THEN Flat
                                ELSE [p EXCEPT !.qty = @ - lots, !.cost = @ - basis]]

Close(b, k, price, reason) ==
  IF ~Held(b, k) THEN Nothing(b)
  ELSE LET c == Sold(b, k, b.positions[k].qty, price)
           r == Record("SELL", k, b.positions[k].qty, price, c.pnl - b.pnl, c, reason)
       IN Step(c, <<r>>, r)

Open(b, k, price, atr) ==
  LET lots == Part(b.balance, MaxPositionPct) \div price
      p    == [Flat EXCEPT !.qty = lots, !.cost = lots * price, !.high = price,
                           !.stop = FirstStop(price, atr), !.initial = FirstStop(price, atr),
                           !.target = FirstTarget(price, atr)]
      c    == Bought(b, k, p)
      r    == Record("BUY", k, lots, price, 0, c, "entry")
  IN IF Held(b, k) \/ lots * price < Floor THEN Nothing(b) ELSE Step(c, <<r>>, r)

\* The first stage sells half; its row goes to the file and to no one else.
PartialClose(b, k, price) ==
  LET half == b.positions[k].qty \div 2
      c    == Sold(b, k, half, price)
  IN IF half = 0 THEN Nothing(b)
     ELSE Step(c, <<Record("SELL", k, half, price, c.pnl - b.pnl, c, "partial")>>, NoRecord)

\* #checkRisk: trailing, break-even, first stage, exit.  Core and satellite positions
\* only take the price.
CheckRisk(b, k, price) ==
  IF ~Held(b, k) \/ k \notin Scalpers THEN Nothing(b)
  ELSE LET entry == EntryPrice(b.positions[k])
           p     == BreakEvened(Trailed(b.positions[k], entry, price), entry, price)
           moved == [b EXCEPT !.positions[k] = p]
           due   == PartialDue(p, entry, price)
           first == IF due THEN PartialClose(moved, k, price) ELSE Nothing(moved)
           left  == IF due THEN [first.book EXCEPT !.positions[k] = Remainder(@, entry)]
                    ELSE first.book
           why   == ExitReason(left.positions[k], price)
           exit  == IF why = "none" THEN Nothing(left) ELSE Close(left, k, price, why)
       IN Step(exit.book, first.rows \o exit.rows, exit.record)

\* execute: the stops first; a decision only when none fired.
Execute(b, k, decision, price, atr) ==
  LET risk == CheckRisk(b, k, price)
      then == IF decision = "BUY" THEN Open(risk.book, k, price, atr)
              ELSE IF decision = "SELL" THEN Close(risk.book, k, price, "strategy_sell")
              ELSE Nothing(risk.book)
  IN IF risk.record # NoRecord THEN risk
     ELSE Step(then.book, risk.rows \o then.rows, then.record)

-----------------------------------------------------------------------------
(* The core sleeve's orders. *)

OpenCore(b, k, price, allocation) ==
  LET lots == Min({allocation, b.balance}) \div price
      c    == Bought(b, k, [Flat EXCEPT !.qty = lots, !.cost = lots * price, !.high = price])
      r    == Record("BUY", k, lots, price, 0, c, "core")
  IN IF Held(b, k) \/ lots * price < Floor THEN Nothing(b) ELSE Step(c, <<r>>, r)

CloseCore(b, k, price) == Close(b, k, price, "core")

GrowCore(b, k, price, delta) ==
  LET lots == Min({delta, b.balance}) \div price
      c    == [b EXCEPT !.balance = @ - lots * price,
                        !.positions[k].qty = @ + lots, !.positions[k].cost = @ + lots * price]
      r    == Record("BUY", k, lots, price, 0, c, "resize")
  IN IF ~Held(b, k) \/ lots * price < Floor THEN Nothing(b) ELSE Step(c, <<r>>, r)

\* A trim of all that is left is a close.
TrimCore(b, k, price, delta) ==
  LET lots == Min({delta \div price, b.positions[k].qty})
      c    == Sold(b, k, lots, price)
      r    == Record("SELL", k, lots, price, c.pnl - b.pnl, c, "resize")
  IN IF ~Held(b, k) \/ lots * price < Floor THEN Nothing(b)
     ELSE IF lots = b.positions[k].qty THEN CloseCore(b, k, price)
     ELSE Step(c, <<r>>, r)

-----------------------------------------------------------------------------
(* The satellites' orders. *)

PlaceSatelliteOrder(b, k, limit, stop, size) ==
  LET reserve == Min({size, b.balance}) IN
  IF Held(b, k) \/ Waiting(b, k) \/ reserve < Floor THEN Nothing(b)
  ELSE Step([b EXCEPT !.balance = @ - reserve, !.reserved = @ + reserve,
                      !.pending[k] = [reserve |-> reserve, limit |-> limit, stop |-> stop]],
            <<>>, NoRecord)

CancelSatelliteOrder(b, k) ==
  [b EXCEPT !.balance = @ + b.pending[k].reserve, !.reserved = @ - b.pending[k].reserve,
            !.pending[k] = NoOrder]

\* A position filled from a resting order, with its plan.
Filled(o, lots) ==
  LET plan == SatellitePlan(o.limit, o.stop)
  IN [Flat EXCEPT !.qty = lots, !.cost = lots * o.limit, !.stop = plan.stop,
                  !.initial = plan.initial, !.high = plan.high, !.target = plan.target]

\* Mutant of FillSatellite: the reserve is released without its cash, and the cost is paid once more.
FillPaidTwice(b, k, price) ==
  LET o    == b.pending[k]
      lots == o.reserve \div o.limit
      c    == Bought([b EXCEPT !.reserved = @ - o.reserve, !.pending[k] = NoOrder], k, Filled(o, lots))
      r    == Record("BUY", k, lots, o.limit, 0, c, "satellite")
  IN Step(c, <<r>>, r)

\* A resting order fills at its limit, and leaves at once when the tick is under its stop.
FillSatellite(b, k, price) ==
  LET o    == b.pending[k]
      lots == o.reserve \div o.limit
      c    == Bought(CancelSatelliteOrder(b, k), k, Filled(o, lots))
      r    == Record("BUY", k, lots, o.limit, 0, c, "satellite")
      exit == Close(c, k, price, "sat_stop")
  IN IF price <= o.stop THEN Step(exit.book, <<r>> \o exit.rows, exit.record)
     ELSE Step(c, <<r>>, r)

\* satelliteTick: an order expires or fills; a position runs its plan.  `event` is what
\* else the time brings: the order's or the position's limit ("late"), a weak hour ("weak").
SatelliteTick(b, k, price, event) ==
  IF Waiting(b, k)
  THEN IF event = "late" THEN Nothing(CancelSatelliteOrder(b, k))
       ELSE IF price > b.pending[k].limit THEN Nothing(b)
       ELSE FillSatellite(b, k, price)
  ELSE IF ~Held(b, k) THEN Nothing(b)
  ELSE LET p    == b.positions[k]
           tick == [open |-> price, low |-> price, high |-> price, close |-> price,
                    late |-> event = "late", weak |-> event = "weak"]
           exit == SatelliteExit(p, EntryPrice(p), tick)
       IN IF exit.reason = "none"
          THEN Nothing([b EXCEPT !.positions[k] = SatelliteKept(p, EntryPrice(p), tick)])
          ELSE Close(b, k, exit.price, exit.reason)
===============================================================================
