----------------------------- MODULE WalletRestore -----------------------------
(***************************************************************************)
(* restorePositionsFromExchange (src/src/executor/liveTrader.js) beside the  *)
(* calls of LiveTrader: the legs rebuilt at boot, and topped up every five    *)
(* minutes by refreshBalance (src/src/main.js), from the saved state and a    *)
(* wallet read; the saves of position_state.json; crashes and restarts.       *)
(***************************************************************************)
EXTENDS LiveTrader

CONSTANTS
  Environments   \* what may befall the bot, one for each behaviour

\* A kind: the ticker of a leg of that kind. boot: the balance read of the boot restore.
AllMisses == Kinds \cup {"boot"}

ASSUME RestoreAssumption ==
  Environments \subseteq
    [satellites : BOOLEAN,     \* SATELLITES: the opt-in strategies that rest GTC buys
     overlap    : BOOLEAN,     \* calls may start while a restore awaits (the code lets them)
     lossy      : BOOLEAN,     \* the faults of Faults occur, and a death between a sale and its booking
     misses     : SUBSET AllMisses]   \* the reads a restore may lose after their retries

VARIABLES
  env,      \* the environment of this behaviour
  saved,    \* position_state.json: the quantity it holds for each leg
  restore,  \* the restore in flight
  up,       \* the boot sequence has finished its restore
  known     \* auxiliary: what each leg was booked as owning, less what it has sold since

restoreVars == <<vars, env, saved, restore, up, known>>
world == <<env, faults>>

NoLegs == [m \in Markets |-> [k \in Kinds |-> 0]]
Free   == [m \in Markets |-> 0]

Idle == [at |-> "idle", file |-> NoLegs, free |-> Free, claims |-> Free,
         legs |-> {}, coins |-> {}, now |-> <<NoMarket, "scalper">>, restored |-> FALSE]

RestoreInit ==
  /\ Init
  /\ env \in Environments
  /\ saved = NoLegs
  /\ restore = Idle
  /\ up = FALSE
  /\ known = NoLegs

-------------------------------------------------------------------------------
(* The calls of LiveTrader, and what they save.                              *)

Quiet == restore.at = "idle" \/ env.overlap

BeginCall(c) ==
  /\ up /\ Quiet /\ Start(c)
  /\ UNCHANGED <<world, saved, restore, up, known>>

\* A partial exit that sold nothing and did not throw.
Skipped(c) == op[c].kind = "partial" /\ op'[c] = NoCall /\ op[c].step # "order" /\ op[c].filled = 0

\* Every change of the legs is saved at once, with every leg in memory; checkRisk saves
\* after a partial exit whether it sold or not, unless it threw.
Save(c) == saved' = IF qty' # qty \/ Skipped(c) THEN qty' ELSE saved

\* What a leg owns starts with the buy that opens it, grows with a booked grow, shrinks by
\* what its sales take, and is nothing once the leg is closed.
Owned(c, m, k) ==
  IF op[c].kind \in Buys
  THEN IF op[c].kind = "open" /\ qty' # qty THEN qty'[m][k] ELSE known[m][k] + (qty'[m][k] - qty[m][k])
  ELSE IF qty[m][k] > 0 /\ qty'[m][k] = 0 THEN 0
  ELSE known[m][k] - Smaller(known[m][k], wallet[m] - wallet'[m])

\* An answer of the exchange is lost, or the read after a sale.
Loses(c) == LostBuy(c) \/ LostSell(c) \/ LostRest(c) \/ LoseSale(c)

ContinueCall(c) ==
  /\ Resume(c) /\ (~env.lossy => ~Loses(c)) /\ Save(c)
  /\ known' = [known EXCEPT ![op[c].market][op[c].leg] = Owned(c, op[c].market, op[c].leg)]
  /\ UNCHANGED <<world, restore, up>>

PlaceOrder ==
  /\ env.satellites /\ up /\ Quiet
  /\ \E m \in Markets, q \in MinOrder .. MaxOrder : PlaceSatellite(m, q)
  /\ UNCHANGED <<world, saved, restore, up, known>>

FillOrder ==
  /\ \E m \in Markets, f \in 1 .. MaxOrder : FillSatellite(m, f)
  /\ UNCHANGED <<world, saved, restore, up, known>>

PollOrder ==
  /\ up /\ Quiet
  /\ \E m \in Markets, left \in 0 .. MaxOrder :
       /\ PollSatellite(m, left)
       /\ known' = [known EXCEPT ![m]["satellite"] = @ + uncredited[m]]
  /\ saved' = IF qty' = qty THEN saved ELSE qty'
  /\ UNCHANGED <<world, restore, up>>

\* checkRisk: a stop that moved is saved, with every leg in memory.
SaveStops ==
  /\ up /\ Scalpers # {}
  /\ saved' = qty
  /\ UNCHANGED <<vars, env, restore, up, known>>

-------------------------------------------------------------------------------
(* calcCoreClaims: what the sleeve and the satellites own of a balance.       *)

Sleeves == {"core", "satellite"}

\* Mutant of Claim: the coins of a resting satellite buy are nobody's.
ClaimNoOrder(m, file, free) ==
  LET leg(k) == IF qty[m][k] > 0 THEN qty[m][k] ELSE file[m][k]
  IN  Smaller(free, leg("core") + leg("satellite"))

\* Legs in memory, what a resting buy may still bring, then saved legs not in memory.
Claim(m, file, free) ==
  LET leg(k) == IF qty[m][k] > 0 THEN qty[m][k] ELSE file[m][k]
      order  == IF m \in pending THEN resting[m] + uncredited[m] ELSE 0
  IN  Smaller(free, leg("core") + leg("satellite") + order)

Restorable(file) == {l \in Markets \X Sleeves : qty[l[1]][l[2]] = 0 /\ file[l[1]][l[2]] > 0}

\* The next await of a restore `r` once the legs are `q`: a saved sleeve leg, then a coin
\* with no scalper leg and something left of its balance, then the end.
Onwards(r, q) ==
  LET open == {m \in r.coins : q[m]["scalper"] = 0 /\ r.free[m] > r.claims[m]}
  IN  IF r.legs # {} THEN {[r EXCEPT !.at = "leg", !.now = l, !.legs = @ \ {l}] : l \in r.legs}
      ELSE IF open # {} THEN {[r EXCEPT !.at = "leg", !.now = <<m, "scalper">>, !.coins = @ \ {m}] : m \in open}
      ELSE {Idle}

\* Mutant of Proceed: the state is saved along the way.
ProceedSaving(r, q) ==
  /\ restore' \in Onwards(r, q)
  /\ saved' = q
  /\ up' = (up \/ restore'.at = "idle")

\* The restore goes on, or ends: it saves if it restored anything, and a boot is over.
Proceed(r, q) ==
  /\ restore' \in Onwards(r, q)
  /\ saved' = IF restore'.at = "idle" /\ r.restored THEN q ELSE saved
  /\ up' = (up \/ restore'.at = "idle")

-------------------------------------------------------------------------------
(* The restore.                                                              *)

\* At boot, or the poll: refreshBalance reads ordersInFlight before its first await (and
\* cycleInProgress: a cycle that starts after that read is a call that starts here).
BeginRestore ==
  /\ restore.at = "idle" /\ busy = {}
  /\ env.overlap \/ \A c \in Callers : op[c] = NoCall
  /\ restore' = [Idle EXCEPT !.at = "balance", !.file = saved]
  /\ UNCHANGED <<vars, env, saved, up, known>>

\* The exchange reads the balances; its answer arrives later.
ReadWallet ==
  /\ restore.at = "balance"
  /\ restore' = [restore EXCEPT !.at = "answer", !.free = wallet]
  /\ UNCHANGED <<vars, env, saved, up, known>>

\* The answer meets the legs in memory at its arrival.
AnswerWallet ==
  /\ restore.at = "answer"
  /\ LET r == [restore EXCEPT !.coins = Markets, !.legs = Restorable(restore.file),
                              !.claims = [m \in Markets |-> Claim(m, restore.file, restore.free[m])]]
     IN  Proceed(r, qty)
  /\ UNCHANGED <<vars, env, known>>

\* The balance read failed: the restore ends with nothing, and a boot goes on without it.
MissWallet ==
  /\ restore.at \in {"balance", "answer"} /\ (up \/ "boot" \in env.misses)
  /\ restore' = Idle /\ up' = TRUE
  /\ UNCHANGED <<vars, env, saved, known>>

\* Mutant of Share: a sleeve leg gets its saved quantity, whatever is left of it.
ShareOfFile(r) ==
  LET m == r.now[1]  k == r.now[2]
  IN  IF k = "scalper" THEN r.free[m] - r.claims[m] ELSE r.file[m][k]

\* A sleeve leg gets its saved quantity, clamped to the free balance; a scalper leg gets
\* what the claims leave of it.
Share(r) ==
  LET m == r.now[1]  k == r.now[2]
  IN  IF k = "scalper" THEN r.free[m] - r.claims[m] ELSE Smaller(r.file[m][k], r.free[m])

\* The ticker answers: a share no order can sell is dropped, any other becomes the leg.
AdoptLeg ==
  /\ restore.at = "leg"
  /\ LET m == restore.now[1]  k == restore.now[2]  fits == Share(restore) >= Floor
     IN  /\ qty' = IF fits THEN [qty EXCEPT ![m][k] = Share(restore)] ELSE qty
         /\ known' = [known EXCEPT ![m][k] = qty'[m][k]]
         /\ Proceed([restore EXCEPT !.restored = @ \/ fits], qty')
  /\ UNCHANGED <<wallet, satelliteBuy, busy, checks, op, unbooked, world>>

\* The ticker fails: the leg is skipped.
MissLeg ==
  /\ restore.at = "leg" /\ restore.now[2] \in env.misses
  /\ Proceed(restore, qty)
  /\ UNCHANGED <<vars, env, known>>

\* The process dies: the memory is lost, the files and the exchange are not.
Crash ==
  /\ env.lossy \/ unbooked = NoLegs
  /\ qty' = NoLegs /\ unbooked' = NoLegs
  /\ op' = [c \in Callers |-> NoCall]
  /\ busy' = {} /\ checks' = {}
  /\ restore' = Idle /\ up' = FALSE
  /\ UNCHANGED <<wallet, satelliteBuy, world, saved, known>>

RestoreNext ==
  \/ \E c \in Callers : BeginCall(c) \/ ContinueCall(c)
  \/ PlaceOrder \/ FillOrder \/ PollOrder \/ SaveStops
  \/ BeginRestore \/ ReadWallet \/ AnswerWallet \/ MissWallet \/ AdoptLeg \/ MissLeg
  \/ Crash

RestoreSpec == RestoreInit /\ [][RestoreNext]_restoreVars

-------------------------------------------------------------------------------
(* Properties.                                                               *)

(* "Reserved EVEN IF the restore below fails ... otherwise the scalper absorbs   *)
(* the core's coins and the sleeve double-buys later" (calcCoreClaims): as long as *)
(* the sleeve owns coins an order could sell, its leg is in memory or in the saved  *)
(* state, wherever the process dies, unless the read of its ticker fails.           *)
RecordKept == ~env.lossy => \A m \in Markets : known[m]["core"] >= Floor => qty[m]["core"] > 0 \/ saved[m]["core"] > 0

(* restorePositionsFromExchange is what reconciles the memory with the exchange:     *)
(* wherever the process died, and whatever answers it lost before, once the boot      *)
(* restore is over no leg believes in coins the wallet does not hold.  (Where the        *)
(* satellites are off: two saved legs of a coin are each clamped to its whole balance.)  *)
BootReconciles == [][~up /\ up' => Backed']_restoreVars

===============================================================================
