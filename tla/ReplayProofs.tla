----------------------------- MODULE ReplayProofs -----------------------------
(* Proofs about the replay of the engine on past bars, for every set of coins,  *)
(* bars, costs, deposits and signals: no fill is better than its bar, and an     *)
(* account without costs does what the paper account does.                       *)
EXTENDS PortfolioReplay, FoldLemmas

-------------------------------------------------------------------------------
(* Amounts.                                                                  *)

LEMMA Percents ==
  /\ StopPct \in 0 .. 999 /\ TargetPct \in 0 .. 999 /\ TrailPct \in 0 .. 999 /\ ArmPct \in 0 .. 999
  /\ BreakEvenPct \in 0 .. 999 /\ StagePct \in 0 .. 999 /\ TargetR \in Int /\ NoTarget \in Int
  <1> DEFINE P == 0 .. 999
  <1>1. {StopPct, TargetPct, TrailPct, ArmPct, BreakEvenPct, StagePct} \subseteq P /\ TargetR \in Nat /\ NoTarget \in Nat
    BY StopRulesAssumption
  <1> HIDE DEF P
  <1>2. StopPct \in P /\ TargetPct \in P /\ TrailPct \in P /\ ArmPct \in P /\ BreakEvenPct \in P /\ StagePct \in P
    BY <1>1, Zenon
  <1> QED BY <1>1, <1>2 DEF P

LEMMA PartIsInt == ASSUME NEW a \in Int, NEW m \in Int PROVE Part(a, m) \in Int
  BY DEF Part

PerMille == 0 .. 1000

\* A part of an amount is no more than it, and a larger part no less.
LEMMA PartOfAmount ==
  ASSUME NEW a \in Nat, NEW m \in PerMille
  PROVE  Part(a, m) \in Nat /\ Part(a, m) <= a
  <1> DEFINE x == a * m
             y == a * 1000
  <1>1. x \in Nat /\ y \in Nat /\ x <= y
    <2> DEFINE d == 1000 - m
               z == a * d
    <2>1. d \in Nat /\ m + d = 1000
      BY DEF PerMille
    <2> HIDE DEF d
    <2>2. y = x + z /\ z \in Nat /\ x \in Nat
      BY <2>1 DEF PerMille
    <2> HIDE DEF x, y, z
    <2> QED BY <2>2
  <1>2. y \div 1000 = a
    OBVIOUS
  <1> HIDE DEF x
  <1>3. x \div 1000 \in Nat /\ x \div 1000 <= y \div 1000
    BY <1>1
  <1> QED BY <1>2, <1>3 DEF Part, x

LEMMA LargerPart ==
  ASSUME NEW a \in Nat, NEW m \in Nat, NEW n \in Nat, m <= n
  PROVE  Part(a, m) \in Nat /\ Part(a, n) \in Nat /\ Part(a, m) <= Part(a, n)
  <1> DEFINE x == a * m
             y == a * n
  <1>1. x \in Nat /\ y \in Nat /\ x <= y
    <2> DEFINE d == n - m
               z == a * d
    <2>1. d \in Nat /\ n = m + d
      OBVIOUS
    <2> HIDE DEF d
    <2>2. y = x + z /\ z \in Nat /\ x \in Nat
      BY <2>1
    <2> HIDE DEF x, y, z
    <2> QED BY <2>2
  <1> HIDE DEF x, y
  <1>2. x \div 1000 \in Nat /\ y \div 1000 \in Nat /\ x \div 1000 <= y \div 1000
    BY <1>1
  <1> QED BY <1>2 DEF Part, x, y

LEMMA LockIs ==
  ASSUME NEW e \in Nat
  PROVE  Lock(e) \in Nat /\ Part(e, 2) \in Nat /\ Lock(e) = e + Part(e, 2) /\ e <= Lock(e)
  BY DEF Lock, Part

LEMMA LesserOfTwo ==
  ASSUME NEW a \in Int, NEW b \in Int
  PROVE  /\ Min({a, b}) = IF a <= b THEN a ELSE b
         /\ Max({a, b}) = IF a >= b THEN a ELSE b
  <1> DEFINE S == {a, b}
  <1>1. (\E m \in S : \A x \in S : m <= x) /\ \E m \in S : \A x \in S : m >= x
    OBVIOUS
  <1>2. Min(S) \in S /\ \A x \in S : Min(S) <= x
    BY <1>1 DEF Min
  <1>3. Max(S) \in S /\ \A x \in S : Max(S) >= x
    BY <1>1 DEF Max
  <1>4. a \in S /\ b \in S /\ \A x \in S : x = a \/ x = b
    OBVIOUS
  <1> DEFINE least == Min(S)
             most == Max(S)
  <1>5. (least = a \/ least = b) /\ least <= a /\ least <= b /\ (most = a \/ most = b) /\ most >= a /\ most >= b
    BY <1>2, <1>3, <1>4
  <1> HIDE DEF least, most
  <1>6. (least = IF a <= b THEN a ELSE b) /\ (most = IF a >= b THEN a ELSE b)
    BY <1>5
  <1> QED BY <1>6 DEF S, least, most

-------------------------------------------------------------------------------
(* Positions.                                                                *)

PosType ==
  [qty : Int, cost : Int, entry : Int, ref : Int, stop : Int, initial : Int, target : Int,
   high : Int, partialDone : BOOLEAN, tierDue : BOOLEAN, since : Int]
RestType == [reserve : Int, limit : Int, stop : Int, placedAt : Int, validUntil : Int]

\* What the replay is run with: every stop that locks break-even is under the price that locks it.
\* A trigger is above a round trip's fees, and so is the first stage of an entry with its costs.
LocksClear ==
  /\ BreakEvenPct = 0 \/ BreakEvenPct >= 2
  /\ StagePct > 0 =>
       \A c \in Costs, b \in Bars :
         LET paid   == b.open + Part(b.open, c.fee + c.slip)
             target == b.open + Part(b.open, TargetPct)
         IN target > paid => Part(target - paid, StagePct) >= Part(paid, 2)

\* The first stage of an exit is a round trip's fees above the entry, when locks are clear.
Clear(p) ==
  /\ p.entry \in Nat /\ p.ref \in Nat
  /\ LocksClear /\ StagePct > 0 /\ p.target > p.entry => Part(p.target - p.entry, StagePct) >= Part(p.entry, 2)

\* A position that took no costs: every lot was bought at its entry price, and a scalper's stops
\* measure from it.
Even(k, p) == p.qty > 0 => /\ p.cost = p.qty * p.entry
                           /\ k \in Scalpers => p.ref = p.entry

Free(s) == s.fee + s.slip = 0

\* A position an account may have at k; the core sleeve's are blended.
Fits(s, k, p) ==
  /\ k \in Scalpers => Clear(p)
  /\ Free(s) /\ k \notin Cores => Even(k, p)

LEMMA PosFields ==
  ASSUME NEW p \in PosType
  PROVE  /\ p.qty \in Int /\ p.cost \in Int /\ p.entry \in Int /\ p.ref \in Int /\ p.stop \in Int
         /\ p.initial \in Int /\ p.target \in Int /\ p.high \in Int /\ p.since \in Int
         /\ p.partialDone \in BOOLEAN /\ p.tierDue \in BOOLEAN
  BY DEF PosType

LEMMA FlatIsClear == Flat \in PosType /\ Flat.qty = 0 /\ Clear(Flat)
  BY DEF Flat, PosType, Clear

LEMMA FlatFits == ASSUME NEW s, NEW k PROVE Fits(s, k, Flat)
  BY FlatIsClear DEF Fits, Even

\* At the price y the stop of p has moved up, under y when locks are clear, or not at all.
Tighter(p, q, y) ==
  /\ q \in PosType /\ q.qty = p.qty /\ q.cost = p.cost
  /\ q.entry = p.entry /\ q.ref = p.ref /\ q.target = p.target
  /\ q.stop >= p.stop /\ (LocksClear => q.stop = p.stop \/ q.stop <= y)

LEMMA TighterChain ==
  ASSUME NEW p \in PosType, NEW q, NEW r, NEW y \in Int, Tighter(p, q, y), Tighter(q, r, y)
  PROVE  Tighter(p, r, y)
  <1>1. p.stop \in Int /\ q.stop \in Int /\ r.stop \in Int
    BY PosFields DEF Tighter
  <1> QED BY <1>1 DEF Tighter

LEMMA SameIsTighter ==
  ASSUME NEW p \in PosType, NEW y PROVE Tighter(p, p, y)
  <1>1. p.stop \in Int
    BY PosFields
  <1>2. p.stop >= p.stop
    BY <1>1
  <1> QED BY <1>2 DEF Tighter

\* Only the lots, their cost, the entry and the target count.
LEMMA FitStays ==
  ASSUME NEW s, NEW k, NEW p, NEW q, Fits(s, k, p), q.qty = p.qty, q.cost = p.cost, q.entry = p.entry,
         q.ref = p.ref, q.target = p.target
  PROVE  Fits(s, k, q)
  BY DEF Fits, Clear, Even

LEMMA ClearStays ==
  ASSUME NEW s, NEW k, NEW p, NEW q, NEW y, Fits(s, k, p), Tighter(p, q, y) PROVE Fits(s, k, q)
  BY FitStays DEF Tighter

\* A sale takes its lots' share of the cost.
LEMMA ShareOfCost ==
  ASSUME NEW n \in Int, n > 0, NEW entry \in Int, NEW lots \in Int, NEW cost \in Int, cost = n * entry
  PROVE  cost \div n = entry /\ cost - lots * (cost \div n) = (n - lots) * entry
  <1>1. cost \div n = entry
    OBVIOUS
  <1>2. cost - lots * entry = (n - lots) * entry
    OBVIOUS
  <1> QED BY <1>1, <1>2

\* A stop x that a price of y may give p.
MayStop(p, x, y) == x \in Int /\ x >= p.stop /\ (LocksClear => x = p.stop \/ x <= y)

\* A position with a new stop, or more of it.
LEMMA StopIsTighter ==
  ASSUME NEW p \in PosType, NEW x, NEW y \in Nat, MayStop(p, x, y)
  PROVE  /\ Tighter(p, [p EXCEPT !.stop = x], y)
         /\ Tighter(p, [p EXCEPT !.high = y, !.stop = x], y)
         /\ Tighter(p, [p EXCEPT !.partialDone = TRUE, !.stop = x], y)
  <1>1. x \in Int /\ x >= p.stop /\ (LocksClear => x = p.stop \/ x <= y)
    BY DEF MayStop
  <1>2. Tighter(p, [p EXCEPT !.stop = x], y)
    BY <1>1 DEF Tighter, PosType
  <1>3. Tighter(p, [p EXCEPT !.high = y, !.stop = x], y)
    <2> DEFINE q == [p EXCEPT !.high = y, !.stop = x]
    <2>1. y \in Int
      OBVIOUS
    <2>2. q \in PosType
      BY <1>1, <2>1 DEF PosType
    <2>3. /\ q.qty = p.qty /\ q.cost = p.cost /\ q.entry = p.entry /\ q.ref = p.ref
          /\ q.target = p.target /\ q.stop = x
      BY DEF PosType
    <2> HIDE DEF q
    <2>4. Tighter(p, q, y)
      BY <1>1, <2>2, <2>3 DEF Tighter
    <2> QED BY <2>4 DEF q
  <1>4. Tighter(p, [p EXCEPT !.partialDone = TRUE, !.stop = x], y)
    BY <1>1 DEF Tighter, PosType
  <1> QED BY <1>2, <1>3, <1>4

LEMMA TrailedIsTighter ==
  ASSUME NEW p \in PosType, NEW e, NEW y \in Nat
  PROVE  Tighter(p, Trailed(p, e, y), y)
  <1> DEFINE x == Part(y, 1000 - TrailPct)
             m == Max({p.stop, x})
  <1>1. x \in Nat /\ x <= y
    <2> DEFINE k == 1000 - TrailPct
    <2>1. k \in PerMille
      BY Percents DEF PerMille
    <2> HIDE DEF k
    <2>2. Part(y, k) \in Nat /\ Part(y, k) <= y
      BY <2>1, PartOfAmount
    <2> QED BY <2>2 DEF k
  <1>2. p.stop \in Int
    BY PosFields
  <1> HIDE DEF x
  <1>3. m = IF p.stop >= x THEN p.stop ELSE x
    <2> DEFINE a == p.stop
    <2>1. a \in Int /\ x \in Int
      BY <1>1, <1>2
    <2> HIDE DEF a
    <2>2. Max({a, x}) = IF a >= x THEN a ELSE x
      BY <2>1, LesserOfTwo
    <2> QED BY <2>2 DEF a
  <1>4. MayStop(p, m, y)
    BY <1>1, <1>2, <1>3 DEF MayStop
  <1>5. Trailed(p, e, y) = p \/ Trailed(p, e, y) = [p EXCEPT !.high = y, !.stop = m]
    BY DEF Trailed, x
  <1> HIDE DEF m
  <1>6. Tighter(p, [p EXCEPT !.high = y, !.stop = m], y)
    BY <1>4, StopIsTighter, Zenon
  <1> QED BY <1>5, <1>6, SameIsTighter

LEMMA BreakEvenedIsTighter ==
  ASSUME NEW p \in PosType, NEW e \in Nat, NEW y \in Nat
  PROVE  Tighter(p, BreakEvened(p, e, y), y)
  <1>1. CASE BreakEvenPct > 0 /\ p.stop < e /\ y >= e + Part(e, BreakEvenPct)
    <2> DEFINE fees == Part(e, 2)
               above == Part(e, BreakEvenPct)
    <2>1. BreakEvenPct \in Nat /\ (LocksClear => 2 <= BreakEvenPct)
      BY <1>1, Percents DEF LocksClear
    <2>2. fees \in Nat /\ above \in Int /\ (LocksClear => fees <= above)
      <3>1. fees \in Nat /\ above \in Int
        BY <2>1, LockIs, PartIsInt
      <3>2. ASSUME LocksClear PROVE fees <= above
        BY <2>1, <3>2, LargerPart
      <3> QED BY <3>1, <3>2
    <2>3. Lock(e) \in Nat /\ Lock(e) = e + Part(e, 2) /\ e <= Lock(e)
      BY LockIs
    <2>4. p.stop \in Int
      BY PosFields
    <2> DEFINE x == Lock(e)
    <2>5. MayStop(p, x, y)
      <3> DEFINE at == p.stop
      <3>1. x \in Nat /\ x = e + fees /\ e <= x /\ at < e /\ y >= e + above /\ at \in Int
        BY <1>1, <2>3, <2>4
      <3> HIDE DEF x, fees, above, at
      <3>2. x \in Int /\ x >= at /\ (LocksClear => x <= y)
        BY <2>2, <3>1
      <3> QED BY <3>2 DEF MayStop, at
    <2>6. BreakEvened(p, e, y) = [p EXCEPT !.stop = x]
      BY <1>1 DEF BreakEvened
    <2> HIDE DEF x
    <2>7. Tighter(p, [p EXCEPT !.stop = x], y)
      BY <2>5, StopIsTighter, Zenon
    <2> QED BY <2>6, <2>7
  <1>2. CASE ~(BreakEvenPct > 0 /\ p.stop < e /\ y >= e + Part(e, BreakEvenPct))
    <2>1. BreakEvened(p, e, y) = p
      BY <1>2 DEF BreakEvened
    <2> QED BY <2>1, SameIsTighter
  <1> QED BY <1>1, <1>2

\* The stop of what is left after the first stage is under the price of the stage.
LEMMA RemainderIsTighter ==
  ASSUME NEW p \in PosType, Clear(p), NEW q \in PosType, NEW y \in Nat, PartialDue(p, p.entry, y),
         q.entry = p.entry, q.stop = p.stop
  PROVE  Tighter(q, Remainder(q, q.entry), y)
  <1> DEFINE e == p.entry
             x == IF q.stop < e THEN Lock(e) ELSE q.stop
  <1>1. e \in Nat /\ q.stop \in Int
    BY PosFields DEF Clear
  <1>2. (LocksClear => Part(p.target - e, StagePct) >= Part(e, 2)) /\ y >= e + Part(p.target - e, StagePct)
    BY DEF PartialDue, Clear
  <1>3. Part(p.target - e, StagePct) \in Int
    <2>1. p.target - e \in Int /\ StagePct \in Int
      BY <1>1, PosFields, Percents
    <2> HIDE DEF e
    <2> QED BY <2>1, PartIsInt
  <1>4. Lock(e) \in Nat /\ Part(e, 2) \in Nat /\ Lock(e) = e + Part(e, 2) /\ e <= Lock(e)
    BY <1>1, LockIs
  <1>5. MayStop(q, x, y)
    <2> DEFINE a == Part(p.target - e, StagePct)
               b == Part(e, 2)
               l == Lock(e)
    <2>1. a \in Int /\ (LocksClear => a >= b) /\ y >= e + a /\ l \in Nat /\ l = e + b /\ e <= l
      BY <1>2, <1>3, <1>4
    <2>2. b \in Int
      BY <1>4
    <2> HIDE DEF e, a, b
    <2>3. x = IF q.stop < e THEN l ELSE q.stop
      OBVIOUS
    <2> HIDE DEF l, x
    <2> QED BY <1>1, <2>1, <2>2, <2>3 DEF MayStop
  <1>6. Remainder(q, q.entry) = [q EXCEPT !.partialDone = TRUE, !.stop = x]
    BY DEF Remainder
  <1> HIDE DEF x
  <1>7. Tighter(q, [q EXCEPT !.partialDone = TRUE, !.stop = x], y)
    BY <1>5, StopIsTighter, Zenon
  <1> QED BY <1>6, <1>7

-------------------------------------------------------------------------------
(* Accounts.                                                                 *)

SimType ==
  [fee : Int, slip : Int, balance : Int, reserved : Int, pnl : Int,
   positions : [Keys -> PosType], pending : [Satellites -> RestType]]

\* An order that rests has a limit, and was placed before.
Rests(o) == o.reserve > 0 => o.limit > 0 /\ o.placedAt <= t

\* The accounts a replay can have: with costs of its own, every scalper's first stage clear of its
\* entry; without costs, every position at its entry price.
Accounts ==
  {s \in SimType :
     /\ \E c \in Costs : s.fee = c.fee /\ s.slip = c.slip
     /\ \A k \in Keys : Fits(s, k, s.positions[k])
     /\ \A k \in Satellites : Rests(s.pending[k])}

\* Time does not take one out.
LEMMA AccountsLast ==
  ASSUME t \in Int, t' \in Int, t <= t', NEW s \in Accounts
  PROVE  s \in Accounts'
  <1>1. ASSUME NEW k \in Satellites PROVE Rests(s.pending[k])'
    <2> DEFINE o == s.pending[k]
    <2>1. o \in RestType /\ (o.reserve > 0 => o.limit > 0 /\ o.placedAt <= t)
      BY DEF Accounts, SimType, Rests
    <2>2. o.placedAt \in Int
      BY <2>1 DEF RestType
    <2> HIDE DEF o
    <2>3. Rests(o)'
      BY <2>1, <2>2 DEF Rests
    <2> QED BY <2>3 DEF o
  <1> QED BY <1>1 DEF Accounts

LEMMA AccountFields ==
  ASSUME NEW s \in Accounts
  PROVE  /\ s \in SimType /\ s.fee \in 0 .. 499 /\ s.slip \in 0 .. 499
         /\ s.balance \in Int /\ s.reserved \in Int /\ s.pnl \in Int
         /\ s.positions \in [Keys -> PosType] /\ s.pending \in [Satellites -> RestType]
         /\ \A k \in Keys : s.positions[k] \in PosType
         /\ \A k \in Satellites : s.pending[k] \in RestType
         /\ \A k \in Scalpers : k \in Keys /\ Clear(s.positions[k])
         /\ \A k \in Keys : Fits(s, k, s.positions[k])
  <1>1. s \in SimType /\ (\E c \in Costs : s.fee = c.fee /\ s.slip = c.slip) /\ \A k \in Keys : Fits(s, k, s.positions[k])
    BY DEF Accounts
  <1>2. s.balance \in Int /\ s.reserved \in Int /\ s.pnl \in Int
        /\ s.positions \in [Keys -> PosType] /\ s.pending \in [Satellites -> RestType]
    BY <1>1 DEF SimType
  <1>3. s.fee \in 0 .. 499 /\ s.slip \in 0 .. 499
    <2> PICK c \in Costs : s.fee = c.fee /\ s.slip = c.slip
      BY <1>1
    <2> QED BY ReplayAssumption
  <1>4. \A k \in Scalpers : k \in Keys /\ Clear(s.positions[k])
    BY <1>1 DEF Keys, Fits
  <1> QED BY <1>1, <1>2, <1>3, <1>4

\* Accounts with the same costs take the same positions.
LEMMA FitsAlike ==
  ASSUME NEW s, NEW w, w.fee = s.fee, w.slip = s.slip, NEW k, NEW p, Fits(s, k, p) PROVE Fits(w, k, p)
  BY DEF Fits, Free

\* An account with another position, balance and result.
With(s, k, q, balance, pnl) == [s EXCEPT !.balance = balance, !.pnl = pnl, !.positions[k] = q]

LEMMA WithIsAccount ==
  ASSUME NEW s \in Accounts, NEW k \in Keys, NEW q \in PosType, Fits(s, k, q),
         NEW balance \in Int, NEW pnl \in Int
  PROVE  /\ With(s, k, q, balance, pnl) \in Accounts
         /\ With(s, k, q, balance, pnl).positions[k] = q
  <1> DEFINE f == [s.positions EXCEPT ![k] = q]
             w == With(s, k, q, balance, pnl)
  <1>1. f \in [Keys -> PosType] /\ f[k] = q /\ \A j \in Keys : j # k => f[j] = s.positions[j]
    BY AccountFields
  <1>2. w = [s EXCEPT !.balance = balance, !.pnl = pnl, !.positions = f]
    BY AccountFields DEF With, SimType
  <1> HIDE DEF f
  <1>3. s \in SimType
    BY AccountFields
  <1>4. /\ w \in SimType /\ w.fee = s.fee /\ w.slip = s.slip
        /\ w.positions = f /\ w.pending = s.pending
    <2> HIDE DEF w
    <2> QED BY <1>1, <1>2, <1>3 DEF SimType
  <1> HIDE DEF w
  <1>5. \E c \in Costs : w.fee = c.fee /\ w.slip = c.slip
    BY <1>4 DEF Accounts
  <1>6. \A j \in Satellites : Rests(w.pending[j])
    BY <1>4 DEF Accounts
  <1>7. \A j \in Keys : Fits(w, j, w.positions[j])
    <2>1. \A j \in Keys : Fits(s, j, f[j])
      BY <1>1, AccountFields
    <2> QED BY <1>4, <2>1, FitsAlike
  <1>8. w \in Accounts
    BY <1>4, <1>5, <1>6, <1>7 DEF Accounts
  <1> QED BY <1>1, <1>4, <1>8 DEF w

\* The forms in which the methods write it.
LEMMA WithForms ==
  ASSUME NEW s \in Accounts, NEW k \in Keys, NEW q
  PROVE  [s EXCEPT !.positions[k] = q] = With(s, k, q, s.balance, s.pnl)
  <1>1. s \in SimType
    BY AccountFields
  <1> QED BY <1>1 DEF With, SimType

LEMMA WithBalance ==
  ASSUME NEW s \in Accounts, NEW k \in Keys, NEW q, NEW balance
  PROVE  [s EXCEPT !.balance = balance, !.positions[k] = q] = With(s, k, q, balance, s.pnl)
  <1>1. s \in SimType
    BY AccountFields
  <1> QED BY <1>1 DEF With, SimType

\* What a lot costs and brings.
LEMMA CostsAre ==
  ASSUME NEW s \in Accounts, NEW y \in Int
  PROVE  Paid(s, y) \in Int /\ Got(s, y) \in Int
  <1> DEFINE u == s.fee + s.slip
  <1>1. u \in Int
    <2>1. s.fee \in 0 .. 499 /\ s.slip \in 0 .. 499
      BY AccountFields
    <2> DEFINE fee == s.fee
               slip == s.slip
    <2>2. fee \in Int /\ slip \in Int
      BY <2>1
    <2> HIDE DEF fee, slip
    <2>3. fee + slip \in Int
      BY <2>2
    <2> QED BY <2>3 DEF fee, slip
  <1> HIDE DEF u
  <1>2. Part(y, u) \in Int
    BY <1>1, PartIsInt
  <1> QED BY <1>2 DEF Paid, Got, u

\* Without costs, a lot costs its price, and brings it.
LEMMA PartOfNone == ASSUME NEW y \in Int PROVE Part(y, 0) = 0
  BY DEF Part

LEMMA FreeIs == ASSUME NEW s \in Accounts, Free(s) PROVE s.fee = 0 /\ s.slip = 0 /\ s.fee + s.slip = 0
  <1> DEFINE fee == s.fee
             slip == s.slip
  <1>1. fee \in 0 .. 499 /\ slip \in 0 .. 499 /\ fee + slip = 0
    BY AccountFields DEF Free
  <1> HIDE DEF fee, slip
  <1>2. fee = 0 /\ slip = 0
    BY <1>1
  <1> QED BY <1>1, <1>2 DEF fee, slip

LEMMA FreePays ==
  ASSUME NEW s \in Accounts, Free(s), NEW y \in Int
  PROVE  Paid(s, y) = y /\ Got(s, y) = y /\ y + Part(y, s.slip) = y
  <1>1. s.fee + s.slip = 0 /\ s.slip = 0
    BY FreeIs
  <1>2. y + Part(y, 0) = y /\ y - Part(y, 0) = y
    BY PartOfNone
  <1> QED BY <1>1, <1>2 DEF Paid, Got

\* A sale of some lots of a position, at a price, leaves an account.
LEMMA SoldIsAccount ==
  ASSUME NEW s \in Accounts, NEW k \in Keys, Held(s, k), NEW lots \in Int, NEW y \in Int
  PROVE  /\ Sold(s, k, lots, y) \in Accounts
         /\ lots = s.positions[k].qty => Sold(s, k, lots, y).positions[k] = Flat
         /\ lots # s.positions[k].qty =>
              LET p == s.positions[k]
                  q == Sold(s, k, lots, y).positions[k]
              IN q \in PosType /\ q.qty = p.qty - lots /\ q.entry = p.entry /\ q.ref = p.ref
                 /\ q.stop = p.stop /\ q.target = p.target
  <1> DEFINE p == s.positions[k]
             each == Got(s, y)
             share == p.cost \div p.qty
             basis == IF lots = p.qty THEN p.cost ELSE lots * share
             q == IF lots = p.qty THEN Flat ELSE [p EXCEPT !.qty = p.qty - lots, !.cost = p.cost - basis]
             b == s.balance + lots * each
             n == s.pnl + (lots * each - basis)
  <1>1. p \in PosType /\ s.balance \in Int /\ s.pnl \in Int /\ each \in Int
    BY AccountFields, CostsAre
  <1>2. Sold(s, k, lots, y) = [s EXCEPT !.balance = b, !.pnl = n, !.positions[k] = q]
    BY AccountFields DEF Sold, SimType
  <1> HIDE DEF p, each
  <1>3. p.qty \in Int /\ p.cost \in Int /\ p.qty > 0
    BY <1>1, PosFields DEF Held, p
  <1>4. share \in Int
    BY <1>3
  <1> HIDE DEF share
  <1>5. basis \in Int /\ b \in Int /\ n \in Int
    <2>1. lots * share \in Int /\ lots * each \in Int
      BY <1>1, <1>4
    <2> QED BY <1>1, <1>3, <2>1
  <1> HIDE DEF basis, b, n
  <1>6. q \in PosType
    <2> DEFINE x == p.qty - lots
               z == p.cost - basis
    <2>1. x \in Int /\ z \in Int
      BY <1>3, <1>5
    <2>2. q = Flat \/ q = [p EXCEPT !.qty = x, !.cost = z]
      OBVIOUS
    <2> HIDE DEF x, z, q
    <2>3. [p EXCEPT !.qty = x, !.cost = z] \in PosType
      BY <1>1, <2>1 DEF PosType
    <2> QED BY <2>2, <2>3, FlatIsClear
  <1>7. lots # p.qty => /\ q.qty = p.qty - lots /\ q.entry = p.entry /\ q.ref = p.ref
                        /\ q.stop = p.stop /\ q.target = p.target /\ q.cost = p.cost - basis
    BY <1>1 DEF PosType
  <1>8. (lots = p.qty => q = Flat) /\ (lots # p.qty => basis = lots * share)
    BY DEF basis
  <1> HIDE DEF q
  <1>9. Fits(s, k, q)
    <2>1. Fits(s, k, p) /\ p.entry \in Int
      BY <1>1, AccountFields, PosFields DEF p
    <2>2. CASE lots = p.qty
      BY <1>8, <2>2, FlatFits
    <2>3. CASE lots # p.qty
      <3>1. k \in Scalpers => Clear(q)
        BY <1>7, <2>1, <2>3 DEF Clear, Fits
      <3>2. Free(s) /\ k \notin Cores => Even(k, q)
        <4> SUFFICES ASSUME Free(s), k \notin Cores PROVE Even(k, q)
          OBVIOUS
        <4>1. p.cost = p.qty * p.entry /\ (k \in Scalpers => p.ref = p.entry)
          BY <1>3, <2>1 DEF Fits, Even
        <4> DEFINE m == p.qty
                   e == p.entry
                   c == p.cost
        <4>2. m \in Int /\ m > 0 /\ e \in Int /\ c \in Int /\ c = m * e
          BY <1>3, <2>1, <4>1
        <4>3. share = c \div m
          BY DEF share
        <4> HIDE DEF m, e, c
        <4>4. c - lots * (c \div m) = (m - lots) * e
          BY <4>2, ShareOfCost
        <4>5. q.cost = q.qty * q.entry
          BY <1>7, <1>8, <2>3, <4>3, <4>4 DEF m, e, c
        <4> QED BY <1>7, <2>3, <4>1, <4>5 DEF Even
      <3> QED BY <3>1, <3>2 DEF Fits
    <2> QED BY <2>2, <2>3
  <1>10. /\ With(s, k, q, b, n) \in Accounts
         /\ With(s, k, q, b, n).positions[k] = q
    BY <1>5, <1>6, <1>9, WithIsAccount
  <1>11. Sold(s, k, lots, y) = With(s, k, q, b, n)
    BY <1>2, Zenon DEF With
  <1> QED BY <1>6, <1>7, <1>8, <1>10, <1>11 DEF p

Reasons ==
  {"partial", "trailing_stop", "stop_loss", "take_profit", "strategy_sell", "entry", "core", "resize",
   "satellite", "sat_time", "sat_tier", "sat_breakeven", "sat_stop", "sat_target"}
FillType == [side : {"BUY", "SELL"}, key : Keys, price : Int, reason : Reasons]

LEMMA FillIs ==
  ASSUME NEW side \in {"BUY", "SELL"}, NEW k \in Keys, NEW y \in Int, NEW reason \in Reasons
  PROVE  /\ Fill(side, k, y, reason) \in FillType /\ Fill(side, k, y, reason).side = side
         /\ Fill(side, k, y, reason).price = y /\ Fill(side, k, y, reason).reason = reason
  BY DEF Fill, FillType

\* A close leaves an account without the position, and one fill.
LEMMA CloseIsAccount ==
  ASSUME NEW s \in Accounts, NEW k \in Keys, NEW y \in Int, NEW reason \in Reasons
  PROVE  /\ Close(s, k, y, reason).sim \in Accounts
         /\ ~Held(Close(s, k, y, reason).sim, k)
         /\ Held(s, k) => Close(s, k, y, reason).fills = <<Fill("SELL", k, y, reason)>>
         /\ ~Held(s, k) => Close(s, k, y, reason) = Nothing(s)
  <1>1. CASE ~Held(s, k)
    BY <1>1 DEF Close, Nothing, Step
  <1>2. CASE Held(s, k)
    <2> DEFINE lots == s.positions[k].qty
               w == Sold(s, k, lots, y)
    <2>1. lots \in Int
      BY AccountFields, PosFields
    <2>2. w \in Accounts /\ w.positions[k] = Flat
      BY <1>2, <2>1, SoldIsAccount
    <2>3. Close(s, k, y, reason).sim = w /\ Close(s, k, y, reason).fills = <<Fill("SELL", k, y, reason)>>
      BY <1>2 DEF Close, Step
    <2> HIDE DEF w
    <2>4. ~Held(w, k)
      BY <2>2, FlatIsClear DEF Held
    <2> QED BY <1>2, <2>2, <2>3, <2>4
  <1> QED BY <1>1, <1>2

-------------------------------------------------------------------------------
(* The scalper's stops.                                                      *)

\* The sales that one price y may make of a position, of which the stops have made `stop`: at the
\* price, or at a level that a bar has crossed.
RiskFills(p, stop, y, crossed) ==
  {f \in FillType :
     /\ f.side = "SELL"
     /\ \/ f.price = y
        \/ crossed /\ y <= stop /\ f.price = stop
        \/ crossed /\ y >= p.target /\ f.price = p.target
     /\ f.reason \in {"take_profit", "sat_target"} => y > stop /\ y >= p.target}

\* What is left of p, at k, of the account s after the price y.
LeftOf(p, stop, y, s, k) ==
  LET q == s.positions[k] IN
  /\ q.stop = stop /\ q.target = p.target
  /\ y > stop /\ ~(y >= p.target)

\* A price of y has been met by the account s.
Met(s, k, y, crossed, step) ==
  /\ step.sim \in Accounts
  /\ \E stop \in Int :
       LET p == s.positions[k] IN
       /\ stop >= p.stop /\ (LocksClear => stop = p.stop \/ stop <= y)
       /\ step.fills \in Seq(RiskFills(p, stop, y, crossed))
       /\ Held(step.sim, k) => LeftOf(p, stop, y, step.sim, k)

\* The trailing stop and break-even.
LEMMA MovedIsAccount ==
  ASSUME NEW s \in Accounts, NEW k \in Scalpers, NEW y \in Nat
  PROVE  /\ Moved(s, k, y) \in Accounts
         /\ Tighter(s.positions[k], Moved(s, k, y).positions[k], y)
  <1> DEFINE p == s.positions[k]
             e == p.ref
             r == Trailed(p, e, y)
             q == BreakEvened(r, e, y)
  <1>1. p \in PosType /\ Clear(p) /\ k \in Keys /\ Fits(s, k, p)
    BY AccountFields
  <1>2. Moved(s, k, y) = [s EXCEPT !.positions[k] = q]
    BY AccountFields DEF Moved, SimType
  <1> HIDE DEF p
  <1>3. e \in Nat
    BY <1>1 DEF Clear
  <1> HIDE DEF e
  <1>4. Tighter(p, r, y)
    BY <1>1, TrailedIsTighter
  <1> HIDE DEF r
  <1>5. r \in PosType
    BY <1>4 DEF Tighter
  <1>6. Tighter(r, q, y)
    BY <1>3, <1>5, BreakEvenedIsTighter
  <1> HIDE DEF q
  <1>7. Tighter(p, q, y)
    <2>1. y \in Int
      OBVIOUS
    <2> QED BY <1>1, <1>4, <1>6, <2>1, TighterChain
  <1>8. q \in PosType /\ Fits(s, k, q)
    <2>1. q \in PosType
      BY <1>7 DEF Tighter
    <2> QED BY <1>1, <1>7, <2>1, ClearStays
  <1>9. With(s, k, q, s.balance, s.pnl) \in Accounts /\ With(s, k, q, s.balance, s.pnl).positions[k] = q
    <2>1. s.balance \in Int /\ s.pnl \in Int
      BY AccountFields
    <2> QED BY <1>1, <1>8, <2>1, WithIsAccount
  <1>10. Moved(s, k, y) = With(s, k, q, s.balance, s.pnl)
    BY <1>1, <1>2, WithForms
  <1> QED BY <1>7, <1>9, <1>10 DEF p

\* A half of at least one lot leaves the rest.
LEMMA HalfLeaves ==
  ASSUME NEW n \in Int, n > 0
  PROVE  n \div 2 \in Int /\ n \div 2 # n /\ n - n \div 2 > 0
  OBVIOUS

\* What a sale of the first stage is.
Partial(k, y) == Fill("SELL", k, y, "partial")

\* The first stage of the exit leaves a part of the position, its stop under the price.
LEMMA StagedIsAccount ==
  ASSUME NEW s \in Accounts, NEW k \in Scalpers, Held(s, k), NEW y \in Nat
  PROVE  /\ Staged(s, k, y).sim \in Accounts
         /\ Staged(s, k, y).fills \in {<<>>, <<Partial(k, y)>>}
         /\ LET p == s.positions[k]
                q == Staged(s, k, y).sim.positions[k]
            IN /\ q \in PosType /\ q.qty > 0 /\ q.target = p.target
               /\ q.stop >= p.stop /\ (LocksClear => q.stop = p.stop \/ q.stop <= y)
  <1> DEFINE p == s.positions[k]
  <1>1. p \in PosType /\ Clear(p) /\ k \in Keys /\ p.qty \in Int /\ p.qty > 0 /\ p.stop \in Int
    <2>1. p \in PosType /\ Clear(p) /\ k \in Keys
      BY AccountFields
    <2> QED BY <2>1, PosFields DEF Held
  <1>2. CASE ~PartialDue(p, p.entry, y)
    <2>1. Staged(s, k, y).sim = s /\ Staged(s, k, y).fills = <<>>
      BY <1>2 DEF Staged, Nothing, Step
    <2>2. p.stop >= p.stop
      BY <1>1
    <2> QED BY <1>1, <2>1, <2>2
  <1>3. CASE PartialDue(p, p.entry, y)
    <2> DEFINE half == PartialClose(s, k, y)
               r == half.sim.positions[k]
               q == Remainder(r, r.entry)
    <2>1. /\ half.sim \in Accounts /\ half.fills \in {<<>>, <<Partial(k, y)>>}
          /\ r \in PosType /\ r.qty > 0 /\ r.entry = p.entry /\ r.stop = p.stop /\ r.target = p.target
          /\ r.ref = p.ref
      <3> DEFINE n == p.qty \div 2
                 w == Sold(s, k, n, y)
      <3>1. n \in Int /\ n # p.qty /\ p.qty - n > 0
        BY <1>1, HalfLeaves
      <3>2. half = IF n = 0 THEN Step(s, <<>>) ELSE Step(w, <<Partial(k, y)>>)
        BY DEF PartialClose, Nothing, Partial
      <3> HIDE DEF half
      <3>3. CASE n = 0
        <4>1. half.sim = s /\ half.fills = <<>>
          BY <3>2, <3>3 DEF Step
        <4> QED BY <1>1, <4>1
      <3>4. CASE n # 0
        <4> HIDE DEF n
        <4>1. y \in Int
          OBVIOUS
        <4>2. /\ w \in Accounts
              /\ w.positions[k] \in PosType /\ w.positions[k].qty = p.qty - n
              /\ w.positions[k].entry = p.entry /\ w.positions[k].ref = p.ref
              /\ w.positions[k].stop = p.stop /\ w.positions[k].target = p.target
          BY <1>1, <3>1, <4>1, SoldIsAccount
        <4>3. half.sim = w /\ half.fills = <<Partial(k, y)>>
          BY <3>2, <3>4 DEF Step
        <4> QED BY <3>1, <4>2, <4>3
      <3> QED BY <3>3, <3>4
    <2>2. Staged(s, k, y).sim = [half.sim EXCEPT !.positions[k] = q] /\ Staged(s, k, y).fills = half.fills
      <3>1. Staged(s, k, y) = Step([half.sim EXCEPT !.positions[k] = Remainder(@, @.entry)], half.fills)
        BY <1>3 DEF Staged
      <3> HIDE DEF half
      <3>2. [half.sim EXCEPT !.positions[k] = Remainder(@, @.entry)] = [half.sim EXCEPT !.positions[k] = q]
        BY <1>1, <2>1, AccountFields DEF SimType
      <3> QED BY <3>1, <3>2 DEF Step
    <2> DEFINE a == half.sim
    <2>3. Tighter(r, q, y)
      <3> HIDE DEF half
      <3> QED BY <1>1, <1>3, <2>1, RemainderIsTighter
    <2> HIDE DEF half, q
    <2>4. q \in PosType /\ q.qty = r.qty /\ q.entry = r.entry /\ q.ref = r.ref /\ q.target = r.target
          /\ q.stop >= r.stop /\ (LocksClear => q.stop = r.stop \/ q.stop <= y)
      BY <2>3 DEF Tighter
    <2>5. Fits(a, k, q)
      <3>1. Fits(a, k, r)
        BY <1>1, <2>1, AccountFields DEF a
      <3> HIDE DEF a
      <3> QED BY <2>3, <3>1, ClearStays
    <2>6. With(a, k, q, a.balance, a.pnl) \in Accounts /\ With(a, k, q, a.balance, a.pnl).positions[k] = q
      <3>1. a.balance \in Int /\ a.pnl \in Int /\ a \in Accounts
        BY <2>1, AccountFields
      <3> HIDE DEF a
      <3>2. q \in PosType /\ k \in Keys /\ Fits(a, k, q)
        BY <1>1, <2>4, <2>5 DEF a
      <3> DEFINE b == a.balance
                 n == a.pnl
      <3>3. b \in Int /\ n \in Int
        BY <3>1
      <3> HIDE DEF b, n
      <3>4. With(a, k, q, b, n) \in Accounts /\ With(a, k, q, b, n).positions[k] = q
        BY <3>1, <3>2, <3>3, WithIsAccount
      <3> QED BY <3>4 DEF b, n
    <2>7. [a EXCEPT !.positions[k] = q] = With(a, k, q, a.balance, a.pnl)
      BY <1>1, <2>1, WithForms, Zenon
    <2> QED BY <2>1, <2>2, <2>4, <2>6, <2>7
  <1> QED BY <1>2, <1>3

\* Why a price ends a position.
LEMMA ExitIs ==
  ASSUME NEW p \in PosType, NEW y \in Nat
  PROVE  /\ ExitReason(p, y) \in {"trailing_stop", "stop_loss", "take_profit", "none"}
         /\ ExitReason(p, y) \in {"trailing_stop", "stop_loss"} => y <= p.stop
         /\ ExitReason(p, y) = "take_profit" => y > p.stop /\ y >= p.target
         /\ ExitReason(p, y) = "none" => y > p.stop /\ ~(y >= p.target)
  <1> DEFINE stop == p.stop
             target == p.target
             t1 == TrailPct > 0 /\ p.stop > p.initial
  <1>1. stop \in Int /\ target \in Int
    BY PosFields
  <1>2. ExitReason(p, y) = CASE y <= stop -> IF t1 THEN "trailing_stop" ELSE "stop_loss"
                             [] y > stop /\ y >= target -> "take_profit"
                             [] OTHER -> "none"
    BY DEF ExitReason
  <1> HIDE DEF stop, target, t1
  <1> DEFINE why == ExitReason(p, y)
  <1> HIDE DEF why
  <1>3. CASE y <= stop
    <2>1. why = IF t1 THEN "trailing_stop" ELSE "stop_loss"
      <3>1. ~(y > stop /\ y >= target)
        BY <1>1, <1>3
      <3> QED BY <1>2, <1>3, <3>1 DEF why
    <2> QED BY <1>3, <2>1 DEF why, stop, target
  <1>4. CASE y > stop /\ y >= target
    <2>1. why = "take_profit"
      <3>1. ~(y <= stop)
        BY <1>1, <1>4
      <3> QED BY <1>2, <1>4, <3>1 DEF why
    <2> QED BY <1>4, <2>1 DEF why, stop, target
  <1>5. CASE y > stop /\ ~(y >= target)
    <2>1. why = "none"
      <3>1. ~(y <= stop)
        BY <1>1, <1>5
      <3> QED BY <1>2, <1>5, <3>1 DEF why
    <2> QED BY <1>5, <2>1 DEF why, stop, target
  <1>6. y <= stop \/ y > stop
    BY <1>1
  <1> QED BY <1>3, <1>4, <1>5, <1>6

\* The sales of an exit, at the price or at the level a bar crosses.
LEMMA ExitFills ==
  ASSUME NEW p \in PosType, NEW k \in Keys, NEW y \in Nat, NEW crossed \in BOOLEAN, NEW target, p.target = target,
         ExitReason(p, y) # "none", NEW o, o.target = target
  PROVE  LET why   == ExitReason(p, y)
             level == IF ~crossed THEN y ELSE IF why = "take_profit" THEN p.target ELSE p.stop
         IN level \in Int /\ Fill("SELL", k, level, why) \in RiskFills(o, p.stop, y, crossed)
  <1> DEFINE why   == ExitReason(p, y)
             stop  == p.stop
             level == IF ~crossed THEN y ELSE IF why = "take_profit" THEN target ELSE stop
             f == Fill("SELL", k, level, why)
  <1>1. stop \in Int /\ target \in Int
    BY PosFields
  <1>2. why \in {"trailing_stop", "stop_loss", "take_profit"} /\ why \in Reasons
        /\ (why = "take_profit" => y > stop /\ y >= target) /\ (why # "take_profit" => y <= stop)
    <2> HIDE DEF why
    <2>1. /\ why \in {"trailing_stop", "stop_loss", "take_profit", "none"} /\ why # "none"
          /\ why \in {"trailing_stop", "stop_loss"} => y <= stop
          /\ why = "take_profit" => y > stop /\ y >= target
      BY ExitIs DEF why
    <2>2. why \in {"trailing_stop", "stop_loss", "take_profit"}
      BY <2>1
    <2>3. why # "take_profit" => why \in {"trailing_stop", "stop_loss"}
      BY <2>2
    <2>4. why \in Reasons
      BY <2>2 DEF Reasons
    <2> QED BY <2>1, <2>2, <2>3, <2>4
  <1> HIDE DEF why, stop
  <1>3. level \in Int /\ (level = y \/ (crossed /\ y <= stop /\ level = stop) \/ (crossed /\ y >= target /\ level = target))
    BY <1>1, <1>2
  <1> HIDE DEF level
  <1>4. f \in FillType /\ f.side = "SELL" /\ f.price = level /\ f.reason = why
    BY <1>2, <1>3, FillIs
  <1> HIDE DEF f
  <1>5. f.reason \in {"take_profit", "sat_target"} => y > stop /\ y >= target
    BY <1>2, <1>4
  <1>6. f \in RiskFills(o, stop, y, crossed)
    BY <1>3, <1>4, <1>5 DEF RiskFills
  <1> QED BY <1>3, <1>6 DEF f, level, why, stop

\* One price of a scalper's position.
LEMMA CheckRiskMet ==
  ASSUME NEW s \in Accounts, NEW k \in Scalpers, Held(s, k), NEW y \in Nat, NEW crossed \in BOOLEAN
  PROVE  Met(s, k, y, crossed, CheckRisk(s, k, y, crossed))
  <1> DEFINE m == Moved(s, k, y)
             a == Staged(m, k, y)
             p == s.positions[k]
             q == a.sim.positions[k]
             why == ExitReason(q, y)
             level == IF ~crossed THEN y ELSE IF why = "take_profit" THEN q.target ELSE q.stop
             step == CheckRisk(s, k, y, crossed)
             F == RiskFills(p, q.stop, y, crossed)
  <1>1. p \in PosType /\ p.stop \in Int /\ p.qty > 0 /\ k \in Keys
    BY AccountFields, PosFields DEF Held
  <1>2. m \in Accounts /\ Tighter(p, m.positions[k], y)
    BY MovedIsAccount
  <1>3. step = IF why = "none" THEN a ELSE After(a, Close(a.sim, k, level, why))
    BY DEF CheckRisk, Exited
  <1> DEFINE r == m.positions[k]
  <1> HIDE DEF m, step, p
  <1>4. r \in PosType /\ r.qty > 0 /\ r.target = p.target
        /\ r.stop >= p.stop /\ (LocksClear => r.stop = p.stop \/ r.stop <= y) /\ r.stop \in Int
    BY <1>1, <1>2, PosFields DEF Tighter
  <1>5. /\ a.sim \in Accounts /\ a.fills \in {<<>>, <<Partial(k, y)>>}
        /\ q \in PosType /\ q.qty > 0 /\ q.target = r.target
        /\ q.stop >= r.stop /\ (LocksClear => q.stop = r.stop \/ q.stop <= y)
    BY <1>2, <1>4, StagedIsAccount DEF Held
  <1> HIDE DEF a, r
  <1>6. q.stop \in Int /\ q.target = p.target /\ q.stop >= p.stop /\ (LocksClear => q.stop = p.stop \/ q.stop <= y)
    <2>1. q.stop \in Int
      BY <1>5, PosFields
    <2> QED BY <1>1, <1>4, <1>5, <2>1
  <1>7. a.fills \in Seq(F)
    <2> DEFINE f == Partial(k, y)
    <2>1. y \in Int /\ "partial" \in Reasons
      BY DEF Reasons
    <2>2. f \in FillType /\ f.side = "SELL" /\ f.price = y /\ f.reason = "partial"
      BY <1>1, <2>1, FillIs DEF Partial
    <2> HIDE DEF f
    <2>3. f \in F
      BY <2>2 DEF RiskFills
    <2> HIDE DEF F
    <2>4. <<>> \in Seq(F) /\ <<f>> \in Seq(F)
      BY <2>3
    <2> QED BY <1>5, <2>4 DEF f
  <1> DEFINE stop == q.stop
  <1>10. ASSUME step.sim \in Accounts, step.fills \in Seq(F), Held(step.sim, k) => LeftOf(p, stop, y, step.sim, k)
         PROVE  Met(s, k, y, crossed, step)
    <2>1. stop \in Int /\ stop >= p.stop /\ (LocksClear => stop = p.stop \/ stop <= y)
      BY <1>6
    <2>2. step.fills \in Seq(RiskFills(p, stop, y, crossed))
      BY <1>10
    <2> HIDE DEF stop, F
    <2> QED BY <1>10, <2>1, <2>2 DEF Met, p
  <1>8. CASE why = "none"
    <2>1. step = a
      BY <1>3, <1>8
    <2>2. y > q.stop /\ ~(y >= q.target)
      BY <1>5, <1>8, ExitIs
    <2>3. LeftOf(p, q.stop, y, step.sim, k)
      BY <1>6, <2>1, <2>2 DEF LeftOf
    <2> HIDE DEF F
    <2>4. step.sim \in Accounts /\ step.fills \in Seq(F)
      BY <1>5, <1>7, <2>1
    <2> QED BY <1>10, <2>3, <2>4 DEF step
  <1>9. CASE why # "none"
    <2> DEFINE c == Close(a.sim, k, level, why)
               f == Fill("SELL", k, level, why)
    <2>1. level \in Int /\ f \in F
      BY <1>1, <1>5, <1>6, <1>9, ExitFills
    <2> HIDE DEF level, why, F, f
    <2>2. why \in Reasons
      <3>1. why \in {"trailing_stop", "stop_loss", "take_profit", "none"}
        BY <1>5, ExitIs DEF why
      <3> QED BY <1>9, <3>1 DEF Reasons
    <2>3. /\ c.sim \in Accounts /\ ~Held(c.sim, k)
          /\ c.fills = <<f>>
      <3>1. Held(a.sim, k)
        BY <1>5 DEF Held
      <3> DEFINE b == a.sim
      <3>2. b \in Accounts /\ Held(b, k)
        BY <1>5, <3>1
      <3> HIDE DEF b
      <3>3. /\ Close(b, k, level, why).sim \in Accounts /\ ~Held(Close(b, k, level, why).sim, k)
            /\ Close(b, k, level, why).fills = <<Fill("SELL", k, level, why)>>
        BY <1>1, <2>1, <2>2, <3>2, CloseIsAccount
      <3> QED BY <3>3 DEF b, f
    <2> HIDE DEF c
    <2>4. step = After(a, c)
      BY <1>3, <1>9 DEF c
    <2>5. step.sim = c.sim /\ step.fills = a.fills \o c.fills
      BY <2>4 DEF After, Step
    <2>6. a.fills \o <<f>> \in Seq(F)
      BY <1>7, <2>1
    <2>7. step.fills \in Seq(F)
      BY <2>3, <2>5, <2>6
    <2> QED BY <1>10, <2>3, <2>5, <2>7 DEF step
  <1> QED BY <1>8, <1>9

LEMMA NothingMet ==
  ASSUME NEW s, NEW k, NEW y, NEW crossed, ~Held(s, k)
  PROVE  CheckRisk(s, k, y, crossed) = Nothing(s)
  BY DEF CheckRisk

-------------------------------------------------------------------------------
(* A scalper's bar.                                                          *)

\* The fills that a bar may make of the position p, when locks are clear.
FairFills(p, bar) ==
  {f \in FillType :
     LocksClear =>
       /\ f.price >= bar.low
       /\ f.side = "SELL" =>
          /\ f.price <= bar.high
          /\ p.qty > 0 /\ bar.open <= p.stop => f.price <= bar.open
          /\ p.qty > 0 /\ bar.low <= p.stop /\ bar.open < p.target
               => f.reason \notin {"take_profit", "sat_target"}}

\* A step whose account is one, with fills of F.
Sound(step, F) == step.sim \in Accounts /\ step.fills \in Seq(F)

LEMMA NothingIsSound == ASSUME NEW s \in Accounts, NEW F PROVE Sound(Nothing(s), F)
  <1>1. <<>> \in Seq(F)
    OBVIOUS
  <1> QED BY <1>1 DEF Sound, Nothing, Step

LEMMA AfterIsSound ==
  ASSUME NEW step, NEW next, NEW F, Sound(step, F), Sound(next, F)
  PROVE  Sound(After(step, next), F) /\ After(step, next).sim = next.sim
  <1>1. step.fills \o next.fills \in Seq(F)
    BY DEF Sound
  <1> QED BY <1>1 DEF Sound, After, Step

\* The prices of the stop after a price y, from the stop `from`.
Moves(from, y) == {stop \in Int : stop >= from /\ (LocksClear => stop = from \/ stop <= y)}

\* A price on a bar's way, when each of its sales is one of F.
LEMMA PriceIsSound ==
  ASSUME NEW s \in Accounts, NEW k \in Scalpers, Held(s, k), NEW y \in Nat, NEW crossed \in BOOLEAN, NEW F,
         NEW p, p = s.positions[k], \A stop \in Moves(p.stop, y) : RiskFills(p, stop, y, crossed) \subseteq F
  PROVE  LET step == CheckRisk(s, k, y, crossed) IN
         /\ Sound(step, F)
         /\ \E stop \in Moves(p.stop, y) : Held(step.sim, k) => LeftOf(p, stop, y, step.sim, k)
  <1> DEFINE step == CheckRisk(s, k, y, crossed)
  <1>1. Met(s, k, y, crossed, step)
    BY CheckRiskMet
  <1> HIDE DEF step
  <1>2. PICK stop \in Int : /\ stop >= p.stop /\ (LocksClear => stop = p.stop \/ stop <= y)
                            /\ step.fills \in Seq(RiskFills(p, stop, y, crossed))
                            /\ Held(step.sim, k) => LeftOf(p, stop, y, step.sim, k)
    BY <1>1 DEF Met
  <1> DEFINE R == RiskFills(p, stop, y, crossed)
  <1>3. stop \in Moves(p.stop, y)
    BY <1>2 DEF Moves
  <1>4. R \subseteq F
    BY <1>3
  <1>5. step.fills \in Seq(R)
    BY <1>2
  <1> HIDE DEF R
  <1>6. step.fills \in Seq(F)
    BY <1>4, <1>5
  <1>7. Sound(step, F)
    BY <1>1, <1>6 DEF Met, Sound
  <1>8. \E x \in Moves(p.stop, y) : Held(step.sim, k) => LeftOf(p, x, y, step.sim, k)
    BY <1>2, <1>3
  <1> QED BY <1>7, <1>8 DEF step

\* Where a position stands in a bar: its stop has come from `from` and is under the price w.
Within(s, k, target, from, w) ==
  LET q == s.positions[k] IN q.target = target /\ q.stop \in Int /\ from <= q.stop /\ q.stop < w

\* The next price y of a bar's way, and what is left after it.
LEMMA AlongIsSound ==
  ASSUME NEW step, NEW k \in Scalpers, NEW y \in Nat, NEW F, Sound(step, F), NEW target,
         NEW from \in Int, NEW w \in Int,
         Held(step.sim, k) =>
           /\ Within(step.sim, k, target, from, w)
           /\ \A stop \in Moves(step.sim.positions[k].stop, y) :
                RiskFills(step.sim.positions[k], stop, y, TRUE) \subseteq F
  PROVE  LET next == Along(step, k, y) IN
         /\ Sound(next, F)
         /\ Held(next.sim, k) => Held(step.sim, k) /\ Within(next.sim, k, target, from, y) /\ ~(y >= target)
  <1> DEFINE s == step.sim
             p == s.positions[k]
             risk == CheckRisk(s, k, y, TRUE)
             next == Along(step, k, y)
  <1>1. CASE ~Held(s, k)
    BY <1>1 DEF Along
  <1>2. CASE Held(s, k)
    <2>1. next = After(step, risk)
      BY <1>2 DEF Along
    <2>2. s \in Accounts
      BY DEF Sound
    <2> HIDE DEF s, next
    <2>3. \A stop \in Moves(p.stop, y) : RiskFills(p, stop, y, TRUE) \subseteq F
      BY <1>2 DEF s
    <2>4. p.target = target /\ p.stop \in Int /\ from <= p.stop
      BY <1>2 DEF s, Within
    <2>5. Sound(risk, F) /\ \E stop \in Moves(p.stop, y) : Held(risk.sim, k) => LeftOf(p, stop, y, risk.sim, k)
      <3> DEFINE o == p
      <3>1. o = s.positions[k] /\ \A stop \in Moves(o.stop, y) : RiskFills(o, stop, y, TRUE) \subseteq F
        BY <2>3
      <3> HIDE DEF o
      <3>2. LET r == CheckRisk(s, k, y, TRUE) IN
            Sound(r, F) /\ \E stop \in Moves(o.stop, y) : Held(r.sim, k) => LeftOf(o, stop, y, r.sim, k)
        BY <1>2, <2>2, <3>1, PriceIsSound
      <3> QED BY <3>2 DEF o
    <2> HIDE DEF risk, p
    <2>6. PICK stop \in Moves(p.stop, y) : Held(risk.sim, k) => LeftOf(p, stop, y, risk.sim, k)
      BY <2>5
    <2>7. Sound(next, F) /\ next.sim = risk.sim
      BY <2>1, <2>5, AfterIsSound
    <2>8. Held(risk.sim, k) => Within(risk.sim, k, target, from, y) /\ ~(y >= target)
      <3>1. stop \in Int /\ from <= stop
        BY <2>4 DEF Moves
      <3> QED BY <2>4, <2>6, <3>1 DEF LeftOf, Within
    <2> QED BY <1>2, <2>7, <2>8 DEF next, s
  <1> QED BY <1>1, <1>2

\* The four prices of a bar.
IsBar(bar) ==
  /\ bar.open \in Nat /\ bar.low \in Nat /\ bar.high \in Nat /\ bar.close \in Nat /\ bar.low > 0
  /\ bar.low <= bar.open /\ bar.low <= bar.close /\ bar.open <= bar.high /\ bar.close <= bar.high

LEMMA BarsAre == ASSUME NEW bar \in Bars PROVE IsBar(bar)
  BY ReplayAssumption DEF IsBar

\* Once a bar has opened over the stop and under the target of p, its sales are inside it.
LEMMA WayIsFair ==
  ASSUME NEW p \in PosType, NEW bar, IsBar(bar), NEW q, NEW y \in Nat, bar.low <= y, y <= bar.high,
         NEW w \in Nat, w <= bar.high, q.stop \in Int, q.stop < w, q.target \in Int, q.target > bar.open,
         p.stop < bar.open, p.stop < bar.low \/ ~(y >= q.target)
  PROVE  \A stop \in Moves(q.stop, y) : RiskFills(q, stop, y, TRUE) \subseteq FairFills(p, bar)
  <1> DEFINE o == bar.open
             l == bar.low
             h == bar.high
             was == p.stop
             from == q.stop
             target == q.target
             n == p.qty
  <1>1. /\ o \in Nat /\ l \in Nat /\ h \in Nat /\ was \in Int /\ from \in Int /\ target \in Int
        /\ l <= o /\ l <= y /\ y <= h /\ w <= h /\ from < w /\ target > o /\ was < o
        /\ was < l \/ ~(y >= target)
    BY PosFields DEF IsBar
  <1> HIDE DEF o, l, h, was, from, target
  <1> SUFFICES ASSUME NEW stop \in Moves(from, y), NEW f \in RiskFills(q, stop, y, TRUE)
               PROVE  f \in FairFills(p, bar)
    BY DEF from
  <1>2. stop \in Int /\ (LocksClear => stop = from \/ stop <= y)
    BY DEF Moves
  <1> DEFINE x == f.price
  <1>3. f \in FillType /\ x \in Int /\ f.side = "SELL"
    BY DEF RiskFills, FillType
  <1>4. x = y \/ (y <= stop /\ x = stop) \/ (y >= target /\ x = target)
    BY DEF RiskFills, target
  <1>5. f.reason \in {"take_profit", "sat_target"} => y > stop /\ y >= target
    BY DEF RiskFills, target
  <1> HIDE DEF x
  <1>6. LocksClear => l <= x /\ x <= h
    BY <1>1, <1>2, <1>3, <1>4
  <1>7. ~(o <= was) /\ (l <= was => f.reason \notin {"take_profit", "sat_target"})
    BY <1>1, <1>5
  <1>8. /\ LocksClear => f.price >= bar.low /\ f.price <= bar.high
        /\ ~(bar.open <= p.stop)
        /\ bar.low <= p.stop => f.reason \notin {"take_profit", "sat_target"}
    BY <1>1, <1>3, <1>6, <1>7 DEF o, l, h, was, x
  <1> QED BY <1>3, <1>8 DEF FairFills

\* The sales at a bar's open.
LEMMA OpenIsFair ==
  ASSUME NEW p \in PosType, NEW bar, IsBar(bar), NEW stop \in Moves(p.stop, bar.open)
  PROVE  RiskFills(p, stop, bar.open, FALSE) \subseteq FairFills(p, bar)
  <1> DEFINE o == bar.open
             l == bar.low
             h == bar.high
             target == p.target
             was == p.stop
  <1>1. o \in Nat /\ l \in Nat /\ h \in Nat /\ l <= o /\ o <= h /\ target \in Int /\ was \in Int
    BY PosFields DEF IsBar
  <1> HIDE DEF o, l, h, target, was
  <1> SUFFICES ASSUME NEW f \in RiskFills(p, stop, o, FALSE) PROVE f \in FairFills(p, bar)
    BY DEF o
  <1>2. f \in FillType /\ f.side = "SELL" /\ f.price = o
    BY DEF RiskFills
  <1>3. f.reason \in {"take_profit", "sat_target"} => o >= target
    BY DEF RiskFills, target
  <1>4. o < target => f.reason \notin {"take_profit", "sat_target"}
    BY <1>1, <1>3
  <1>5. f.price >= l /\ f.price <= h /\ f.price <= o
    BY <1>1, <1>2
  <1>6. /\ f.price >= bar.low /\ f.price <= bar.high /\ f.price <= bar.open
        /\ bar.open < p.target => f.reason \notin {"take_profit", "sat_target"}
    BY <1>4, <1>5 DEF o, l, h, target
  <1> QED BY <1>2, <1>6 DEF FairFills

\* A bar met by a scalper's position leaves an account, and its fills are fair.
LEMMA ReplayBarIsFair ==
  ASSUME NEW s \in Accounts, NEW k \in Scalpers, NEW bar, IsBar(bar)
  PROVE  Sound(ReplayBar(s, k, bar), FairFills(s.positions[k], bar))
  <1> DEFINE p == s.positions[k]
             F == FairFills(p, bar)
             first == CheckRisk(s, k, bar.open, FALSE)
             low == Along(first, k, bar.low)
             high == Along(low, k, bar.high)
             close == Along(high, k, bar.close)
             target == p.target
             from == p.stop
  <1>1. CASE ~Held(s, k)
    <2>1. first = Nothing(s)
      BY <1>1, NothingMet
    <2> HIDE DEF first
    <2>2. first.sim = s
      BY <2>1 DEF Nothing, Step
    <2>3. low = first
      BY <1>1, <2>2 DEF Along
    <2> HIDE DEF low
    <2>4. high = first
      BY <1>1, <2>2, <2>3 DEF Along
    <2> HIDE DEF high
    <2>5. close = first
      BY <1>1, <2>2, <2>4 DEF Along
    <2>6. ReplayBar(s, k, bar) = first
      BY <2>5 DEF ReplayBar, close, high, low, first
    <2> QED BY <2>1, <2>6, NothingIsSound
  <1>2. CASE Held(s, k)
    <2>1. p \in PosType /\ target \in Int /\ from \in Int
      BY AccountFields, PosFields
    <2> HIDE DEF p, target, from
    <2>2. /\ bar.open \in Nat /\ bar.low \in Nat /\ bar.high \in Nat /\ bar.close \in Nat
          /\ bar.low <= bar.open /\ bar.low <= bar.close /\ bar.open <= bar.high /\ bar.close <= bar.high
      BY DEF IsBar
    <2>3. Sound(first, F) /\ (Held(first.sim, k) => Within(first.sim, k, target, from, bar.open) /\ ~(bar.open >= target))
      <3> DEFINE y == bar.open
      <3>1. y \in Nat /\ \A stop \in Moves(p.stop, y) : RiskFills(p, stop, y, FALSE) \subseteq F
        BY <2>1, <2>2, OpenIsFair
      <3> HIDE DEF y, F
      <3>2. p = s.positions[k] /\ FALSE \in BOOLEAN
        BY DEF p
      <3>3. LET step == CheckRisk(s, k, y, FALSE) IN
            Sound(step, F) /\ \E stop \in Moves(p.stop, y) : Held(step.sim, k) => LeftOf(p, stop, y, step.sim, k)
        BY <1>2, <3>1, <3>2, PriceIsSound
      <3>4. Sound(first, F) /\ \E stop \in Moves(p.stop, y) : Held(first.sim, k) => LeftOf(p, stop, y, first.sim, k)
        BY <3>3 DEF y
      <3> HIDE DEF first
      <3>5. PICK stop \in Moves(p.stop, y) : Held(first.sim, k) => LeftOf(p, stop, y, first.sim, k)
        BY <3>4
      <3>6. stop \in Int /\ from <= stop
        BY <2>1 DEF Moves, from
      <3>7. Held(first.sim, k) => Within(first.sim, k, target, from, y) /\ ~(y >= target)
        BY <3>5, <3>6 DEF LeftOf, Within, target
      <3> QED BY <3>4, <3>7 DEF y
    <2> HIDE DEF first
    <2>4. Sound(low, F) /\ (Held(low.sim, k) => Held(first.sim, k) /\ Within(low.sim, k, target, from, bar.low))
      <3> DEFINE q == first.sim.positions[k]
      <3>1. Held(first.sim, k) => \A stop \in Moves(q.stop, bar.low) : RiskFills(q, stop, bar.low, TRUE) \subseteq F
        <4> SUFFICES ASSUME Held(first.sim, k) PROVE \A stop \in Moves(q.stop, bar.low) : RiskFills(q, stop, bar.low, TRUE) \subseteq F
          OBVIOUS
        <4>1. q.stop \in Int /\ q.stop < bar.open /\ from <= q.stop /\ q.target = target /\ ~(bar.open >= target)
          BY <2>3 DEF Within
        <4> HIDE DEF q
        <4> DEFINE y == bar.low
                   w == bar.open
                   h == bar.high
                   at == q.stop
        <4>2. y \in Nat /\ w \in Nat /\ h \in Nat /\ at \in Int /\ y <= y /\ y <= h /\ w <= h /\ y <= w /\ at < w /\ from <= at
              /\ ~(w >= target)
          BY <2>2, <4>1
        <4> HIDE DEF y, w, h, at
        <4>3. target > w /\ ~(y >= target) /\ from < w
          BY <2>1, <4>2
        <4>4. /\ bar.low <= y /\ y <= bar.high /\ w <= bar.high /\ q.stop \in Int /\ q.stop < w
              /\ q.target \in Int /\ q.target > bar.open /\ p.stop < bar.open
              /\ p.stop < bar.low \/ ~(y >= q.target)
          BY <2>1, <4>1, <4>2, <4>3 DEF y, w, h, at, from
        <4>5. \A stop \in Moves(q.stop, y) : RiskFills(q, stop, y, TRUE) \subseteq FairFills(p, bar)
          BY <2>1, <4>2, <4>4, WayIsFair
        <4> QED BY <4>5 DEF y
      <3>2. Held(first.sim, k) => /\ Within(first.sim, k, target, from, bar.open)
                                  /\ \A stop \in Moves(first.sim.positions[k].stop, bar.low) :
                                       RiskFills(first.sim.positions[k], stop, bar.low, TRUE) \subseteq F
        BY <2>3, <3>1
      <3> DEFINE y == bar.low
                 w == bar.open
      <3>3. y \in Nat /\ w \in Int
        BY <2>2
      <3>4. Held(first.sim, k) => /\ Within(first.sim, k, target, from, w)
                                  /\ \A stop \in Moves(first.sim.positions[k].stop, y) :
                                       RiskFills(first.sim.positions[k], stop, y, TRUE) \subseteq F
        BY <3>2
      <3> HIDE DEF y, w, F
      <3>5. LET next == Along(first, k, y) IN
            Sound(next, F) /\ (Held(next.sim, k) => Held(first.sim, k) /\ Within(next.sim, k, target, from, y) /\ ~(y >= target))
        BY <2>1, <2>3, <3>3, <3>4, AlongIsSound
      <3> QED BY <3>5 DEF y
    <2> HIDE DEF low
    <2>5. Sound(high, F) /\ (Held(high.sim, k) => Held(low.sim, k) /\ Within(high.sim, k, target, from, bar.high))
      <3> DEFINE q == low.sim.positions[k]
      <3>1. Held(low.sim, k) => \A stop \in Moves(q.stop, bar.high) : RiskFills(q, stop, bar.high, TRUE) \subseteq F
        <4> SUFFICES ASSUME Held(low.sim, k) PROVE \A stop \in Moves(q.stop, bar.high) : RiskFills(q, stop, bar.high, TRUE) \subseteq F
          OBVIOUS
        <4>1. q.stop \in Int /\ q.stop < bar.low /\ from <= q.stop /\ q.target = target /\ ~(bar.open >= target)
          BY <2>3, <2>4 DEF Within
        <4> HIDE DEF q
        <4> DEFINE y == bar.high
                   w == bar.low
                   o == bar.open
                   at == q.stop
        <4>2. y \in Nat /\ w \in Nat /\ o \in Nat /\ at \in Int /\ y <= y /\ w <= y /\ w <= o /\ at < w /\ from <= at
              /\ ~(o >= target) /\ o <= y
          BY <2>2, <4>1
        <4> HIDE DEF y, w, o, at
        <4>3. target > o /\ from < w /\ from < o
          BY <2>1, <4>2
        <4>4. /\ bar.low <= y /\ y <= bar.high /\ w <= bar.high /\ q.stop \in Int /\ q.stop < w
              /\ q.target \in Int /\ q.target > bar.open /\ p.stop < bar.open
              /\ p.stop < bar.low \/ ~(y >= q.target)
          BY <2>1, <4>1, <4>2, <4>3 DEF y, w, o, at, from
        <4>5. \A stop \in Moves(q.stop, y) : RiskFills(q, stop, y, TRUE) \subseteq FairFills(p, bar)
          BY <2>1, <4>2, <4>4, WayIsFair
        <4> QED BY <4>5 DEF y
      <3>2. Held(low.sim, k) => /\ Within(low.sim, k, target, from, bar.low)
                                /\ \A stop \in Moves(low.sim.positions[k].stop, bar.high) :
                                     RiskFills(low.sim.positions[k], stop, bar.high, TRUE) \subseteq F
        BY <2>4, <3>1
      <3> DEFINE y == bar.high
                 w == bar.low
      <3>3. y \in Nat /\ w \in Int
        BY <2>2
      <3>4. Held(low.sim, k) => /\ Within(low.sim, k, target, from, w)
                                /\ \A stop \in Moves(low.sim.positions[k].stop, y) :
                                     RiskFills(low.sim.positions[k], stop, y, TRUE) \subseteq F
        BY <3>2
      <3> HIDE DEF y, w, F
      <3>5. LET next == Along(low, k, y) IN
            Sound(next, F) /\ (Held(next.sim, k) => Held(low.sim, k) /\ Within(next.sim, k, target, from, y) /\ ~(y >= target))
        BY <2>1, <2>4, <3>3, <3>4, AlongIsSound
      <3> QED BY <3>5 DEF y
    <2> HIDE DEF high
    <2>6. Sound(close, F)
      <3> DEFINE q == high.sim.positions[k]
      <3>1. Held(high.sim, k) => \A stop \in Moves(q.stop, bar.close) : RiskFills(q, stop, bar.close, TRUE) \subseteq F
        <4> SUFFICES ASSUME Held(high.sim, k) PROVE \A stop \in Moves(q.stop, bar.close) : RiskFills(q, stop, bar.close, TRUE) \subseteq F
          OBVIOUS
        <4>0. from < bar.low
          <5> DEFINE l == bar.low
                     x == low.sim.positions[k].stop
          <5>1. x \in Int /\ from <= x /\ x < l /\ l \in Nat
            BY <2>2, <2>4, <2>5 DEF Within
          <5> HIDE DEF l, x
          <5>2. from < l
            BY <2>1, <5>1
          <5> QED BY <5>2 DEF l
        <4>1. q.stop \in Int /\ q.stop < bar.high /\ from <= q.stop /\ q.target = target /\ ~(bar.open >= target)
          BY <2>3, <2>4, <2>5 DEF Within
        <4> HIDE DEF q
        <4> DEFINE y == bar.close
                   w == bar.high
                   o == bar.open
                   l == bar.low
                   at == q.stop
        <4>2. y \in Nat /\ w \in Nat /\ o \in Nat /\ l \in Nat /\ at \in Int /\ l <= y /\ y <= w /\ l <= o /\ at < w /\ from < l
              /\ ~(o >= target) /\ w <= w
          BY <2>2, <4>0, <4>1
        <4> HIDE DEF y, w, o, l, at
        <4>3. target > o /\ from < o
          BY <2>1, <4>2
        <4>4. /\ bar.low <= y /\ y <= bar.high /\ w <= bar.high /\ q.stop \in Int /\ q.stop < w
              /\ q.target \in Int /\ q.target > bar.open /\ p.stop < bar.open
              /\ p.stop < bar.low \/ ~(y >= q.target)
          BY <2>1, <4>1, <4>2, <4>3 DEF y, w, o, l, at, from
        <4>5. \A stop \in Moves(q.stop, y) : RiskFills(q, stop, y, TRUE) \subseteq FairFills(p, bar)
          BY <2>1, <4>2, <4>4, WayIsFair
        <4> QED BY <4>5 DEF y
      <3>2. Held(high.sim, k) => /\ Within(high.sim, k, target, from, bar.high)
                                 /\ \A stop \in Moves(high.sim.positions[k].stop, bar.close) :
                                      RiskFills(high.sim.positions[k], stop, bar.close, TRUE) \subseteq F
        BY <2>5, <3>1
      <3> DEFINE y == bar.close
                 w == bar.high
      <3>3. y \in Nat /\ w \in Int
        BY <2>2
      <3>4. Held(high.sim, k) => /\ Within(high.sim, k, target, from, w)
                                 /\ \A stop \in Moves(high.sim.positions[k].stop, y) :
                                      RiskFills(high.sim.positions[k], stop, y, TRUE) \subseteq F
        BY <3>2
      <3> HIDE DEF y, w, F
      <3>5. Sound(Along(high, k, y), F)
        BY <2>1, <2>5, <3>3, <3>4, AlongIsSound
      <3> QED BY <3>5 DEF y
    <2>7. ReplayBar(s, k, bar) = close
      BY DEF ReplayBar, high, low, first
    <2> QED BY <2>6, <2>7 DEF p
  <1> QED BY <1>1, <1>2

-------------------------------------------------------------------------------
(* A satellite's bar.                                                        *)

\* A satellite is no scalper.
LEMMA SatellitesAre == ASSUME NEW k \in Satellites PROVE k \in Keys /\ k \notin Scalpers
  BY SimulatorAssumption DEF Keys

LEMMA RestFields ==
  ASSUME NEW o \in RestType
  PROVE  o.reserve \in Int /\ o.limit \in Int /\ o.stop \in Int /\ o.placedAt \in Int /\ o.validUntil \in Int
  BY DEF RestType

\* An account with another order at rest.
Resting(s, k, o, balance, reserved) ==
  [s EXCEPT !.balance = balance, !.reserved = reserved, !.pending[k] = o]

LEMMA RestingIsAccount ==
  ASSUME NEW s \in Accounts, NEW k \in Satellites, NEW o \in RestType, Rests(o),
         NEW balance \in Int, NEW reserved \in Int
  PROVE  LET w == Resting(s, k, o, balance, reserved)
         IN w \in Accounts /\ w.positions = s.positions /\ w.fee = s.fee /\ w.slip = s.slip
  <1> DEFINE f == [s.pending EXCEPT ![k] = o]
             w == Resting(s, k, o, balance, reserved)
  <1>1. f \in [Satellites -> RestType] /\ f[k] = o /\ \A j \in Satellites : j # k => f[j] = s.pending[j]
    BY AccountFields
  <1>2. w = [s EXCEPT !.balance = balance, !.reserved = reserved, !.pending = f]
    BY AccountFields DEF Resting, SimType
  <1> HIDE DEF f
  <1>3. s \in SimType
    BY AccountFields
  <1>4. /\ w \in SimType /\ w.fee = s.fee /\ w.slip = s.slip
        /\ w.positions = s.positions /\ w.pending = f
    <2> HIDE DEF w
    <2> QED BY <1>1, <1>2, <1>3 DEF SimType
  <1> HIDE DEF w
  <1>5. (\E c \in Costs : w.fee = c.fee /\ w.slip = c.slip) /\ \A j \in Keys : Fits(w, j, w.positions[j])
    BY <1>4, FitsAlike DEF Accounts
  <1>6. \A j \in Satellites : Rests(w.pending[j])
    BY <1>1, <1>4 DEF Accounts
  <1>7. w \in Accounts
    BY <1>4, <1>5, <1>6 DEF Accounts
  <1> QED BY <1>4, <1>7 DEF w

\* A cancelled order gives its reserve back.
LEMMA CancelIsAccount ==
  ASSUME NEW s \in Accounts, NEW k \in Satellites
  PROVE  LET w == CancelSatelliteOrder(s, k)
         IN w \in Accounts /\ w.positions = s.positions /\ w.fee = s.fee /\ w.slip = s.slip
  <1> DEFINE r == s.pending[k].reserve
             b == s.balance + r
             n == s.reserved - r
             w == CancelSatelliteOrder(s, k)
             o == NoOrder
  <1>1. w = Resting(s, k, o, b, n)
    BY AccountFields DEF CancelSatelliteOrder, Resting, SimType
  <1>2. b \in Int /\ n \in Int
    BY AccountFields, RestFields
  <1>3. o \in RestType /\ Rests(o)
    BY DEF RestType, NoOrder, Rests
  <1> HIDE DEF b, n, o, w
  <1>4. LET x == Resting(s, k, o, b, n)
        IN x \in Accounts /\ x.positions = s.positions /\ x.fee = s.fee /\ x.slip = s.slip
    BY <1>2, <1>3, RestingIsAccount
  <1> QED BY <1>1, <1>4 DEF w

LEMMA BoughtIsAccount ==
  ASSUME NEW s \in Accounts, NEW k \in Keys, NEW p \in PosType, Fits(s, k, p)
  PROVE  Bought(s, k, p) \in Accounts /\ Bought(s, k, p).positions[k] = p
  <1> DEFINE b == s.balance - p.cost
             n == s.pnl
  <1>1. b \in Int /\ n \in Int
    BY AccountFields, PosFields
  <1>2. Bought(s, k, p) = [s EXCEPT !.balance = b, !.positions[k] = p]
    BY AccountFields DEF Bought, SimType
  <1> HIDE DEF b
  <1>3. [s EXCEPT !.balance = b, !.positions[k] = p] = With(s, k, p, b, s.pnl)
    BY WithBalance
  <1> HIDE DEF n
  <1>4. With(s, k, p, b, n) \in Accounts /\ With(s, k, p, b, n).positions[k] = p
    BY <1>1, WithIsAccount
  <1> QED BY <1>2, <1>3, <1>4 DEF n, b

\* The position an order that fills opens, and the account with it.
Filling(s, k, now) ==
  LET o    == s.pending[k]
      each == o.limit + Part(o.limit, s.fee)
      lots == o.reserve \div each
      plan == SatellitePlan(o.limit, o.stop)
  IN [Flat EXCEPT !.qty = lots, !.cost = lots * each, !.entry = o.limit, !.since = now,
                  !.stop = plan.stop, !.initial = plan.initial, !.target = plan.target,
                  !.high = plan.high]
Filled(s, k, now) == Bought(CancelSatelliteOrder(s, k), k, Filling(s, k, now))

LEMMA FilledIsAccount ==
  ASSUME NEW s \in Accounts, NEW k \in Satellites, NEW now \in Int, Waiting(s, k)
  PROVE  /\ Filling(s, k, now) \in PosType
         /\ Filled(s, k, now) \in Accounts /\ Filled(s, k, now).positions[k] = Filling(s, k, now)
         /\ s.pending[k].limit \in Int /\ s.pending[k].stop \in Int /\ s.pending[k].limit > 0
  <1> DEFINE o    == s.pending[k]
             limit == o.limit
             stop == o.stop
             each == limit + Part(limit, s.fee)
             lots == o.reserve \div each
             plan == SatellitePlan(limit, stop)
             cost == lots * each
             p    == [Flat EXCEPT !.qty = lots, !.cost = cost, !.entry = limit, !.since = now,
                                  !.stop = plan.stop, !.initial = plan.initial, !.target = plan.target,
                                  !.high = plan.high]
             w    == CancelSatelliteOrder(s, k)
             c    == Bought(w, k, p)
  <1>1. limit \in Int /\ stop \in Int /\ o.reserve \in Int /\ limit > 0
    <2>1. o \in RestType /\ o.reserve > 0
      BY AccountFields DEF Waiting
    <2>2. o.limit > 0
      BY <2>1 DEF Accounts, Rests
    <2> QED BY <2>1, <2>2, RestFields
  <1>3. k \in Keys /\ k \notin Scalpers
    BY SatellitesAre
  <1>4. p = Filling(s, k, now) /\ c = Filled(s, k, now)
    BY DEF Filling, Filled
  <1> HIDE DEF limit, stop
  <1>5. each \in Int /\ each > 0 /\ (Free(s) => each = limit)
    <2> DEFINE fee == s.fee
    <2>1. fee \in PerMille /\ limit \in Nat
      BY <1>1, AccountFields DEF PerMille
    <2> HIDE DEF fee
    <2>2. Part(limit, fee) \in Nat
      BY <2>1, PartOfAmount
    <2>3. limit + Part(limit, fee) \in Int /\ limit + Part(limit, fee) > 0
      BY <1>1, <2>2
    <2>4. fee = 0 => limit + Part(limit, fee) = limit
      BY <1>1, PartOfNone
    <2>5. Free(s) => fee = 0
      BY FreeIs DEF fee
    <2> QED BY <2>3, <2>4, <2>5 DEF fee
  <1> HIDE DEF each
  <1>6. lots \in Int /\ cost \in Int
    <2> DEFINE r == o.reserve
    <2>1. r \in Int
      BY <1>1
    <2> HIDE DEF r
    <2>2. r \div each \in Int
      BY <1>5, <2>1
    <2>3. lots \in Int
      BY <2>2 DEF r
    <2> HIDE DEF lots
    <2> QED BY <1>5, <2>3
  <1> HIDE DEF lots, cost
  <1>7. plan.stop \in Int /\ plan.initial \in Int /\ plan.target \in Int /\ plan.high \in Int
    <2>1. TargetR * (limit - stop) \in Int
      BY <1>1, Percents
    <2>2. plan.stop = stop /\ plan.initial = stop /\ plan.high = limit
          /\ plan.target = IF TargetR = 0 THEN NoTarget ELSE limit + TargetR * (limit - stop)
      BY DEF SatellitePlan
    <2> HIDE DEF plan
    <2> QED BY <1>1, <2>1, <2>2, Percents
  <1>8. p \in PosType
    <2> DEFINE a1 == plan.stop
               a2 == plan.initial
               a3 == plan.target
               a4 == plan.high
    <2>1. a1 \in Int /\ a2 \in Int /\ a3 \in Int /\ a4 \in Int
      BY <1>7
    <2> HIDE DEF a1, a2, a3, a4
    <2>2. [Flat EXCEPT !.qty = lots, !.cost = cost, !.entry = limit, !.since = now,
                       !.stop = a1, !.initial = a2, !.target = a3, !.high = a4] \in PosType
      BY <1>1, <1>6, <2>1, FlatIsClear DEF PosType
    <2> QED BY <2>2 DEF a1, a2, a3, a4
  <1>81. p.qty = lots /\ p.cost = cost /\ p.entry = limit
    BY DEF Flat
  <1>82. Free(s) => cost = lots * limit
    BY <1>5 DEF cost
  <1> HIDE DEF p
  <1>9. w \in Accounts /\ w.fee = s.fee /\ w.slip = s.slip
    BY CancelIsAccount
  <1> HIDE DEF w
  <1>91. Fits(w, k, p)
    <2>1. Fits(s, k, p)
      BY <1>3, <1>81, <1>82 DEF Fits, Even
    <2> QED BY <1>9, <2>1, FitsAlike
  <1>10. c \in Accounts /\ c.positions[k] = p
    BY <1>3, <1>8, <1>9, <1>91, BoughtIsAccount
  <1> HIDE DEF c
  <1> QED BY <1>1, <1>4, <1>8, <1>10 DEF limit, stop

\* The bar that fills an order: bought at the limit, and sold when the low is at the stop.
LEMMA FillSatelliteIsFair ==
  ASSUME NEW s \in Accounts, NEW k \in Satellites, NEW bar, IsBar(bar), NEW now \in Int, Waiting(s, k),
         bar.low <= s.pending[k].limit
  PROVE  Sound(FillSatellite(s, k, bar, now), FairFills(s.positions[k], bar))
  <1> DEFINE o    == s.pending[k]
             limit == o.limit
             stop == o.stop
             p    == Filling(s, k, now)
             c    == Filled(s, k, now)
             buy  == Fill("BUY", k, limit, "satellite")
             level == Min({stop, bar.open})
             exit == Close(c, k, level, "sat_stop")
             top == Max({limit, bar.close})
             high == [c EXCEPT !.positions[k].high = top]
             F == FairFills(s.positions[k], bar)
             l == bar.low
  <1>1. limit \in Int /\ stop \in Int /\ limit > 0
    BY FilledIsAccount
  <1>2. FillSatellite(s, k, bar, now) = IF l <= stop THEN Step(exit.sim, <<buy>> \o exit.fills) ELSE Step(high, <<buy>>)
    BY DEF FillSatellite, Filled, Filling
  <1>3. k \in Keys /\ k \notin Scalpers
    BY SatellitesAre
  <1>4. l \in Nat /\ bar.open \in Nat /\ bar.close \in Nat /\ bar.high \in Nat /\ l <= bar.open /\ bar.open <= bar.high /\ l <= limit
    BY DEF IsBar
  <1> HIDE DEF limit, stop, l
  <1>8. p \in PosType /\ c \in Accounts /\ c.positions[k] = p
    BY FilledIsAccount
  <1> HIDE DEF p, c
  <1>11. <<buy>> \in Seq(F)
    <2>1. "BUY" \in {"BUY", "SELL"} /\ "satellite" \in Reasons
      BY DEF Reasons
    <2>2. buy \in FillType /\ buy.side = "BUY" /\ buy.price = limit
      BY <1>1, <1>3, <2>1, FillIs
    <2> HIDE DEF buy
    <2>3. buy.price >= bar.low /\ buy.side # "SELL"
      BY <1>1, <1>4, <2>2 DEF l
    <2>4. buy \in F
      BY <2>2, <2>3 DEF FairFills
    <2> HIDE DEF F
    <2> QED BY <2>4
  <1>12. CASE l <= stop
    <2> DEFINE b == bar.open
    <2>1. b \in Int /\ l <= b /\ level = IF stop <= b THEN stop ELSE b
      <3>1. b \in Int /\ l <= b
        BY <1>4
      <3> HIDE DEF b
      <3>2. Min({stop, b}) = IF stop <= b THEN stop ELSE b
        BY <1>1, <3>1, LesserOfTwo
      <3> QED BY <3>1, <3>2 DEF b
    <2> HIDE DEF level, b
    <2>2. level \in Int /\ l <= level /\ level <= b
      BY <1>1, <1>4, <1>12, <2>1
    <2> DEFINE sale == Fill("SELL", k, level, "sat_stop")
    <2>3. "SELL" \in {"BUY", "SELL"} /\ "sat_stop" \in Reasons
      BY DEF Reasons
    <2>4. sale \in FillType /\ sale.price = level /\ sale.reason = "sat_stop"
      BY <1>3, <2>2, <2>3, FillIs
    <2>5. exit.sim \in Accounts /\ exit.fills \in {<<sale>>, <<>>}
      <3>1. exit.sim \in Accounts /\ (Held(c, k) => exit.fills = <<sale>>) /\ (~Held(c, k) => exit = Nothing(c))
        BY <1>3, <1>8, <2>2, <2>3, CloseIsAccount
      <3> HIDE DEF exit, sale
      <3>2. Nothing(c).fills = <<>>
        BY DEF Nothing, Step
      <3> QED BY <3>1, <3>2
    <2> HIDE DEF sale, exit
    <2>6. sale \in F
      <3>1. sale.price >= bar.low /\ sale.price <= bar.high /\ sale.price <= bar.open
            /\ sale.reason \notin {"take_profit", "sat_target"}
        BY <1>4, <2>2, <2>4 DEF l, b
      <3> QED BY <2>4, <3>1 DEF FairFills
    <2> HIDE DEF F, buy
    <2>7. <<buy>> \o exit.fills \in Seq(F)
      <3>1. <<sale>> \in Seq(F) /\ <<>> \in Seq(F)
        BY <2>6
      <3>2. exit.fills \in Seq(F)
        BY <2>5, <3>1
      <3> QED BY <1>11, <3>2
    <2>8. FillSatellite(s, k, bar, now) = Step(exit.sim, <<buy>> \o exit.fills)
      BY <1>2, <1>12
    <2>9. Sound(FillSatellite(s, k, bar, now), F)
      BY <2>5, <2>7, <2>8 DEF Sound, Step
    <2> QED BY <2>9 DEF F
  <1>13. CASE ~(l <= stop)
    <2>1. top \in Int
      <3> DEFINE b == bar.close
      <3>1. b \in Int
        BY <1>4
      <3> HIDE DEF b
      <3>2. Max({limit, b}) = IF limit >= b THEN limit ELSE b
        BY <1>1, <3>1, LesserOfTwo
      <3> QED BY <1>1, <3>1, <3>2 DEF b
    <2> HIDE DEF top
    <2> DEFINE q == [p EXCEPT !.high = top]
    <2>2. q \in PosType /\ q.qty = p.qty /\ q.cost = p.cost /\ q.entry = p.entry /\ q.ref = p.ref
          /\ q.target = p.target
      BY <1>8, <2>1 DEF PosType
    <2>3. high = [c EXCEPT !.positions[k] = q]
      BY <1>3, <1>8, AccountFields DEF SimType
    <2> HIDE DEF q, high
    <2> DEFINE b == c.balance
               n == c.pnl
    <2>4. b \in Int /\ n \in Int
      BY <1>8, AccountFields
    <2>5. [c EXCEPT !.positions[k] = q] = With(c, k, q, b, n)
      BY <1>3, <1>8, WithForms
    <2> HIDE DEF b, n
    <2>6. With(c, k, q, b, n) \in Accounts
      <3>1. Fits(c, k, p)
        BY <1>3, <1>8, AccountFields
      <3>2. Fits(c, k, q)
        BY <2>2, <3>1, FitStays
      <3> QED BY <1>3, <1>8, <2>2, <2>4, <3>2, WithIsAccount
    <2>7. high \in Accounts
      BY <2>3, <2>5, <2>6
    <2>8. FillSatellite(s, k, bar, now) = Step(high, <<buy>>)
      BY <1>2, <1>13
    <2> HIDE DEF F, buy
    <2>9. Sound(FillSatellite(s, k, bar, now), F)
      BY <1>11, <2>7, <2>8 DEF Sound, Step
    <2> QED BY <2>9 DEF F
  <1> QED BY <1>12, <1>13

\* An exit of a satellite, in its bar.
LEMMA SatelliteExitIs ==
  ASSUME NEW p \in PosType, NEW bar, IsBar(bar), NEW e, NEW obs,
         obs.open = bar.open /\ obs.low = bar.low /\ obs.high = bar.high, NEW k \in Keys,
         SatelliteExit(p, e, obs).reason # "none"
  PROVE  LET exit == SatelliteExit(p, e, obs) IN
         /\ exit.price \in Int /\ exit.reason \in Reasons
         /\ Fill("SELL", k, exit.price, exit.reason) \in FairFills(p, bar)
  <1> DEFINE exit == SatelliteExit(p, e, obs)
             x == exit.price
             why == exit.reason
             o == bar.open
             l == bar.low
             h == bar.high
             stop == p.stop
             target == p.target
             f == Fill("SELL", k, x, why)
  <1>1. stop \in Int /\ target \in Int /\ o \in Nat /\ l \in Nat /\ h \in Nat /\ l <= o /\ o <= h
    BY PosFields DEF IsBar
  <1>2. \/ exit = [reason |-> "sat_time", price |-> o]
        \/ exit = [reason |-> "sat_tier", price |-> o]
        \/ l <= stop /\ exit \in [reason : {"sat_breakeven", "sat_stop"}, price : {Min({stop, o})}]
        \/ l > stop /\ h >= target /\ exit = [reason |-> "sat_target", price |-> Max({target, o})]
    <2> DEFINE late == obs.late
               due == p.tierDue
               break == stop >= e
               least == Min({stop, o})
               most == Max({target, o})
    <2>1. exit = CASE late -> [reason |-> "sat_time", price |-> o]
                   [] ~late /\ due -> [reason |-> "sat_tier", price |-> o]
                   [] ~late /\ ~due /\ l <= stop ->
                        [reason |-> IF break THEN "sat_breakeven" ELSE "sat_stop", price  |-> least]
                   [] ~late /\ ~due /\ l > stop /\ h >= target -> [reason |-> "sat_target", price |-> most]
                   [] OTHER -> [reason |-> "none", price |-> obs.close]
      BY DEF SatelliteExit
    <2>2. exit.reason # "none"
      OBVIOUS
    <2> HIDE DEF exit, late, due, break, least, most, l, h, o, stop, target
    <2>3. CASE late
      BY <2>1, <2>3
    <2>4. CASE ~late /\ due
      BY <2>1, <2>4
    <2>5. CASE ~late /\ ~due /\ l <= stop
      <3>1. exit = [reason |-> IF break THEN "sat_breakeven" ELSE "sat_stop", price  |-> least]
        <4>1. ~(l > stop)
          BY <1>1, <2>5
        <4> QED BY <2>1, <2>5, <4>1
      <3> QED BY <2>5, <3>1 DEF least
    <2>6. CASE ~late /\ ~due /\ l > stop /\ h >= target
      <3>1. exit = [reason |-> "sat_target", price |-> most]
        <4>1. ~(l <= stop)
          BY <1>1, <2>6
        <4> QED BY <2>1, <2>6, <4>1
      <3> QED BY <2>6, <3>1 DEF most
    <2>7. CASE ~late /\ ~due /\ ~(l <= stop) /\ ~(l > stop /\ h >= target)
      <3>1. exit = [reason |-> "none", price |-> obs.close]
        BY <2>1, <2>7
      <3> QED BY <2>2, <3>1
    <2>8. l <= stop \/ l > stop
      BY <1>1
    <2> QED BY <2>3, <2>4, <2>5, <2>6, <2>7, <2>8
  <1> HIDE DEF exit, o, l, h, stop, target
  <1>3. (Min({stop, o}) = IF stop <= o THEN stop ELSE o) /\ (Max({target, o}) = IF target >= o THEN target ELSE o)
    BY <1>1, LesserOfTwo
  <1>4. /\ x \in Int /\ l <= x /\ x <= h
        /\ o <= stop => x <= o
        /\ why \in Reasons /\ why # "take_profit"
        /\ why = "sat_target" => l > stop
    <2> DEFINE least == Min({stop, o})
               most == Max({target, o})
    <2>1. least \in Int /\ most \in Int /\ least <= o /\ (least = stop \/ least = o) /\ (most = target \/ most = o) /\ o <= most
      BY <1>1, <1>3
    <2> HIDE DEF least, most
    <2>2. CASE exit = [reason |-> "sat_time", price |-> o]
      BY <1>1, <2>2 DEF Reasons
    <2>3. CASE exit = [reason |-> "sat_tier", price |-> o]
      BY <1>1, <2>3 DEF Reasons
    <2>4. CASE l <= stop /\ exit \in [reason : {"sat_breakeven", "sat_stop"}, price : {least}]
      <3>1. x = least /\ why \in {"sat_breakeven", "sat_stop"}
        BY <2>4
      <3>2. why \in Reasons /\ why # "take_profit" /\ why # "sat_target"
        BY <3>1 DEF Reasons
      <3> HIDE DEF x, why
      <3> QED BY <1>1, <2>1, <2>4, <3>1, <3>2
    <2>5. CASE l > stop /\ h >= target /\ exit = [reason |-> "sat_target", price |-> most]
      <3>1. x = most /\ why = "sat_target"
        BY <2>5
      <3>2. why \in Reasons /\ why # "take_profit"
        BY <3>1 DEF Reasons
      <3> HIDE DEF x, why
      <3> QED BY <1>1, <2>1, <2>5, <3>1, <3>2
    <2> QED BY <1>2, <2>2, <2>3, <2>4, <2>5 DEF least, most
  <1> HIDE DEF x, why
  <1>5. f \in FillType /\ f.price = x /\ f.reason = why
    <2>1. "SELL" \in {"BUY", "SELL"}
      OBVIOUS
    <2> QED BY <1>4, <2>1, FillIs
  <1> HIDE DEF f
  <1>6. /\ f.price >= bar.low /\ f.price <= bar.high
        /\ bar.open <= p.stop => f.price <= bar.open
        /\ bar.low <= p.stop => f.reason \notin {"take_profit", "sat_target"}
    <2>1. l <= stop => why # "sat_target"
      BY <1>1, <1>4
    <2>2. f.price >= l
      BY <1>1, <1>4, <1>5
    <2> QED BY <1>4, <1>5, <2>1, <2>2 DEF o, l, h, stop
  <1>7. f \in FairFills(p, bar)
    BY <1>5, <1>6 DEF FairFills
  <1> QED BY <1>4, <1>7 DEF f, x, why, exit

\* What an observation without an exit leaves.
LEMMA SatelliteKeptIs ==
  ASSUME NEW p \in PosType, NEW e \in Int, NEW obs, obs.high \in Int, obs.weak \in BOOLEAN
  PROVE  LET q == SatelliteKept(p, e, obs)
         IN q \in PosType /\ q.qty = p.qty /\ q.cost = p.cost /\ q.entry = p.entry /\ q.ref = p.ref
            /\ q.target = p.target
  <1> DEFINE high == p.high
             reached == obs.high
             stop == p.stop
             top == Max({high, reached})
             up == Max({stop, e})
             x == IF top >= e + (e - p.initial) THEN up ELSE stop
             weak == obs.weak
  <1>1. high \in Int /\ reached \in Int /\ stop \in Int
    BY PosFields
  <1> HIDE DEF high, reached, stop
  <1>2. (top = IF high >= reached THEN high ELSE reached) /\ (up = IF stop >= e THEN stop ELSE e)
    BY <1>1, LesserOfTwo
  <1> HIDE DEF top, up
  <1>3. top \in Int /\ x \in Int
    BY <1>1, <1>2
  <1>4. SatelliteKept(p, e, obs) = [p EXCEPT !.high = top, !.stop = x, !.tierDue = weak]
    BY DEF SatelliteKept, top, up, high, reached, stop
  <1>5. weak \in BOOLEAN
    OBVIOUS
  <1> HIDE DEF x, weak
  <1>6. LET q == [p EXCEPT !.high = top, !.stop = x, !.tierDue = weak]
        IN q \in PosType /\ q.qty = p.qty /\ q.cost = p.cost /\ q.entry = p.entry /\ q.ref = p.ref
           /\ q.target = p.target
    BY <1>3, <1>5 DEF PosType
  <1> QED BY <1>4, <1>6

\* A bar met by a satellite's order or position leaves an account, and its fills are fair.
LEMMA SatelliteBarIsFair ==
  ASSUME NEW s \in Accounts, NEW k \in Satellites, NEW bar, IsBar(bar), NEW now \in Int, NEW weak \in BOOLEAN
  PROVE  Sound(SatelliteBar(s, k, bar, now, weak), FairFills(s.positions[k], bar))
  <1> DEFINE o    == s.pending[k]
             p    == s.positions[k]
             late == now >= p.since + TimeLimit
             tier == weak /\ (now + 1) % HourBars = 0 /\ bar.close > p.entry
             obs == [open |-> bar.open, low |-> bar.low, high |-> bar.high, close |-> bar.close,
                     late |-> late, weak |-> tier]
             exit == SatelliteExit(p, p.entry, obs)
             kept == SatelliteKept(p, p.entry, obs)
             w == CancelSatelliteOrder(s, k)
             F == FairFills(p, bar)
             step == SatelliteBar(s, k, bar, now, weak)
  <1>1. step =
          IF Waiting(s, k)
          THEN IF now < o.placedAt THEN Nothing(s)
               ELSE IF now >= o.validUntil THEN Nothing(w)
               ELSE IF bar.low > o.limit THEN Nothing(s)
               ELSE FillSatellite(s, k, bar, now)
          ELSE IF ~Held(s, k) \/ now <= p.since THEN Nothing(s)
          ELSE IF exit.reason = "none" THEN Nothing([s EXCEPT !.positions[k] = kept])
          ELSE Close(s, k, exit.price, exit.reason)
    BY DEF SatelliteBar
  <1>2. k \in Keys /\ k \notin Scalpers /\ p \in PosType /\ o \in RestType
    BY SatellitesAre, AccountFields
  <1>3. bar.low \in Nat /\ bar.high \in Nat /\ o.limit \in Int /\ p.entry \in Int
    BY <1>2, PosFields, RestFields DEF IsBar
  <1>4. obs.open = bar.open /\ obs.low = bar.low /\ obs.high = bar.high /\ obs.weak \in BOOLEAN
    OBVIOUS
  <1>5. Sound(Nothing(s), F)
    BY NothingIsSound
  <1>6. Sound(Nothing(w), F)
    <2>1. w \in Accounts
      BY CancelIsAccount
    <2> HIDE DEF w, F
    <2> QED BY <2>1, NothingIsSound
  <1>7. Waiting(s, k) /\ ~(bar.low > o.limit) => Sound(FillSatellite(s, k, bar, now), F)
    <2> SUFFICES ASSUME Waiting(s, k), ~(bar.low > o.limit) PROVE Sound(FillSatellite(s, k, bar, now), F)
      OBVIOUS
    <2>1. bar.low <= s.pending[k].limit
      BY <1>3
    <2> QED BY <2>1, FillSatelliteIsFair
  <1>8. Sound(Nothing([s EXCEPT !.positions[k] = kept]), F)
    <2> DEFINE e == p.entry
    <2>1. e \in Int /\ obs.high \in Int /\ obs.weak \in BOOLEAN
      BY <1>3, <1>4
    <2> HIDE DEF e, obs, p
    <2>2. LET q == SatelliteKept(p, e, obs)
          IN q \in PosType /\ q.qty = p.qty /\ q.cost = p.cost /\ q.entry = p.entry /\ q.ref = p.ref
             /\ q.target = p.target
      BY <1>2, <2>1, SatelliteKeptIs
    <2>21. kept \in PosType /\ kept.qty = p.qty /\ kept.cost = p.cost /\ kept.entry = p.entry
           /\ kept.ref = p.ref /\ kept.target = p.target
      BY <2>2 DEF e
    <2>22. Fits(s, k, p)
      BY <1>2, AccountFields DEF p
    <2> HIDE DEF kept
    <2>3. kept \in PosType /\ Fits(s, k, kept)
      BY <2>21, <2>22, FitStays
    <2> HIDE DEF kept, F
    <2> DEFINE b == s.balance
               n == s.pnl
    <2>4. b \in Int /\ n \in Int
      BY AccountFields
    <2>5. [s EXCEPT !.positions[k] = kept] = With(s, k, kept, b, n)
      BY <1>2, WithForms
    <2> HIDE DEF b, n
    <2>6. With(s, k, kept, b, n) \in Accounts
      BY <1>2, <2>3, <2>4, WithIsAccount
    <2> DEFINE x == [s EXCEPT !.positions[k] = kept]
    <2>7. x \in Accounts
      BY <2>5, <2>6
    <2> HIDE DEF x
    <2>8. Sound(Nothing(x), F)
      BY <2>7, NothingIsSound
    <2> QED BY <2>8 DEF x
  <1>9. Held(s, k) /\ exit.reason # "none" => Sound(Close(s, k, exit.price, exit.reason), F)
    <2> SUFFICES ASSUME Held(s, k), exit.reason # "none" PROVE Sound(Close(s, k, exit.price, exit.reason), F)
      OBVIOUS
    <2> DEFINE e == p.entry
               x == exit.price
               why == exit.reason
               f == Fill("SELL", k, x, why)
    <2>1. x \in Int /\ why \in Reasons /\ f \in F
      <3> HIDE DEF obs, p
      <3>1. SatelliteExit(p, e, obs).reason # "none"
        OBVIOUS
      <3> HIDE DEF e
      <3>2. LET out == SatelliteExit(p, e, obs) IN
            out.price \in Int /\ out.reason \in Reasons /\ Fill("SELL", k, out.price, out.reason) \in FairFills(p, bar)
        BY <1>2, <1>4, <3>1, SatelliteExitIs
      <3> QED BY <3>2 DEF e
    <2> HIDE DEF x, why, F
    <2>2. Close(s, k, x, why).sim \in Accounts /\ Close(s, k, x, why).fills = <<f>>
      BY <1>2, <2>1, CloseIsAccount
    <2> HIDE DEF f
    <2>3. <<f>> \in Seq(F)
      BY <2>1
    <2>4. Sound(Close(s, k, x, why), F)
      BY <2>2, <2>3 DEF Sound
    <2> QED BY <2>4 DEF x, why
  <1>10. Sound(step, F)
    <2> DEFINE h1 == now < o.placedAt
               h2 == now >= o.validUntil
               h3 == bar.low > o.limit
               h4 == now <= p.since
               a == Nothing(s)
               b == Nothing(w)
               c == FillSatellite(s, k, bar, now)
               d == Nothing([s EXCEPT !.positions[k] = kept])
               z == Close(s, k, exit.price, exit.reason)
               none == exit.reason = "none"
    <2>1. step = IF Waiting(s, k)
                 THEN IF h1 THEN a ELSE IF h2 THEN b ELSE IF h3 THEN a ELSE c
                 ELSE IF ~Held(s, k) \/ h4 THEN a ELSE IF none THEN d ELSE z
      BY <1>1
    <2>2. /\ Sound(a, F) /\ Sound(b, F) /\ (Waiting(s, k) /\ ~h3 => Sound(c, F)) /\ Sound(d, F)
          /\ Held(s, k) /\ ~none => Sound(z, F)
      BY <1>5, <1>6, <1>7, <1>8, <1>9
    <2> HIDE DEF step, h1, h2, h3, h4, a, b, c, d, z, none, F
    <2> QED BY <2>1, <2>2
  <1> QED BY <1>10

-------------------------------------------------------------------------------
(* Orders.                                                                   *)

\* A lot costs at least its price.
LEMMA PaidIs ==
  ASSUME NEW s \in Accounts, NEW y \in Nat
  PROVE  /\ Paid(s, y) \in Nat /\ y <= Paid(s, y)
         /\ y + Part(y, s.slip) \in Nat
  <1> DEFINE fee == s.fee
             slip == s.slip
  <1>1. fee \in 0 .. 499 /\ slip \in 0 .. 499
    BY AccountFields
  <1> HIDE DEF fee, slip
  <1> DEFINE u == fee + slip
  <1>2. u \in PerMille /\ slip \in PerMille
    BY <1>1 DEF PerMille
  <1> HIDE DEF u
  <1>3. Part(y, u) \in Nat /\ Part(y, slip) \in Nat
    <2>1. Part(y, u) \in Nat
      BY <1>2, PartOfAmount
    <2>2. Part(y, slip) \in Nat
      BY <1>2, PartOfAmount
    <2> QED BY <2>1, <2>2
  <1>4. y + Part(y, u) \in Nat /\ y <= y + Part(y, u) /\ y + Part(y, slip) \in Nat
    BY <1>3
  <1> QED BY <1>4 DEF Paid, u, fee, slip

\* The first stop of an entry without one.
LEMMA FirstStopIs == ASSUME NEW x \in Int PROVE FirstStop(x, 0) \in Int
  <1>1. Part(x, StopPct) \in Int
    BY PartIsInt, Percents
  <1>2. FirstStop(x, 0) = x - Part(x, StopPct)
    BY DEF FirstStop
  <1> QED BY <1>1, <1>2

\* An entry, at the open of a bar, with the stop and the target of the configuration.
LEMMA OpenIsAccount ==
  ASSUME NEW s \in Accounts, NEW k \in Scalpers, NEW y \in Opens, NEW now \in Int
  PROVE  Open(s, k, y, y - Part(y, StopPct), y + Part(y, TargetPct), 0, now).sim \in Accounts
  <1> DEFINE paid == Paid(s, y)
             share == Part(s.balance, MaxPositionPct)
             lots == share \div paid
             stop == y - Part(y, StopPct)
             target == y + Part(y, TargetPct)
             first == IF stop > 0 THEN stop ELSE FirstStop(paid, 0)
             goal == IF target > 0 THEN target ELSE FirstTarget(paid, 0)
             ref == y + Part(y, s.slip)
             cost == lots * paid
             p == [Flat EXCEPT !.qty = lots, !.cost = cost, !.entry = paid, !.ref = ref,
                               !.stop = first, !.initial = first, !.target = goal, !.high = paid, !.since = now]
             step == Open(s, k, y, stop, target, 0, now)
  <1>1. PICK bar \in Bars : y = bar.open
    BY DEF Opens
  <1>2. y \in Nat /\ y > 0
    <2> DEFINE o == bar.open
               l == bar.low
    <2>1. o \in Nat /\ l \in Nat /\ l > 0 /\ l <= o
      BY BarsAre DEF IsBar
    <2> HIDE DEF o, l
    <2>2. o > 0
      BY <2>1
    <2> QED BY <1>1, <2>1, <2>2 DEF o
  <1>3. step = IF Held(s, k) \/ cost < Floor THEN Nothing(s)
               ELSE Step(Bought(s, k, p), <<Fill("BUY", k, y, "entry")>>)
    BY DEF Open
  <1>4. k \in Keys
    BY AccountFields
  <1>5. paid \in Nat /\ paid > 0 /\ ref \in Nat /\ (Free(s) => ref = paid)
    <2>1. Free(s) => Paid(s, y) = y /\ y + Part(y, s.slip) = y
      BY <1>2, FreePays
    <2> QED BY <1>2, <2>1, PaidIs
  <1>6. target \in Int /\ target > 0 /\ stop \in Int
    <2> DEFINE a == Part(y, TargetPct)
               b == Part(y, StopPct)
               m == TargetPct
    <2>1. b \in Int
      BY <1>2, PartIsInt, Percents
    <2>2. a \in Nat
      <3>1. m \in PerMille
        BY Percents DEF PerMille
      <3> HIDE DEF m
      <3>2. Part(y, m) \in Nat
        BY <1>2, <3>1, PartOfAmount
      <3> QED BY <3>2 DEF m
    <2> HIDE DEF a, b
    <2>3. y + a \in Int /\ y + a > 0 /\ y - b \in Int
      BY <1>2, <2>1, <2>2
    <2> QED BY <2>3 DEF a, b
  <1>7. goal = target
    BY <1>6
  <1>8. LocksClear /\ StagePct > 0 /\ target > paid => Part(target - paid, StagePct) >= Part(paid, 2)
    <2> SUFFICES ASSUME LocksClear, StagePct > 0, target > paid PROVE Part(target - paid, StagePct) >= Part(paid, 2)
      OBVIOUS
    <2>1. PICK c \in Costs : s.fee = c.fee /\ s.slip = c.slip
      BY DEF Accounts
    <2> DEFINE pd == bar.open + Part(bar.open, c.fee + c.slip)
               tg == bar.open + Part(bar.open, TargetPct)
    <2>2. tg > pd => Part(tg - pd, StagePct) >= Part(pd, 2)
      BY DEF LocksClear
    <2>3. pd = paid /\ tg = target
      BY <1>1, <2>1 DEF Paid
    <2> HIDE DEF pd, tg, paid, target
    <2> QED BY <2>2, <2>3
  <1> HIDE DEF paid, ref, target, stop
  <1>9. share \in Int
    <2> DEFINE b == s.balance
    <2>1. b \in Int /\ MaxPositionPct \in Int
      BY AccountFields, SimulatorAssumption
    <2> HIDE DEF b
    <2>2. Part(b, MaxPositionPct) \in Int
      BY <2>1, PartIsInt
    <2> QED BY <2>2 DEF b
  <1> HIDE DEF share
  <1>10. lots \in Int /\ cost \in Int
    <2>1. share \div paid \in Int
      BY <1>5, <1>9
    <2> HIDE DEF lots
    <2>2. lots \in Int
      BY <2>1 DEF lots
    <2> QED BY <1>5, <2>2
  <1>11. first \in Int
    <2>1. paid \in Int
      BY <1>5
    <2>2. FirstStop(paid, 0) \in Int
      BY <2>1, FirstStopIs
    <2> QED BY <1>6, <2>2
  <1> HIDE DEF lots, cost, first, goal
  <1>12. p \in PosType /\ p.entry = paid /\ p.ref = ref /\ p.target = goal /\ p.qty = lots /\ p.cost = cost
    <2>1. goal \in Int /\ ref \in Int /\ paid \in Int
      BY <1>5, <1>6, <1>7
    <2> QED BY <1>10, <1>11, <2>1, FlatIsClear DEF PosType
  <1>121. cost = lots * paid
    BY DEF cost
  <1> HIDE DEF p
  <1>13. Fits(s, k, p)
    <2>1. Clear(p)
      BY <1>5, <1>7, <1>8, <1>12 DEF Clear
    <2> QED BY <1>5, <1>12, <1>121, <2>1 DEF Fits, Even
  <1>14. Bought(s, k, p) \in Accounts
    BY <1>4, <1>12, <1>13, BoughtIsAccount
  <1> DEFINE none == Held(s, k) \/ cost < Floor
             bought == Bought(s, k, p)
             f == <<Fill("BUY", k, y, "entry")>>
  <1>15. step = IF none THEN Nothing(s) ELSE Step(bought, f)
    BY <1>3
  <1>16. Nothing(s).sim = s /\ Step(bought, f).sim = bought
    BY DEF Nothing, Step
  <1> HIDE DEF none, f, bought, step
  <1>17. step.sim \in Accounts
    BY <1>14, <1>15, <1>16 DEF bought
  <1> QED BY <1>17 DEF step, stop, target

\* A tick of the stops leaves an account.
LEMMA TickIsAccount ==
  ASSUME NEW s \in Accounts, NEW k \in Scalpers, NEW y \in Nat
  PROVE  CheckRisk(s, k, y, FALSE).sim \in Accounts
  <1>1. CASE Held(s, k)
    BY <1>1, CheckRiskMet DEF Met
  <1>2. CASE ~Held(s, k)
    <2> DEFINE risk == CheckRisk(s, k, y, FALSE)
    <2>1. risk = Nothing(s)
      BY <1>2, NothingMet, Zenon
    <2> HIDE DEF risk
    <2>2. risk.sim \in Accounts
      BY <2>1 DEF Nothing, Step
    <2> QED BY <2>2 DEF risk
  <1> QED BY <1>1, <1>2

\* An order of the engine: only an entry needs the open of a bar.
LEMMA OrderIsAccount ==
  ASSUME NEW s \in Accounts, NEW k \in Scalpers, NEW y \in Nat, NEW decision,
         decision = "BUY" /\ ~Held(s, k) => y \in Opens, t \in Int
  PROVE  Order(s, k, decision, y) \in Accounts
  <1> DEFINE stop == y - Part(y, StopPct)
             target == y + Part(y, TargetPct)
             risk == CheckRisk(s, k, y, FALSE)
             x == risk.sim
             bought == Open(x, k, y, stop, target, 0, t)
             sold == Close(x, k, y, "strategy_sell")
             act == Act(x, k, decision, y, stop, target, 0, t)
             e == Execute(s, k, decision, y, stop, target, 0, t)
  <1>1. x \in Accounts
    BY TickIsAccount
  <1>2. ~Held(s, k) => x = s
    <2>1. ~Held(s, k) => risk = Nothing(s)
      BY NothingMet, Zenon
    <2> HIDE DEF risk
    <2> QED BY <2>1 DEF Nothing, Step
  <1>3. e.sim = IF Held(s, k) /\ ~Held(x, k) THEN x ELSE act.sim
    BY DEF Execute, After, Step
  <1>4. Order(s, k, decision, y) = e.sim
    BY DEF Order
  <1> HIDE DEF x, e
  <1>5. ~(Held(s, k) /\ ~Held(x, k)) => act.sim \in Accounts
    <2> SUFFICES ASSUME ~(Held(s, k) /\ ~Held(x, k)) PROVE act.sim \in Accounts
      OBVIOUS
    <2>1. Nothing(x).sim = x
      BY DEF Nothing, Step
    <2>2. CASE decision = "BUY"
      <3>1. act = bought
        BY <2>2 DEF Act
      <3>2. CASE Held(x, k)
        <4>1. bought = Nothing(x)
          BY <3>2 DEF Open
        <4> QED BY <1>1, <2>1, <3>1, <4>1
      <3>3. CASE ~Held(x, k)
        <4>1. y \in Opens
          BY <2>2, <3>3
        <4>2. bought.sim \in Accounts
          BY <1>1, <4>1, OpenIsAccount
        <4> QED BY <3>1, <4>2
      <3> QED BY <3>2, <3>3
    <2>3. CASE decision = "SELL"
      <3>1. act = sold
        BY <2>3 DEF Act
      <3>2. "strategy_sell" \in Reasons /\ y \in Int /\ k \in Keys
        BY AccountFields DEF Reasons
      <3>3. sold.sim \in Accounts
        BY <1>1, <3>2, CloseIsAccount
      <3> QED BY <3>1, <3>3
    <2>4. CASE decision # "BUY" /\ decision # "SELL"
      <3>1. act = Nothing(x)
        BY <2>4 DEF Act
      <3> QED BY <1>1, <2>1, <3>1
    <2> QED BY <2>2, <2>3, <2>4
  <1> QED BY <1>1, <1>3, <1>4, <1>5

-------------------------------------------------------------------------------
(* The sleeves' orders.                                                      *)

\* A core is no scalper.
LEMMA CoresAre == ASSUME NEW k \in Cores PROVE k \in Keys /\ k \notin Scalpers
  BY SimulatorAssumption DEF Keys

\* A lot has a price.
LEMMA PaidIsPositive ==
  ASSUME NEW s \in Accounts, NEW y \in Nat, y > 0
  PROVE  Paid(s, y) \in Int /\ Paid(s, y) > 0
  <1> DEFINE paid == Paid(s, y)
  <1>1. paid \in Nat /\ y <= paid
    BY PaidIs
  <1> HIDE DEF paid
  <1>2. paid \in Int /\ paid > 0
    BY <1>1
  <1> QED BY <1>2 DEF paid

\* The lots that an amount buys.
LEMMA LotsAre ==
  ASSUME NEW s \in Accounts, NEW amount \in Int, NEW y \in Nat, y > 0
  PROVE  Min({amount, s.balance}) \div Paid(s, y) \in Int
  <1> DEFINE paid == Paid(s, y)
             b == s.balance
             m == Min({amount, b})
  <1>1. paid \in Int /\ paid > 0
    BY PaidIsPositive
  <1>2. b \in Int
    BY AccountFields
  <1> HIDE DEF paid, b
  <1>3. Min({amount, b}) = IF amount <= b THEN amount ELSE b
    BY <1>2, LesserOfTwo
  <1>4. m \in Int
    BY <1>2, <1>3
  <1> HIDE DEF m
  <1>5. m \div paid \in Int
    BY <1>1, <1>4
  <1> QED BY <1>5 DEF paid, b, m

\* A step that does nothing, or leaves an account.
LEMMA StepIsAccount ==
  ASSUME NEW s \in Accounts, NEW refused \in BOOLEAN, NEW w, ~refused => w \in Accounts, NEW fills, NEW step,
         step = IF refused THEN Nothing(s) ELSE Step(w, fills)
  PROVE  step.sim \in Accounts
  <1>1. CASE refused
    <2>1. step = Nothing(s)
      BY <1>1
    <2> QED BY <2>1 DEF Nothing, Step
  <1>2. CASE ~refused
    <2>1. step = Step(w, fills)
      BY <1>2
    <2> QED BY <1>2, <2>1 DEF Step
  <1> QED BY <1>1, <1>2

LEMMA CoreFits == ASSUME NEW s, NEW k \in Cores, NEW p PROVE Fits(s, k, p)
  BY CoresAre DEF Fits

LEMMA OpenCoreIsAccount ==
  ASSUME NEW s \in Accounts, NEW k \in Cores, NEW y \in Nat, y > 0, NEW amount \in Nat, NEW now \in Int
  PROVE  OpenCore(s, k, y, amount, now).sim \in Accounts
  <1> DEFINE paid == Paid(s, y)
             lots == Min({amount, s.balance}) \div paid
             cost == lots * paid
             p == [Flat EXCEPT !.qty = lots, !.cost = cost, !.entry = paid, !.high = paid, !.since = now]
             refused == Held(s, k) \/ cost < Floor
             w == Bought(s, k, p)
             fills == <<Fill("BUY", k, y, "core")>>
             step == OpenCore(s, k, y, amount, now)
  <1>1. step = IF refused THEN Nothing(s) ELSE Step(w, fills)
    BY DEF OpenCore
  <1>2. paid \in Int /\ lots \in Int
    <2>1. amount \in Int
      OBVIOUS
    <2>2. lots \in Int
      BY <2>1, LotsAre
    <2> QED BY <2>2, PaidIsPositive
  <1>3. refused \in BOOLEAN
    BY DEF Held
  <1> HIDE DEF paid, lots
  <1>4. cost \in Int
    BY <1>2
  <1> HIDE DEF cost
  <1>5. p \in PosType
    BY <1>2, <1>4, FlatIsClear DEF PosType
  <1> HIDE DEF p
  <1>6. w \in Accounts
    BY <1>5, CoresAre, CoreFits, BoughtIsAccount
  <1> HIDE DEF w, refused, fills, step
  <1>7. step.sim \in Accounts
    BY <1>1, <1>3, <1>6, StepIsAccount
  <1> QED BY <1>7 DEF step

LEMMA GrowCoreIsAccount ==
  ASSUME NEW s \in Accounts, NEW k \in Cores, NEW y \in Nat, y > 0, NEW amount \in Nat
  PROVE  GrowCore(s, k, y, amount).sim \in Accounts
  <1> DEFINE paid == Paid(s, y)
             lots == Min({amount, s.balance}) \div paid
             p == s.positions[k]
             spent == lots * paid
             cost == p.cost + spent
             qty == p.qty + lots
             entry == cost \div qty
             q == [p EXCEPT !.qty = qty, !.cost = cost, !.entry = entry]
             b == s.balance - spent
             refused == ~Held(s, k) \/ spent < Floor
             w == With(s, k, q, b, s.pnl)
             fills == <<Fill("BUY", k, y, "resize")>>
             step == GrowCore(s, k, y, amount)
  <1>1. p \in PosType /\ k \in Keys /\ k \notin Scalpers /\ s.balance \in Int /\ s.pnl \in Int
    BY AccountFields, CoresAre
  <1>2. step = IF refused THEN Nothing(s) ELSE Step([s EXCEPT !.balance = b, !.positions[k] = q], fills)
    BY <1>1 DEF GrowCore, SimType, PosType, Accounts
  <1>3. paid \in Int /\ paid > 0 /\ lots \in Int
    <2>1. amount \in Int
      OBVIOUS
    <2>2. lots \in Int
      BY <2>1, LotsAre
    <2> QED BY <2>2, PaidIsPositive
  <1>4. refused \in BOOLEAN
    BY DEF Held
  <1>5. [s EXCEPT !.balance = b, !.positions[k] = q] = w
    BY <1>1, WithBalance
  <1> HIDE DEF paid, lots
  <1>6. spent \in Int /\ (spent > 0 => lots > 0)
    BY <1>3
  <1>7. ~refused => p.qty > 0 /\ spent > 0
    <2>1. Floor \in Nat /\ Floor > 0
      BY SimulatorAssumption
    <2> HIDE DEF spent
    <2> QED BY <1>6, <2>1 DEF Held
  <1> HIDE DEF spent, refused
  <1>8. ~refused => q \in PosType
    <2> SUFFICES ASSUME ~refused PROVE q \in PosType
      OBVIOUS
    <2> DEFINE n == p.qty
               c == p.cost
    <2>1. n \in Int /\ c \in Int /\ n > 0 /\ lots > 0
      BY <1>1, <1>6, <1>7, PosFields
    <2> HIDE DEF n, c
    <2>2. n + lots \in Int /\ n + lots > 0 /\ c + spent \in Int
      BY <1>3, <1>6, <2>1
    <2>3. qty \in Int /\ qty > 0 /\ cost \in Int
      BY <2>2 DEF n, c
    <2> HIDE DEF qty, cost
    <2>4. entry \in Int
      BY <2>3
    <2> HIDE DEF p, entry
    <2> QED BY <1>1, <2>3, <2>4 DEF PosType, p
  <1>9. b \in Int
    BY <1>1, <1>6
  <1> HIDE DEF q, b
  <1>10. ~refused => w \in Accounts
    <2> DEFINE n == s.pnl
    <2>1. n \in Int
      BY <1>1
    <2> HIDE DEF n
    <2>2. ~refused => With(s, k, q, b, n) \in Accounts
      BY <1>1, <1>8, <1>9, <2>1, CoreFits, WithIsAccount
    <2> QED BY <2>2 DEF n
  <1>11. step = IF refused THEN Nothing(s) ELSE Step(w, fills)
    BY <1>2, <1>5
  <1> HIDE DEF w, fills, step
  <1>12. step.sim \in Accounts
    BY <1>4, <1>10, <1>11, StepIsAccount
  <1> QED BY <1>12 DEF step

LEMMA CloseCoreIsAccount ==
  ASSUME NEW s \in Accounts, NEW k \in Cores, NEW y \in Nat
  PROVE  CloseCore(s, k, y).sim \in Accounts
  <1>1. "core" \in Reasons /\ y \in Int /\ k \in Keys
    BY CoresAre DEF Reasons
  <1>2. Close(s, k, y, "core").sim \in Accounts
    BY <1>1, CloseIsAccount
  <1> QED BY <1>2 DEF CloseCore

LEMMA TrimCoreIsAccount ==
  ASSUME NEW s \in Accounts, NEW k \in Cores, NEW y \in Nat, y > 0, NEW amount \in Nat
  PROVE  TrimCore(s, k, y, amount).sim \in Accounts
  <1> DEFINE n == s.positions[k].qty
             a == amount \div y
             lots == Min({a, n})
             refused == ~Held(s, k) \/ lots * y < Floor
             w == IF lots = n THEN CloseCore(s, k, y).sim ELSE Sold(s, k, lots, y)
             fills == IF lots = n THEN CloseCore(s, k, y).fills ELSE <<Fill("SELL", k, y, "resize")>>
             step == TrimCore(s, k, y, amount)
  <1>1. n \in Int /\ a \in Int
    <2>1. k \in Keys
      BY CoresAre
    <2> QED BY <2>1, AccountFields, PosFields
  <1>2. step.sim = IF refused THEN s ELSE w
    BY DEF TrimCore, Nothing, Step
  <1> HIDE DEF a, n
  <1>3. lots \in Int
    BY <1>1, LesserOfTwo
  <1> HIDE DEF lots
  <1>4. Held(s, k) => Sold(s, k, lots, y) \in Accounts
    <2>1. y \in Int
      OBVIOUS
    <2> QED BY <1>3, <2>1, CoresAre, SoldIsAccount
  <1>5. CloseCore(s, k, y).sim \in Accounts
    BY CloseCoreIsAccount
  <1>6. ~refused => w \in Accounts
    BY <1>4, <1>5
  <1> HIDE DEF w, refused, step
  <1>7. step.sim \in Accounts
    BY <1>2, <1>6
  <1> QED BY <1>7 DEF step

\* A deposit.
LEMMA DepositIsAccount ==
  ASSUME NEW s \in Accounts, NEW amount \in Nat
  PROVE  Deposit(s, amount) \in Accounts
  <1> DEFINE b == s.balance + amount
             w == [s EXCEPT !.balance = b]
  <1>1. b \in Int
    BY AccountFields
  <1> HIDE DEF b
  <1>2. s \in SimType
    BY AccountFields
  <1>3. w \in SimType /\ w.fee = s.fee /\ w.slip = s.slip /\ w.positions = s.positions /\ w.pending = s.pending
    BY <1>1, <1>2 DEF SimType
  <1> HIDE DEF w
  <1>4. /\ \E c \in Costs : w.fee = c.fee /\ w.slip = c.slip
        /\ \A k \in Keys : Fits(w, k, w.positions[k])
        /\ \A k \in Satellites : Rests(w.pending[k])
    BY <1>3, FitsAlike DEF Accounts
  <1>5. w \in Accounts
    BY <1>3, <1>4 DEF Accounts
  <1>6. Deposit(s, amount) = w
    BY DEF Deposit, w, b
  <1> QED BY <1>5, <1>6

\* An order of a satellite, at a limit.
LEMMA PlaceIsAccount ==
  ASSUME NEW s \in Accounts, NEW k \in Satellites, NEW limit \in Int, limit > 0, NEW stop \in Int, NEW size \in Int,
         NEW now \in Int, now <= t, NEW until \in Int
  PROVE  PlaceSatelliteOrder(s, k, limit, stop, size, now, until) \in Accounts
  <1> DEFINE free == s.balance
             held == s.reserved
             reserve == Min({size, free})
             b == free - reserve
             r == held + reserve
             o == [reserve |-> reserve, limit |-> limit, stop |-> stop, placedAt |-> now, validUntil |-> until]
             refused == Held(s, k) \/ Waiting(s, k) \/ reserve < Floor
  <1>1. free \in Int /\ held \in Int
    BY AccountFields
  <1>2. PlaceSatelliteOrder(s, k, limit, stop, size, now, until) =
          IF refused THEN s ELSE Resting(s, k, o, b, r)
    BY AccountFields DEF PlaceSatelliteOrder, Resting, SimType
  <1> HIDE DEF free, held
  <1>3. reserve \in Int
    BY <1>1, LesserOfTwo
  <1> HIDE DEF reserve
  <1>4. b \in Int /\ r \in Int
    BY <1>1, <1>3
  <1>5. o \in RestType /\ Rests(o)
    BY <1>3 DEF RestType, Rests
  <1> HIDE DEF b, r, o
  <1>6. Resting(s, k, o, b, r) \in Accounts
    BY <1>4, <1>5, RestingIsAccount
  <1> QED BY <1>2, <1>6

-------------------------------------------------------------------------------
(* A cycle of the engine and a bar of every coin, as folds.                  *)

\* A finite set as a sequence.
LEMMA AsSequence ==
  ASSUME NEW S, IsFiniteSet(S)
  PROVE  SetToSeq(S) \in Seq(S)
  <1> DEFINE n == Cardinality(S)
  <1>1. n \in Nat /\ ExistsBijection(1 .. n, S)
    BY FS_CardinalityType
  <1> HIDE DEF n
  <1>2. \E f \in [1 .. n -> S] : IsInjective(f)
    BY <1>1 DEF ExistsBijection, Bijection, Injection
  <1>3. SetToSeq(S) \in [1 .. n -> S]
    BY <1>2 DEF SetToSeq, n
  <1> QED BY <1>1, <1>3

LEMMA SequencesAre == ScalperSeq \in Seq(Scalpers) /\ KeySeq \in Seq(Keys)
  <1>1. IsFiniteSet(Scalpers) /\ IsFiniteSet(Keys)
    BY SimulatorAssumption, FS_Subset DEF Keys
  <1> QED BY <1>1, AsSequence DEF ScalperSeq, KeySeq

\* The scalpers that have the open of a bar as their price; and the cycles there are.
Opened(prices) == {k \in Scalpers : prices[k] \in Opens}
IsCycle(c) == c.price \in [Scalpers -> Opens \cup {0}] /\ c.queue \in Seq(Opened(c.price))

LEMMA PriceIs ==
  ASSUME NEW c, IsCycle(c), NEW k \in Scalpers
  PROVE  c.price[k] \in Nat
  <1>1. \A y \in Opens : y \in Nat
    BY ReplayAssumption DEF Opens
  <1>2. c.price[k] \in Opens \cup {0}
    BY DEF IsCycle
  <1> QED BY <1>1, <1>2

LEMMA CashExitKeeps ==
  ASSUME t \in Int, NEW c, IsCycle(c), NEW s \in Accounts, NEW k \in Scalpers
  PROVE  CashExit(s, k, c) \in Accounts
  <1> DEFINE y == c.price[k]
             sell == "SELL"
  <1>1. y \in Nat /\ (sell = "BUY" /\ ~Held(s, k) => y \in Opens)
    BY PriceIs
  <1> HIDE DEF y, sell
  <1>2. Order(s, k, sell, y) \in Accounts
    BY <1>1, OrderIsAccount
  <1>3. CashExit(s, k, c) = s \/ CashExit(s, k, c) = Order(s, k, sell, y)
    BY DEF CashExit, y, sell
  <1> QED BY <1>2, <1>3

LEMMA RunCycleKeeps ==
  ASSUME t \in Int, NEW c, IsCycle(c), NEW s \in Accounts, NEW k \in Scalpers
  PROVE  RunCycle(s, k, c) \in Accounts
  <1> DEFINE y == c.price[k]
             sell == "SELL"
             d == c.decision[k]
  <1>1. y \in Nat /\ (sell = "BUY" /\ ~Held(s, k) => y \in Opens)
    BY PriceIs
  <1> HIDE DEF y, sell, d
  <1>2. Order(s, k, sell, y) \in Accounts
    BY <1>1, OrderIsAccount
  <1>3. Held(s, k) => Order(s, k, d, y) \in Accounts
    BY <1>1, OrderIsAccount
  <1>4. \/ RunCycle(s, k, c) = s
        \/ RunCycle(s, k, c) = Order(s, k, sell, y)
        \/ Held(s, k) /\ RunCycle(s, k, c) = Order(s, k, d, y)
    BY DEF RunCycle, y, sell, d
  <1> QED BY <1>2, <1>3, <1>4

EnterIf(a, x, k, c) == IF c.decision[k] = "BUY" /\ ~Held(a, k) THEN Enter(x, k, c) ELSE x

LEMMA EnterKeeps ==
  ASSUME t \in Int, NEW c, IsCycle(c), NEW s \in Accounts, NEW k \in Opened(c.price), NEW a
  PROVE  EnterIf(a, s, k, c) \in Accounts
  <1> DEFINE y == c.price[k]
             buy == "BUY"
  <1>1. k \in Scalpers /\ y \in Opens
    BY DEF Opened
  <1>2. y \in Nat /\ (buy = "BUY" /\ ~Held(s, k) => y \in Opens)
    BY <1>1, PriceIs
  <1> HIDE DEF y, buy
  <1>3. Order(s, k, buy, y) \in Accounts
    BY <1>1, <1>2, OrderIsAccount
  <1>4. EnterIf(a, s, k, c) = s \/ EnterIf(a, s, k, c) = Order(s, k, buy, y)
    BY DEF EnterIf, Enter, y, buy
  <1> QED BY <1>3, <1>4

\* The bars that have closed, of the coins that a position or an order is in.
MeetIf(x, k, bar, weak) == IF Coin[k] \in Coins THEN MeetBar(x, k, bar[Coin[k]], weak) ELSE x

LEMMA MeetKeeps ==
  ASSUME t \in Int, NEW bar \in [Coins -> Bars \cup {NoBar}], NEW weak \in BOOLEAN,
         NEW s \in Accounts, NEW k \in Keys
  PROVE  MeetIf(s, k, bar, weak) \in Accounts
  <1> DEFINE b == bar[Coin[k]]
  <1>1. CASE Coin[k] \notin Coins
    BY <1>1 DEF MeetIf
  <1>2. CASE Coin[k] \in Coins
    <2>1. b \in Bars \cup {NoBar}
      BY <1>2
    <2>2. MeetIf(s, k, bar, weak) = MeetBar(s, k, b, weak)
      BY <1>2 DEF MeetIf
    <2> HIDE DEF b
    <2>3. CASE b = NoBar
      BY <2>2, <2>3 DEF MeetBar
    <2>4. CASE b # NoBar
      <3>1. IsBar(b)
        BY <2>1, <2>4, BarsAre
      <3>2. k \in Scalpers => ReplayBar(s, k, b).sim \in Accounts
        BY <3>1, ReplayBarIsFair DEF Sound
      <3>3. k \in Satellites => SatelliteBar(s, k, b, t, weak).sim \in Accounts
        BY <3>1, SatelliteBarIsFair DEF Sound
      <3>4. \/ MeetBar(s, k, b, weak) = s
            \/ k \in Scalpers /\ MeetBar(s, k, b, weak) = ReplayBar(s, k, b).sim
            \/ k \in Satellites /\ MeetBar(s, k, b, weak) = SatelliteBar(s, k, b, t, weak).sim
        BY DEF MeetBar
      <3> QED BY <2>2, <3>2, <3>3, <3>4
    <2> QED BY <2>3, <2>4
  <1> QED BY <1>1, <1>2

CashOver(base, seq, c) == FoldLeft(LAMBDA x, k : CashExit(x, k, c), base, seq)
RunOver(base, seq, c) == FoldLeft(LAMBDA x, k : RunCycle(x, k, c), base, seq)
EnterOver(a, base, seq, c) == FoldLeft(LAMBDA x, k : EnterIf(a, x, k, c), base, seq)
MeetOver(base, seq, bar, weak) == FoldLeft(LAMBDA x, k : MeetIf(x, k, bar, weak), base, seq)

\* The bear policy's sales.
LEMMA CashOverKeeps ==
  ASSUME t \in Int, NEW c, IsCycle(c), NEW seq \in Seq(Scalpers), NEW base \in Accounts
  PROVE  CashOver(base, seq, c) \in Accounts
  <1> DEFINE E == Scalpers
             D == SUBSET (1 .. Len(seq))
             Next1(g, S) == CashExit(g[S \ {Max(S)}], seq[Max(S)], c)
             Folds(g) == g = [S \in D |-> IF S = {} THEN base ELSE Next1(g, S)]
             f == [p \in Accounts \X E |-> CashExit(p[1], p[2], c)]
             h == CHOOSE g : Folds(g)
             result == CashOver(base, seq, c)
  <1>0. Len(seq) \in Nat /\ Len(seq) <= Len(seq) /\ DOMAIN seq = 1 .. Len(seq)
    OBVIOUS
  <1>1. result = h[1 .. Len(seq)]
    BY <1>0 DEF CashOver, FoldLeft, MapThenFoldSet
  <1> HIDE DEF result
  <1>2. \A n \in 1 .. Len(seq) : seq[n] \in E
    OBVIOUS
  <1> HIDE DEF E
  <1>3. ASSUME NEW S \in D, S # {}
        PROVE  Max(S) \in 1 .. Len(seq) /\ S \ {Max(S)} \in D /\ seq[Max(S)] \in E
    <2>1. Max(S) \in S
      BY <1>0, <1>3, LastPosition
    <2>2. Max(S) \in 1 .. Len(seq) /\ S \ {Max(S)} \in D
      BY <2>1
    <2> QED BY <1>2, <2>2
  <1>4. \E g : Folds(g)
    <2>1. f \in [Accounts \X E -> Accounts]
      BY CashExitKeeps DEF E
    <2>2. PICK g : IsFold(g, Accounts, f, base, seq, Len(seq))
      <3>1. seq \in Seq(E)
        BY DEF E
      <3> HIDE DEF f
      <3> QED BY <1>0, <2>1, <3>1, FoldExists
    <2>3. ASSUME NEW S \in D, S # {} PROVE f[g[S \ {Max(S)}], seq[Max(S)]] = Next1(g, S)
      <3>1. g[S \ {Max(S)}] \in Accounts /\ seq[Max(S)] \in E
        BY <1>3, <2>2, <2>3 DEF IsFold
      <3> QED BY <3>1
    <2>4. \A S \in D : g[S] = IF S = {} THEN base ELSE Next1(g, S)
      <3> HIDE DEF f, Next1
      <3> QED BY <2>2, <2>3 DEF IsFold
    <2>5. g = [S \in D |-> g[S]]
      BY <2>2 DEF IsFold
    <2>6. Folds(g)
      <3> HIDE DEF Next1
      <3> QED BY <2>4, <2>5
    <2> QED BY <2>6
  <1>5. Folds(h)
    <2> HIDE DEF Folds
    <2> QED BY <1>4
  <1>6. h[{}] \in Accounts
    BY <1>5
  <1>7. ASSUME NEW S \in D, S # {}, h[S \ {Max(S)}] \in Accounts PROVE h[S] \in Accounts
    <2> HIDE DEF h
    <2>1. seq[Max(S)] \in E
      BY <1>3, <1>7
    <2>2. Next1(h, S) \in Accounts
      BY <1>7, <2>1, CashExitKeeps DEF E
    <2>3. h[S] = Next1(h, S)
      <3> HIDE DEF Next1
      <3> QED BY <1>5, <1>7
    <2> QED BY <2>2, <2>3
  <1> HIDE DEF h
  <1>8. h[1 .. Len(seq)] \in Accounts
    BY <1>0, <1>6, <1>7, FoldStays
  <1> QED BY <1>1, <1>8 DEF result

\* What is not an entry.
LEMMA RunOverKeeps ==
  ASSUME t \in Int, NEW c, IsCycle(c), NEW seq \in Seq(Scalpers), NEW base \in Accounts
  PROVE  RunOver(base, seq, c) \in Accounts
  <1> DEFINE E == Scalpers
             D == SUBSET (1 .. Len(seq))
             Next1(g, S) == RunCycle(g[S \ {Max(S)}], seq[Max(S)], c)
             Folds(g) == g = [S \in D |-> IF S = {} THEN base ELSE Next1(g, S)]
             f == [p \in Accounts \X E |-> RunCycle(p[1], p[2], c)]
             h == CHOOSE g : Folds(g)
             result == RunOver(base, seq, c)
  <1>0. Len(seq) \in Nat /\ Len(seq) <= Len(seq) /\ DOMAIN seq = 1 .. Len(seq)
    OBVIOUS
  <1>1. result = h[1 .. Len(seq)]
    BY <1>0 DEF RunOver, FoldLeft, MapThenFoldSet
  <1> HIDE DEF result
  <1>2. \A n \in 1 .. Len(seq) : seq[n] \in E
    OBVIOUS
  <1> HIDE DEF E
  <1>3. ASSUME NEW S \in D, S # {}
        PROVE  Max(S) \in 1 .. Len(seq) /\ S \ {Max(S)} \in D /\ seq[Max(S)] \in E
    <2>1. Max(S) \in S
      BY <1>0, <1>3, LastPosition
    <2>2. Max(S) \in 1 .. Len(seq) /\ S \ {Max(S)} \in D
      BY <2>1
    <2> QED BY <1>2, <2>2
  <1>4. \E g : Folds(g)
    <2>1. f \in [Accounts \X E -> Accounts]
      BY RunCycleKeeps DEF E
    <2>2. PICK g : IsFold(g, Accounts, f, base, seq, Len(seq))
      <3>1. seq \in Seq(E)
        BY DEF E
      <3> HIDE DEF f
      <3> QED BY <1>0, <2>1, <3>1, FoldExists
    <2>3. ASSUME NEW S \in D, S # {} PROVE f[g[S \ {Max(S)}], seq[Max(S)]] = Next1(g, S)
      <3>1. g[S \ {Max(S)}] \in Accounts /\ seq[Max(S)] \in E
        BY <1>3, <2>2, <2>3 DEF IsFold
      <3> QED BY <3>1
    <2>4. \A S \in D : g[S] = IF S = {} THEN base ELSE Next1(g, S)
      <3> HIDE DEF f, Next1
      <3> QED BY <2>2, <2>3 DEF IsFold
    <2>5. g = [S \in D |-> g[S]]
      BY <2>2 DEF IsFold
    <2>6. Folds(g)
      <3> HIDE DEF Next1
      <3> QED BY <2>4, <2>5
    <2> QED BY <2>6
  <1>5. Folds(h)
    <2> HIDE DEF Folds
    <2> QED BY <1>4
  <1>6. h[{}] \in Accounts
    BY <1>5
  <1>7. ASSUME NEW S \in D, S # {}, h[S \ {Max(S)}] \in Accounts PROVE h[S] \in Accounts
    <2> HIDE DEF h
    <2>1. seq[Max(S)] \in E
      BY <1>3, <1>7
    <2>2. Next1(h, S) \in Accounts
      BY <1>7, <2>1, RunCycleKeeps DEF E
    <2>3. h[S] = Next1(h, S)
      <3> HIDE DEF Next1
      <3> QED BY <1>5, <1>7
    <2> QED BY <2>2, <2>3
  <1> HIDE DEF h
  <1>8. h[1 .. Len(seq)] \in Accounts
    BY <1>0, <1>6, <1>7, FoldStays
  <1> QED BY <1>1, <1>8 DEF result

\* The entries, in the order of their scores.
LEMMA EnterOverKeeps ==
  ASSUME t \in Int, NEW c, IsCycle(c), NEW a, NEW seq \in Seq(Opened(c.price)), NEW base \in Accounts
  PROVE  EnterOver(a, base, seq, c) \in Accounts
  <1> DEFINE E == Opened(c.price)
             D == SUBSET (1 .. Len(seq))
             Next1(g, S) == EnterIf(a, g[S \ {Max(S)}], seq[Max(S)], c)
             Folds(g) == g = [S \in D |-> IF S = {} THEN base ELSE Next1(g, S)]
             f == [p \in Accounts \X E |-> EnterIf(a, p[1], p[2], c)]
             h == CHOOSE g : Folds(g)
             result == EnterOver(a, base, seq, c)
  <1>0. Len(seq) \in Nat /\ Len(seq) <= Len(seq) /\ DOMAIN seq = 1 .. Len(seq)
    OBVIOUS
  <1>1. result = h[1 .. Len(seq)]
    BY <1>0 DEF EnterOver, FoldLeft, MapThenFoldSet
  <1> HIDE DEF result
  <1>2. \A n \in 1 .. Len(seq) : seq[n] \in E
    OBVIOUS
  <1> HIDE DEF E
  <1>3. ASSUME NEW S \in D, S # {}
        PROVE  Max(S) \in 1 .. Len(seq) /\ S \ {Max(S)} \in D /\ seq[Max(S)] \in E
    <2>1. Max(S) \in S
      BY <1>0, <1>3, LastPosition
    <2>2. Max(S) \in 1 .. Len(seq) /\ S \ {Max(S)} \in D
      BY <2>1
    <2> QED BY <1>2, <2>2
  <1>4. \E g : Folds(g)
    <2>1. f \in [Accounts \X E -> Accounts]
      BY EnterKeeps DEF E
    <2>2. PICK g : IsFold(g, Accounts, f, base, seq, Len(seq))
      <3>1. seq \in Seq(E)
        BY DEF E
      <3> HIDE DEF f
      <3> QED BY <1>0, <2>1, <3>1, FoldExists
    <2>3. ASSUME NEW S \in D, S # {} PROVE f[g[S \ {Max(S)}], seq[Max(S)]] = Next1(g, S)
      <3>1. g[S \ {Max(S)}] \in Accounts /\ seq[Max(S)] \in E
        BY <1>3, <2>2, <2>3 DEF IsFold
      <3> QED BY <3>1
    <2>4. \A S \in D : g[S] = IF S = {} THEN base ELSE Next1(g, S)
      <3> HIDE DEF f, Next1
      <3> QED BY <2>2, <2>3 DEF IsFold
    <2>5. g = [S \in D |-> g[S]]
      BY <2>2 DEF IsFold
    <2>6. Folds(g)
      <3> HIDE DEF Next1
      <3> QED BY <2>4, <2>5
    <2> QED BY <2>6
  <1>5. Folds(h)
    <2> HIDE DEF Folds
    <2> QED BY <1>4
  <1>6. h[{}] \in Accounts
    BY <1>5
  <1>7. ASSUME NEW S \in D, S # {}, h[S \ {Max(S)}] \in Accounts PROVE h[S] \in Accounts
    <2> HIDE DEF h
    <2>1. seq[Max(S)] \in E
      BY <1>3, <1>7
    <2>2. Next1(h, S) \in Accounts
      BY <1>7, <2>1, EnterKeeps DEF E
    <2>3. h[S] = Next1(h, S)
      <3> HIDE DEF Next1
      <3> QED BY <1>5, <1>7
    <2> QED BY <2>2, <2>3
  <1> HIDE DEF h
  <1>8. h[1 .. Len(seq)] \in Accounts
    BY <1>0, <1>6, <1>7, FoldStays
  <1> QED BY <1>1, <1>8 DEF result

\* The bars that have closed.
LEMMA MeetOverKeeps ==
  ASSUME t \in Int, NEW bar \in [Coins -> Bars \cup {NoBar}], NEW weak \in BOOLEAN, NEW seq \in Seq(Keys), NEW base \in Accounts
  PROVE  MeetOver(base, seq, bar, weak) \in Accounts
  <1> DEFINE E == Keys
             D == SUBSET (1 .. Len(seq))
             Next1(g, S) == MeetIf(g[S \ {Max(S)}], seq[Max(S)], bar, weak)
             Folds(g) == g = [S \in D |-> IF S = {} THEN base ELSE Next1(g, S)]
             f == [p \in Accounts \X E |-> MeetIf(p[1], p[2], bar, weak)]
             h == CHOOSE g : Folds(g)
             result == MeetOver(base, seq, bar, weak)
  <1>0. Len(seq) \in Nat /\ Len(seq) <= Len(seq) /\ DOMAIN seq = 1 .. Len(seq)
    OBVIOUS
  <1>1. result = h[1 .. Len(seq)]
    BY <1>0 DEF MeetOver, FoldLeft, MapThenFoldSet
  <1> HIDE DEF result
  <1>2. \A n \in 1 .. Len(seq) : seq[n] \in E
    OBVIOUS
  <1> HIDE DEF E
  <1>3. ASSUME NEW S \in D, S # {}
        PROVE  Max(S) \in 1 .. Len(seq) /\ S \ {Max(S)} \in D /\ seq[Max(S)] \in E
    <2>1. Max(S) \in S
      BY <1>0, <1>3, LastPosition
    <2>2. Max(S) \in 1 .. Len(seq) /\ S \ {Max(S)} \in D
      BY <2>1
    <2> QED BY <1>2, <2>2
  <1>4. \E g : Folds(g)
    <2>1. f \in [Accounts \X E -> Accounts]
      BY MeetKeeps DEF E
    <2>2. PICK g : IsFold(g, Accounts, f, base, seq, Len(seq))
      <3>1. seq \in Seq(E)
        BY DEF E
      <3> HIDE DEF f
      <3> QED BY <1>0, <2>1, <3>1, FoldExists
    <2>3. ASSUME NEW S \in D, S # {} PROVE f[g[S \ {Max(S)}], seq[Max(S)]] = Next1(g, S)
      <3>1. g[S \ {Max(S)}] \in Accounts /\ seq[Max(S)] \in E
        BY <1>3, <2>2, <2>3 DEF IsFold
      <3> QED BY <3>1
    <2>4. \A S \in D : g[S] = IF S = {} THEN base ELSE Next1(g, S)
      <3> HIDE DEF f, Next1
      <3> QED BY <2>2, <2>3 DEF IsFold
    <2>5. g = [S \in D |-> g[S]]
      BY <2>2 DEF IsFold
    <2>6. Folds(g)
      <3> HIDE DEF Next1
      <3> QED BY <2>4, <2>5
    <2> QED BY <2>6
  <1>5. Folds(h)
    <2> HIDE DEF Folds
    <2> QED BY <1>4
  <1>6. h[{}] \in Accounts
    BY <1>5
  <1>7. ASSUME NEW S \in D, S # {}, h[S \ {Max(S)}] \in Accounts PROVE h[S] \in Accounts
    <2> HIDE DEF h
    <2>1. seq[Max(S)] \in E
      BY <1>3, <1>7
    <2>2. Next1(h, S) \in Accounts
      BY <1>7, <2>1, MeetKeeps DEF E
    <2>3. h[S] = Next1(h, S)
      <3> HIDE DEF Next1
      <3> QED BY <1>5, <1>7
    <2> QED BY <2>2, <2>3
  <1> HIDE DEF h
  <1>8. h[1 .. Len(seq)] \in Accounts
    BY <1>0, <1>6, <1>7, FoldStays
  <1> QED BY <1>1, <1>8 DEF result

-------------------------------------------------------------------------------
(* The steps of the replay.                                                  *)

\* What a cycle may bring is a cycle.
LEMMA CyclesAre ==
  ASSUME NEW d \in Votes, NEW c \in CyclesOf(d)
  PROVE  IsCycle(c)
  <1> DEFINE wanted == {k \in Scalpers : d[k] = "BUY"}
             known == Priced(d)
  <1>1. PICK p \in [known -> Opens], q \in SetToSeqs(wanted) :
          c.queue = q /\ c.price = [k \in Scalpers |-> IF k \in known THEN p[k] ELSE 0]
    BY DEF CyclesOf
  <1>2. wanted \subseteq known /\ wanted \subseteq Scalpers
    BY DEF Priced
  <1>3. Cardinality(wanted) \in Nat
    <2>1. IsFiniteSet(wanted)
      BY <1>2, SimulatorAssumption, FS_Subset DEF Keys
    <2> HIDE DEF wanted
    <2> QED BY <2>1, FS_CardinalityType
  <1>4. q \in [1 .. Cardinality(wanted) -> wanted]
    <2> HIDE DEF wanted
    <2> QED BY DEF SetToSeqs
  <1> HIDE DEF wanted, known
  <1>5. q \in Seq(wanted)
    <2> DEFINE n == Cardinality(wanted)
    <2>1. n \in Nat /\ q \in [1 .. n -> wanted]
      BY <1>3, <1>4
    <2> HIDE DEF n
    <2> QED BY <2>1
  <1>6. c.price \in [Scalpers -> Opens \cup {0}]
    BY <1>1
  <1>7. wanted \subseteq Opened(c.price)
    BY <1>1, <1>2 DEF Opened
  <1> DEFINE E == Opened(c.price)
  <1>8. q \in Seq(E)
    <2> HIDE DEF E
    <2>1. wanted \subseteq E
      BY <1>7 DEF E
    <2> QED BY <1>5, <2>1
  <1> QED BY <1>1, <1>6, <1>8 DEF IsCycle

\* A cycle of the engine leaves an account.
LEMMA EngineCycleKeeps ==
  ASSUME t \in Int, NEW c, IsCycle(c), NEW s \in Accounts
  PROVE  EngineCycle(s, c) \in Accounts
  <1> DEFINE seq == ScalperSeq
             a == CashOver(s, seq, c)
             b == RunOver(a, seq, c)
             q == c.queue
             E == Opened(c.price)
  <1>1. EngineCycle(s, c) = EnterOver(a, b, q, c)
    BY DEF EngineCycle, ForAll, CashOver, RunOver, EnterOver, EnterIf
  <1>2. seq \in Seq(Scalpers)
    BY SequencesAre
  <1>3. q \in Seq(E)
    BY DEF IsCycle
  <1> HIDE DEF seq
  <1>4. a \in Accounts
    BY <1>2, CashOverKeeps
  <1> HIDE DEF a
  <1>5. b \in Accounts
    BY <1>2, <1>4, RunOverKeeps
  <1> HIDE DEF b, q
  <1>6. EnterOver(a, b, q, c) \in Accounts
    <2>1. q \in Seq(Opened(c.price))
      BY <1>3
    <2> HIDE DEF E
    <2> QED BY <1>5, <2>1, EnterOverKeeps
  <1> QED BY <1>1, <1>6 DEF q

\* A new account.
LEMMA NewAccountIs ==
  ASSUME NEW c \in Costs
  PROVE  NewAccount(c.fee, c.slip) \in Accounts
  <1> DEFINE w == NewAccount(c.fee, c.slip)
             fee == c.fee
             slip == c.slip
  <1>1. fee \in Int /\ slip \in Int
    <2>1. {c.fee, c.slip} \subseteq 0 .. 499
      BY ReplayAssumption
    <2> QED BY <2>1
  <1>2. InitialBalance \in Int
    BY SimulatorAssumption
  <1>3. NoOrder \in RestType /\ NoOrder.reserve = 0
    BY DEF NoOrder, RestType
  <1>4. Flat \in PosType /\ Clear(Flat)
    BY FlatIsClear
  <1>5. /\ w.fee = fee /\ w.slip = slip /\ w.positions = [k \in Keys |-> Flat]
        /\ w.pending = [k \in Satellites |-> NoOrder]
    BY DEF NewAccount
  <1>6. w \in SimType
    <2> HIDE DEF fee, slip
    <2>1. NewAccount(fee, slip) \in SimType
      BY <1>1, <1>2, <1>3, <1>4 DEF NewAccount, SimType
    <2> QED BY <2>1 DEF fee, slip
  <1> HIDE DEF w, fee, slip
  <1>7. \E x \in Costs : w.fee = x.fee /\ w.slip = x.slip
    BY <1>5 DEF fee, slip
  <1>8. \A k \in Keys : Fits(w, k, w.positions[k])
    <2>1. \A k \in Keys : w.positions[k] = Flat
      BY <1>5
    <2> QED BY <2>1, FlatFits
  <1>9. \A k \in Satellites : Rests(w.pending[k])
    <2>1. \A k \in Satellites : w.pending[k] = NoOrder
      BY <1>5
    <2> QED BY <1>3, <2>1 DEF Rests
  <1>10. w \in Accounts
    BY <1>6, <1>7, <1>8, <1>9 DEF Accounts
  <1> QED BY <1>10 DEF w, fee, slip

\* What holds of a replay at every step.
ReplayInv ==
  /\ t \in Nat
  /\ sim \in Accounts
  /\ price \in [Scalpers -> Opens \cup {0}]

\* An order of the core sleeve is made at a price.
LEMMA SleeveIsAccount ==
  ASSUME ReplayInv, NEW k \in Core, NEW a \in Allocations, price[Coin[k]] > 0
  PROVE  /\ OpenCore(sim, k, price[Coin[k]], a, t).sim \in Accounts
         /\ GrowCore(sim, k, price[Coin[k]], a).sim \in Accounts
         /\ TrimCore(sim, k, price[Coin[k]], a).sim \in Accounts
  <1> DEFINE y == price[Coin[k]]
  <1>1. k \in Cores /\ Coin[k] \in Scalpers
    BY SimulatorAssumption DEF Core, Keys
  <1>2. \A o \in Opens : o \in Nat
    BY ReplayAssumption DEF Opens
  <1>3. y \in Nat /\ y > 0
    BY <1>1, <1>2 DEF ReplayInv
  <1>4. sim \in Accounts /\ a \in Nat /\ t \in Int
    BY ReplayAssumption DEF ReplayInv
  <1> HIDE DEF y
  <1>5. OpenCore(sim, k, y, a, t).sim \in Accounts
    BY <1>1, <1>3, <1>4, OpenCoreIsAccount
  <1>6. GrowCore(sim, k, y, a).sim \in Accounts
    BY <1>1, <1>3, <1>4, GrowCoreIsAccount
  <1>7. TrimCore(sim, k, y, a).sim \in Accounts
    BY <1>1, <1>3, <1>4, TrimCoreIsAccount
  <1> QED BY <1>5, <1>6, <1>7 DEF y

LEMMA SaleIsAccount ==
  ASSUME ReplayInv, NEW k \in Core, price[Coin[k]] > 0
  PROVE  CloseCore(sim, k, price[Coin[k]]).sim \in Accounts
  <1> DEFINE y == price[Coin[k]]
  <1>1. k \in Cores /\ Coin[k] \in Scalpers
    BY SimulatorAssumption DEF Core, Keys
  <1>2. \A o \in Opens : o \in Nat
    BY ReplayAssumption DEF Opens
  <1>3. y \in Nat /\ sim \in Accounts
    BY <1>1, <1>2 DEF ReplayInv
  <1> HIDE DEF y
  <1>4. CloseCore(sim, k, y).sim \in Accounts
    BY <1>1, <1>3, CloseCoreIsAccount
  <1> QED BY <1>4 DEF y

\* A planned order has a limit.
LEMMA BreakoutIsAccount ==
  ASSUME ReplayInv, NEW k \in Bo, NEW signal \in Breakouts, Planned(signal, sim.balance)
  PROVE  PlaceSatelliteOrder(sim, k, Limit(signal), signal.stop, Min({signal.want, sim.balance}), t, t + PeriodBars)
           \in Accounts
  <1> DEFINE ref == signal.ref
             stop == signal.stop
             want == signal.want
             free == sim.balance
             limit == Limit(signal)
             size == Min({want, free})
             until == t + PeriodBars
  <1>1. ref \in Nat /\ stop \in Nat /\ want \in Nat
    <2>1. {signal.ref, signal.stop, signal.want} \subseteq Nat
      BY ReplayAssumption
    <2> QED BY <2>1
  <1>2. sim \in Accounts /\ t \in Int /\ until \in Int
    BY ReplayAssumption DEF ReplayInv
  <1>3. free \in Int
    BY <1>2, AccountFields
  <1>4. k \in Satellites
    BY DEF Bo
  <1>5. stop > 0 /\ stop * 1000 < limit * 998
    BY DEF Planned
  <1>6. limit \in Int
    <2> HIDE DEF ref
    <2>1. OffsetPct \in Int
      <3>1. {OffsetPct, MaxRiskPct} \subseteq 0 .. 999
        BY ReplayAssumption
      <3> QED BY <3>1
    <2>2. Part(ref, OffsetPct) \in Int
      BY <1>1, <2>1, PartIsInt
    <2>3. ref - Part(ref, OffsetPct) \in Int
      BY <1>1, <2>2
    <2> QED BY <2>3 DEF Limit, ref
  <1> HIDE DEF ref, stop, want, free, limit, until
  <1>7. limit > 0
    BY <1>1, <1>5, <1>6
  <1>8. size \in Int
    <2>1. size = IF want <= free THEN want ELSE free
      BY <1>1, <1>3, LesserOfTwo
    <2> QED BY <1>1, <1>3, <2>1
  <1> HIDE DEF size
  <1>9. PlaceSatelliteOrder(sim, k, limit, stop, size, t, until) \in Accounts
    <2>1. stop \in Int /\ t <= t
      BY <1>1, <1>2
    <2> QED BY <1>2, <1>4, <1>6, <1>7, <1>8, <2>1, PlaceIsAccount
  <1> QED BY <1>9 DEF limit, stop, size, until, want, free

LEMMA ReplayInvInit == PairInit => ReplayInv
  <1> SUFFICES ASSUME PairInit PROVE ReplayInv
    OBVIOUS
  <1>1. t = 0 /\ price = Unknown /\ sim \in {NewAccount(c.fee, c.slip) : c \in Costs}
    BY DEF PairInit, ReplayInit
  <1>2. sim \in Accounts
    BY <1>1, NewAccountIs
  <1>3. price \in [Scalpers -> Opens \cup {0}]
    BY <1>1 DEF Unknown
  <1> QED BY <1>1, <1>2, <1>3 DEF ReplayInv

\* Every step of the replay leaves an account.
LEMMA ReplayInvStep ==
  ASSUME ReplayInv, [PairNext]_pairVars
  PROVE  ReplayInv'
  <1>1. t \in Int /\ sim \in Accounts
    BY DEF ReplayInv
  <1>0. t' = t /\ sim' \in Accounts => sim' \in Accounts'
    BY <1>1, AccountsLast
  <1>2. CASE \E bar \in [Coins -> Bars \cup {NoBar}], weak \in BOOLEAN :
               (\A k \in Coins : price[k] \in {0, bar[k].open}) /\ PairBars(bar, weak)
    <2>1. PICK bar \in [Coins -> Bars \cup {NoBar}], weak \in BOOLEAN : CloseBars(bar, weak)
      BY <1>2 DEF PairBars
    <2>2. sim' = MeetOver(sim, KeySeq, bar, weak)
      BY <2>1 DEF CloseBars, MeetOver, MeetIf
    <2>3. MeetOver(sim, KeySeq, bar, weak) \in Accounts
      <3> DEFINE seq == KeySeq
      <3>1. seq \in Seq(Keys)
        BY SequencesAre
      <3> HIDE DEF seq
      <3>2. MeetOver(sim, seq, bar, weak) \in Accounts
        BY <1>1, <3>1, MeetOverKeeps
      <3> QED BY <3>2 DEF seq
    <2>4. t' = t + 1 /\ price' = Unknown
      BY <2>1 DEF CloseBars
    <2>5. t' \in Nat /\ t <= t'
      BY <2>4 DEF ReplayInv
    <2> QED BY <1>1, <2>2, <2>3, <2>4, <2>5, AccountsLast DEF ReplayInv, Unknown
  <1>3. CASE \E amount \in Amounts : PairPayIn(amount)
    <2>1. PICK amount \in Amounts : PayIn(amount)
      BY <1>3 DEF PairPayIn
    <2>2. amount \in Nat
      BY ReplayAssumption
    <2>3. sim' = Deposit(sim, amount) /\ t' = t /\ price' = price
      BY <2>1 DEF PayIn
    <2>4. Deposit(sim, amount) \in Accounts
      BY <1>1, <2>2, DepositIsAccount
    <2> QED BY <1>0, <2>3, <2>4 DEF ReplayInv
  <1>4. CASE \E d \in Votes : \E c \in CyclesOf(d) : PairCycle(c)
    <2>1. PICK d \in Votes : \E c \in CyclesOf(d) : PairCycle(c)
      BY <1>4
    <2>2. PICK c \in CyclesOf(d) : PairCycle(c)
      BY <2>1
    <2>3. sim' = EngineCycle(sim, c) /\ price' = c.price /\ t' = t
      BY <2>2 DEF PairCycle, Cycle
    <2>4. IsCycle(c)
      BY CyclesAre
    <2>5. EngineCycle(sim, c) \in Accounts
      BY <1>1, <2>4, EngineCycleKeeps
    <2> QED BY <1>0, <2>3, <2>4, <2>5 DEF ReplayInv, IsCycle
  <1>5. CASE SleeveStep
    <2>1. ASSUME NEW k \in Core, NEW step, Sleeve(k, step), price[Coin[k]] > 0 => step.sim \in Accounts PROVE ReplayInv'
      BY <1>0, <2>1 DEF Sleeve, ReplayInv
    <2>2. ASSUME NEW k \in Core, NEW a \in Allocations, Sleeve(k, OpenCore(sim, k, price[Coin[k]], a, t)) PROVE ReplayInv'
      BY <2>1, <2>2, SleeveIsAccount
    <2>3. ASSUME NEW k \in Core, NEW a \in Allocations, Sleeve(k, GrowCore(sim, k, price[Coin[k]], a)) PROVE ReplayInv'
      BY <2>1, <2>3, SleeveIsAccount
    <2>4. ASSUME NEW k \in Core, NEW a \in Allocations, Sleeve(k, TrimCore(sim, k, price[Coin[k]], a)) PROVE ReplayInv'
      BY <2>1, <2>4, SleeveIsAccount
    <2>5. ASSUME NEW k \in Core, Sleeve(k, CloseCore(sim, k, price[Coin[k]])) PROVE ReplayInv'
      BY <2>1, <2>5, SaleIsAccount
    <2>6. CASE SleeveRests \/ BreakoutRests
      BY <1>0, <2>6 DEF SleeveRests, BreakoutRests, ReplayInv
    <2>7. ASSUME NEW k \in Bo, NEW signal \in Breakouts, Breakout(k, signal) PROVE ReplayInv'
      <3>1. Planned(signal, sim.balance) /\ t' = t /\ price' = price
            /\ sim' = PlaceSatelliteOrder(sim, k, Limit(signal), signal.stop,
                                          Min({signal.want, sim.balance}), t, t + PeriodBars)
        BY <2>7 DEF Breakout
      <3>2. sim' \in Accounts
        BY <2>7, <3>1, BreakoutIsAccount
      <3> QED BY <1>0, <3>1, <3>2 DEF ReplayInv
    <2> QED BY <1>5, <2>2, <2>3, <2>4, <2>5, <2>6, <2>7 DEF SleeveStep
  <1>6. CASE UNCHANGED pairVars
    BY <1>0, <1>6 DEF pairVars, replayVars, ReplayInv
  <1> QED BY <1>2, <1>3, <1>4, <1>5, <1>6 DEF PairNext

\* The fills of a sound step.
LEMMA SoundIsFair ==
  ASSUME NEW step, NEW p, NEW bar, Sound(step, FairFills(p, bar)), NEW i \in DOMAIN step.fills
  PROVE  step.fills[i] \in FairFills(p, bar)
  <1> DEFINE F == FairFills(p, bar)
             fills == step.fills
  <1>1. fills \in Seq(F)
    BY DEF Sound
  <1>2. i \in DOMAIN fills
    OBVIOUS
  <1> HIDE DEF F, fills
  <1>3. fills[i] \in F
    BY <1>1, <1>2
  <1> QED BY <1>3 DEF F, fills

LEMMA InvIsFair ==
  ASSUME LocksClear, ReplayInv
  PROVE  FillsAreFair
  <1> SUFFICES ASSUME NEW k \in Scalpers \cup Satellites, NEW bar \in Bars
               PROVE  LET p    == sim.positions[k]
                          step == IF k \in Scalpers THEN ReplayBar(sim, k, bar) ELSE SatelliteBar(sim, k, bar, t, FALSE)
                      IN \A i \in DOMAIN step.fills :
                           LET f == step.fills[i] IN
                           /\ f.price >= bar.low
                           /\ f.side = "SELL" =>
                                /\ f.price <= bar.high
                                /\ p.qty > 0 /\ bar.open <= p.stop => f.price <= bar.open
                                /\ p.qty > 0 /\ bar.low <= p.stop /\ bar.open < p.target
                                     => f.reason \notin {"take_profit", "sat_target"}
    BY DEF FillsAreFair
  <1> DEFINE p    == sim.positions[k]
             step == IF k \in Scalpers THEN ReplayBar(sim, k, bar) ELSE SatelliteBar(sim, k, bar, t, FALSE)
  <1>1. sim \in Accounts /\ t \in Int /\ IsBar(bar)
    BY BarsAre DEF ReplayInv
  <1>2. Sound(step, FairFills(p, bar))
    <2>1. CASE k \in Scalpers
      <3>1. Sound(ReplayBar(sim, k, bar), FairFills(sim.positions[k], bar))
        BY <1>1, <2>1, ReplayBarIsFair
      <3> QED BY <2>1, <3>1
    <2>2. CASE k \notin Scalpers
      <3> DEFINE weak == FALSE
      <3>1. k \in Satellites /\ weak \in BOOLEAN
        BY <2>2
      <3>2. step = SatelliteBar(sim, k, bar, t, weak)
        BY <2>2
      <3> HIDE DEF weak, step
      <3>3. Sound(SatelliteBar(sim, k, bar, t, weak), FairFills(sim.positions[k], bar))
        BY <1>1, <3>1, SatelliteBarIsFair
      <3> QED BY <3>2, <3>3
    <2> QED BY <2>1, <2>2
  <1> HIDE DEF step
  <1>3. \A i \in DOMAIN step.fills : step.fills[i] \in FairFills(p, bar)
    BY <1>2, SoundIsFair
  <1>4. \A i \in DOMAIN step.fills :
          LET f == step.fills[i] IN
          /\ f.price >= bar.low
          /\ f.side = "SELL" =>
               /\ f.price <= bar.high
               /\ p.qty > 0 /\ bar.open <= p.stop => f.price <= bar.open
               /\ p.qty > 0 /\ bar.low <= p.stop /\ bar.open < p.target
                    => f.reason \notin {"take_profit", "sat_target"}
    <2> HIDE DEF p
    <2> QED BY <1>3 DEF FairFills
  <1> QED BY <1>4 DEF step, p

\* No fill of the replay is better than its bar, whatever bar comes, when break-even is locked only
\* by a price over the stop it sets (the shipped triggers are a tenth of the price and half of the
\* way to the target).  (replayBar and replaySatelliteBar: low before high.)
THEOREM FillsStayFair == LocksClear => (PairSpec => []FillsAreFair)
  <1> SUFFICES ASSUME LocksClear PROVE PairSpec => []FillsAreFair
    OBVIOUS
  <1>1. PairInit => ReplayInv
    BY ReplayInvInit
  <1>2. ReplayInv /\ [PairNext]_pairVars => ReplayInv'
    BY ReplayInvStep
  <1>3. ReplayInv => FillsAreFair
    BY InvIsFair
  <1> QED BY <1>1, <1>2, <1>3, PTL DEF PairSpec

-------------------------------------------------------------------------------
(* The paper account beside an account without costs.                        *)

OfPaper(p) ==
  [qty |-> p.qty, cost |-> p.cost, stop |-> p.stop, initial |-> p.initial, target |-> p.target,
   high |-> p.high, partialDone |-> p.partialDone, tierDue |-> p.tierDue]
OfOrder(o) == [reserve |-> o.reserve, limit |-> o.limit, stop |-> o.stop]

LEMMA BookIs ==
  ASSUME NEW s
  PROVE  /\ BookOf(s) = [balance |-> s.balance, reserved |-> s.reserved, pnl |-> s.pnl,
                         positions |-> [k \in Keys |-> OfPaper(s.positions[k])],
                         pending |-> [k \in Satellites |-> OfOrder(s.pending[k])]]
         /\ \A k \in Keys : BookOf(s).positions[k] = OfPaper(s.positions[k])
         /\ \A k \in Satellites : BookOf(s).pending[k] = OfOrder(s.pending[k])
         /\ BookOf(s).balance = s.balance /\ BookOf(s).reserved = s.reserved /\ BookOf(s).pnl = s.pnl
  BY DEF BookOf, OfPaper, OfOrder

\* A book with another position, cash and result.
Booked(b, k, p, balance, pnl) == [b EXCEPT !.balance = balance, !.pnl = pnl, !.positions[k] = p]

LEMMA BookOfWith ==
  ASSUME NEW s \in Accounts, NEW k \in Keys, NEW q, NEW balance, NEW pnl
  PROVE  BookOf(With(s, k, q, balance, pnl)) = Booked(BookOf(s), k, OfPaper(q), balance, pnl)
  <1> DEFINE w == With(s, k, q, balance, pnl)
             F(x) == [j \in Keys |-> OfPaper(x.positions[j])]
             G(x) == [j \in Satellites |-> OfOrder(x.pending[j])]
             b == BookOf(s)
  <1>1. /\ w.balance = balance /\ w.pnl = pnl /\ w.reserved = s.reserved /\ w.pending = s.pending
        /\ w.positions = [s.positions EXCEPT ![k] = q]
    BY AccountFields DEF With, SimType
  <1>2. b = [balance |-> s.balance, reserved |-> s.reserved, pnl |-> s.pnl, positions |-> F(s), pending |-> G(s)]
    BY BookIs
  <1>3. BookOf(w) = [balance |-> balance, reserved |-> s.reserved, pnl |-> pnl, positions |-> F(w), pending |-> G(s)]
    <2> HIDE DEF w
    <2>1. BookOf(w) = [balance |-> w.balance, reserved |-> w.reserved, pnl |-> w.pnl, positions |-> F(w), pending |-> G(w)]
      BY BookIs
    <2>2. G(w) = G(s)
      BY <1>1
    <2> DEFINE f == F(w)
               g == G(s)
    <2>3. BookOf(w) = [balance |-> w.balance, reserved |-> w.reserved, pnl |-> w.pnl, positions |-> f, pending |-> g]
      BY <2>1, <2>2
    <2> HIDE DEF f, g
    <2>4. BookOf(w) = [balance |-> balance, reserved |-> s.reserved, pnl |-> pnl, positions |-> f, pending |-> g]
      BY <1>1, <2>3
    <2> QED BY <2>4 DEF f, g
  <1>4. F(w) = [F(s) EXCEPT ![k] = OfPaper(q)]
    <2>1. s.positions \in [Keys -> PosType]
      BY AccountFields
    <2> HIDE DEF w
    <2>2. \A j \in Keys : w.positions[j] = IF j = k THEN q ELSE s.positions[j]
      BY <1>1, <2>1
    <2> QED BY <2>2
  <1>5. Booked(b, k, OfPaper(q), balance, pnl)
          = [balance |-> balance, reserved |-> s.reserved, pnl |-> pnl,
             positions |-> [F(s) EXCEPT ![k] = OfPaper(q)], pending |-> G(s)]
    <2> HIDE DEF b
    <2> DEFINE f == F(s)
               g == G(s)
               x == OfPaper(q)
               a == s.balance
               d == s.reserved
               e == s.pnl
    <2>1. b = [balance |-> a, reserved |-> d, pnl |-> e, positions |-> f, pending |-> g]
      BY <1>2
    <2> HIDE DEF f, g, x, a, d, e
    <2>2. Booked(b, k, x, balance, pnl)
            = [balance |-> balance, reserved |-> d, pnl |-> pnl, positions |-> [f EXCEPT ![k] = x], pending |-> g]
      <3> DEFINE b1 == [b EXCEPT !.balance = balance]
                 b2 == [b1 EXCEPT !.pnl = pnl]
                 b3 == [b2 EXCEPT !.positions[k] = x]
      <3>1. Booked(b, k, x, balance, pnl) = b3
        BY DEF Booked
      <3>2. b1 = [balance |-> balance, reserved |-> d, pnl |-> e, positions |-> f, pending |-> g]
        BY <2>1
      <3> HIDE DEF b1
      <3>3. b2 = [balance |-> balance, reserved |-> d, pnl |-> pnl, positions |-> f, pending |-> g]
        BY <3>2
      <3> HIDE DEF b2
      <3>4. b3 = [balance |-> balance, reserved |-> d, pnl |-> pnl, positions |-> [f EXCEPT ![k] = x], pending |-> g]
        BY <3>3
      <3> QED BY <3>1, <3>4
    <2> QED BY <2>2 DEF f, g, x, d
  <1> QED BY <1>3, <1>4, <1>5 DEF w, b

Stopped(p, x)  == [p EXCEPT !.stop = x]
Raised(p, y, x) == [p EXCEPT !.high = y, !.stop = x]
Halved(p, y, x) == [p EXCEPT !.partialDone = y, !.stop = x]
Shrunk(p, x, y) == [p EXCEPT !.qty = x, !.cost = y]

\* What changes in a position changes in the book's.
LEMMA ChangesAlike ==
  ASSUME NEW p \in PosType, NEW x, NEW y
  PROVE  /\ Stopped(OfPaper(p), x) = OfPaper(Stopped(p, x))
         /\ Raised(OfPaper(p), y, x) = OfPaper(Raised(p, y, x))
         /\ Halved(OfPaper(p), y, x) = OfPaper(Halved(p, y, x))
         /\ Shrunk(OfPaper(p), x, y) = OfPaper(Shrunk(p, x, y))
  <1> DEFINE o == OfPaper(p)
  <1>1. o = [qty |-> p.qty, cost |-> p.cost, stop |-> p.stop, initial |-> p.initial, target |-> p.target,
             high |-> p.high, partialDone |-> p.partialDone, tierDue |-> p.tierDue]
    BY DEF OfPaper
  <1>2. Stopped(OfPaper(p), x) = OfPaper(Stopped(p, x))
    <2> DEFINE q == [p EXCEPT !.stop = x]
    <2>1. /\ q.qty = p.qty /\ q.cost = p.cost /\ q.stop = x /\ q.initial = p.initial /\ q.target = p.target
          /\ q.high = p.high /\ q.partialDone = p.partialDone /\ q.tierDue = p.tierDue
      BY DEF PosType
    <2> HIDE DEF q, o
    <2>2. [o EXCEPT !.stop = x] = OfPaper(q)
      BY <1>1, <2>1 DEF OfPaper
    <2> QED BY <2>2 DEF q, o, Stopped, Raised, Halved, Shrunk
  <1>3. Raised(OfPaper(p), y, x) = OfPaper(Raised(p, y, x))
    <2> DEFINE q == [p EXCEPT !.high = y, !.stop = x]
    <2>1. /\ q.qty = p.qty /\ q.cost = p.cost /\ q.stop = x /\ q.initial = p.initial /\ q.target = p.target
          /\ q.high = y /\ q.partialDone = p.partialDone /\ q.tierDue = p.tierDue
      BY DEF PosType
    <2> HIDE DEF q, o
    <2> DEFINE z == [o EXCEPT !.high = y]
    <2>3. z = [qty |-> p.qty, cost |-> p.cost, stop |-> p.stop, initial |-> p.initial, target |-> p.target, high |-> y, partialDone |-> p.partialDone, tierDue |-> p.tierDue]
      BY <1>1
    <2>4. [o EXCEPT !.high = y, !.stop = x] = [z EXCEPT !.stop = x]
      OBVIOUS
    <2> HIDE DEF z
    <2>2. [o EXCEPT !.high = y, !.stop = x] = OfPaper(q)
      BY <2>1, <2>3, <2>4 DEF OfPaper
    <2> QED BY <2>2 DEF q, o, Stopped, Raised, Halved, Shrunk
  <1>4. Halved(OfPaper(p), y, x) = OfPaper(Halved(p, y, x))
    <2> DEFINE q == [p EXCEPT !.partialDone = y, !.stop = x]
    <2>1. /\ q.qty = p.qty /\ q.cost = p.cost /\ q.stop = x /\ q.initial = p.initial /\ q.target = p.target
          /\ q.high = p.high /\ q.partialDone = y /\ q.tierDue = p.tierDue
      BY DEF PosType
    <2> HIDE DEF q, o
    <2> DEFINE z == [o EXCEPT !.partialDone = y]
    <2>3. z = [qty |-> p.qty, cost |-> p.cost, stop |-> p.stop, initial |-> p.initial, target |-> p.target, high |-> p.high, partialDone |-> y, tierDue |-> p.tierDue]
      BY <1>1
    <2>4. [o EXCEPT !.partialDone = y, !.stop = x] = [z EXCEPT !.stop = x]
      OBVIOUS
    <2> HIDE DEF z
    <2>2. [o EXCEPT !.partialDone = y, !.stop = x] = OfPaper(q)
      BY <2>1, <2>3, <2>4 DEF OfPaper
    <2> QED BY <2>2 DEF q, o, Stopped, Raised, Halved, Shrunk
  <1>5. Shrunk(OfPaper(p), x, y) = OfPaper(Shrunk(p, x, y))
    <2> DEFINE q == [p EXCEPT !.qty = x, !.cost = y]
    <2>1. /\ q.qty = x /\ q.cost = y /\ q.stop = p.stop /\ q.initial = p.initial /\ q.target = p.target
          /\ q.high = p.high /\ q.partialDone = p.partialDone /\ q.tierDue = p.tierDue
      BY DEF PosType
    <2> HIDE DEF q, o
    <2> DEFINE z == [o EXCEPT !.qty = x]
    <2>3. z = [qty |-> x, cost |-> p.cost, stop |-> p.stop, initial |-> p.initial, target |-> p.target, high |-> p.high, partialDone |-> p.partialDone, tierDue |-> p.tierDue]
      BY <1>1
    <2>4. [o EXCEPT !.qty = x, !.cost = y] = [z EXCEPT !.cost = y]
      OBVIOUS
    <2> HIDE DEF z
    <2>2. [o EXCEPT !.qty = x, !.cost = y] = OfPaper(q)
      BY <2>1, <2>3, <2>4 DEF OfPaper
    <2> QED BY <2>2 DEF q, o, Stopped, Raised, Halved, Shrunk
  <1> QED BY <1>2, <1>3, <1>4, <1>5

\* The paper trader's rules are those of the simulator, and they read the same of a position.
LEMMA RulesAlike ==
  ASSUME NEW p \in PosType, NEW e, NEW y
  PROVE  /\ Paper!Trailed(OfPaper(p), e, y) = OfPaper(Trailed(p, e, y))
         /\ Paper!BreakEvened(OfPaper(p), e, y) = OfPaper(BreakEvened(p, e, y))
         /\ Paper!PartialDue(OfPaper(p), e, y) = PartialDue(p, e, y)
         /\ Paper!Remainder(OfPaper(p), e) = OfPaper(Remainder(p, e))
         /\ Paper!ExitReason(OfPaper(p), y) = ExitReason(p, y)
  <1>1. Paper!Trailed(OfPaper(p), e, y) = OfPaper(Trailed(p, e, y))
    <2> DEFINE m(x) == Max({x, Part(y, 1000 - TrailPct)})
               on == /\ TrailPct > 0
                     /\ ArmPct > 0 => y >= e + Part(e, ArmPct)
                     /\ y > e /\ y > p.high
    <2>1. Paper!Trailed(OfPaper(p), e, y)
            = IF on THEN [OfPaper(p) EXCEPT !.high = y, !.stop = m(p.stop)] ELSE OfPaper(p)
      BY DEF Paper!Trailed, Paper!Part, Part, Paper!Max, Max, OfPaper
    <2>2. Trailed(p, e, y) = IF on THEN [p EXCEPT !.high = y, !.stop = m(p.stop)] ELSE p
      BY DEF Trailed, PosType
    <2> DEFINE x == m(p.stop)
    <2> HIDE DEF x, on
    <2>3. Raised(OfPaper(p), y, x) = OfPaper(Raised(p, y, x))
      BY ChangesAlike
    <2> QED BY <2>1, <2>2, <2>3 DEF x, Raised
  <1>2. Paper!BreakEvened(OfPaper(p), e, y) = OfPaper(BreakEvened(p, e, y))
    <2> DEFINE on == BreakEvenPct > 0 /\ p.stop < e /\ y >= e + Part(e, BreakEvenPct)
               x == Lock(e)
    <2>1. Paper!BreakEvened(OfPaper(p), e, y) = IF on THEN [OfPaper(p) EXCEPT !.stop = x] ELSE OfPaper(p)
      BY DEF Paper!BreakEvened, Paper!Part, Part, Paper!Lock, Lock, OfPaper
    <2>2. BreakEvened(p, e, y) = IF on THEN [p EXCEPT !.stop = x] ELSE p
      BY DEF BreakEvened
    <2> HIDE DEF x, on
    <2>3. Stopped(OfPaper(p), x) = OfPaper(Stopped(p, x))
      BY ChangesAlike
    <2> QED BY <2>1, <2>2, <2>3 DEF Stopped
  <1>3. Paper!PartialDue(OfPaper(p), e, y) = PartialDue(p, e, y)
    BY DEF Paper!PartialDue, PartialDue, Paper!Part, Part, OfPaper
  <1>4. Paper!Remainder(OfPaper(p), e) = OfPaper(Remainder(p, e))
    <2> DEFINE x == IF p.stop < e THEN Lock(e) ELSE p.stop
    <2>1. Paper!Remainder(OfPaper(p), e) = [OfPaper(p) EXCEPT !.partialDone = TRUE, !.stop = x]
      BY DEF Paper!Remainder, Paper!Part, Part, Paper!Lock, Lock, OfPaper
    <2>2. Remainder(p, e) = [p EXCEPT !.partialDone = TRUE, !.stop = x]
      BY DEF Remainder, PosType
    <2> HIDE DEF x
    <2> DEFINE done == TRUE
    <2> HIDE DEF done
    <2>3. Halved(OfPaper(p), done, x) = OfPaper(Halved(p, done, x))
      BY ChangesAlike
    <2> QED BY <2>1, <2>2, <2>3 DEF done, Halved
  <1>5. Paper!ExitReason(OfPaper(p), y) = ExitReason(p, y)
    BY DEF Paper!ExitReason, ExitReason, OfPaper
  <1> QED BY <1>1, <1>2, <1>3, <1>4, <1>5

LEMMA HeldAlike ==
  ASSUME NEW s, NEW k \in Keys
  PROVE  Paper!Held(BookOf(s), k) = Held(s, k)
  BY BookIs DEF Paper!Held, Held, OfPaper

LEMMA FlatAlike == OfPaper(Flat) = Paper!Flat
  BY DEF OfPaper, Flat, Paper!Flat

\* A sale.
LEMMA SoldAlike ==
  ASSUME NEW s \in Accounts, Free(s), NEW k \in Keys, NEW lots \in Int, NEW y \in Int
  PROVE  BookOf(Sold(s, k, lots, y)) = Paper!Sold(BookOf(s), k, lots, y)
  <1> DEFINE p == s.positions[k]
             b == BookOf(s)
             basis == IF lots = p.qty THEN p.cost ELSE lots * (p.cost \div p.qty)
             left == [p EXCEPT !.qty = @ - lots, !.cost = @ - basis]
             q == IF lots = p.qty THEN Flat ELSE left
             cash == s.balance + lots * y
             won == s.pnl + (lots * y - basis)
  <1>1. p \in PosType /\ Got(s, y) = y
    BY AccountFields, FreePays
  <1>2. b.balance = s.balance /\ b.pnl = s.pnl /\ b.positions[k] = OfPaper(p)
    BY BookIs
  <1>3. /\ OfPaper(p).qty = p.qty /\ OfPaper(p).cost = p.cost
        /\ OfPaper(left) = [OfPaper(p) EXCEPT !.qty = @ - lots, !.cost = @ - basis]
    <2>1. OfPaper(p).qty = p.qty /\ OfPaper(p).cost = p.cost
      BY DEF OfPaper
    <2> DEFINE n == p.qty - lots
               c == p.cost - basis
    <2>2. left = [p EXCEPT !.qty = n, !.cost = c]
      OBVIOUS
    <2>3. [OfPaper(p) EXCEPT !.qty = @ - lots, !.cost = @ - basis] = [OfPaper(p) EXCEPT !.qty = n, !.cost = c]
      BY <2>1
    <2> HIDE DEF left, n, c, p
    <2>4. Shrunk(OfPaper(p), n, c) = OfPaper(Shrunk(p, n, c))
      BY <1>1, ChangesAlike
    <2> QED BY <2>1, <2>2, <2>3, <2>4 DEF Shrunk
  <1>4. OfPaper(q) = IF lots = p.qty THEN Paper!Flat ELSE [OfPaper(p) EXCEPT !.qty = @ - lots, !.cost = @ - basis]
    BY <1>3, FlatAlike
  <1>5. Sold(s, k, lots, y) = With(s, k, q, cash, won)
    <2>1. Sold(s, k, lots, y) = [s EXCEPT !.balance = cash, !.pnl = won, !.positions[k] = q]
      BY <1>1, AccountFields DEF Sold, SimType
    <2> QED BY <2>1 DEF With
  <1>6. Paper!Sold(b, k, lots, y) = Booked(b, k, OfPaper(q), cash, won)
    <2>1. b = [balance |-> s.balance, reserved |-> b.reserved, pnl |-> s.pnl,
               positions |-> b.positions, pending |-> b.pending]
          /\ b.positions = [j \in Keys |-> OfPaper(s.positions[j])]
      BY BookIs
    <2> DEFINE o == OfPaper(p)
    <2>2. b.positions[k] = o /\ o.qty = p.qty /\ o.cost = p.cost
      BY <1>2, <1>3
    <2> DEFINE x == IF lots = p.qty THEN Paper!Flat ELSE [o EXCEPT !.qty = @ - lots, !.cost = @ - basis]
    <2>3. Paper!Sold(b, k, lots, y) = [b EXCEPT !.balance = cash, !.pnl = won, !.positions[k] = x]
      <3> HIDE DEF b, o, p
      <3> QED BY <1>2, <2>1, <2>2 DEF Paper!Sold, Paper!EntryPrice
    <2>4. x = OfPaper(q)
      BY <1>4
    <2> HIDE DEF x, b, q, cash, won
    <2> QED BY <2>3, <2>4 DEF Booked
  <1>7. BookOf(With(s, k, q, cash, won)) = Booked(b, k, OfPaper(q), cash, won)
    BY BookOfWith
  <1> QED BY <1>5, <1>6, <1>7 DEF b

LEMMA CloseAlike ==
  ASSUME NEW s \in Accounts, Free(s), NEW k \in Keys, NEW y \in Int, NEW reason, NEW why
  PROVE  LET sale == Paper!Close(BookOf(s), k, y, reason)
         IN /\ BookOf(Close(s, k, y, why).sim) = sale.book
            /\ Held(s, k) <=> sale.record # Paper!NoRecord
  <1> DEFINE b == BookOf(s)
             lots == s.positions[k].qty
             w == Paper!Sold(b, k, lots, y)
             sale == Paper!Close(b, k, y, reason)
             r == Paper!Record("SELL", k, lots, y, w.pnl - b.pnl, w, reason)
  <1>1. b.positions[k].qty = lots /\ lots \in Int
    BY BookIs, AccountFields, PosFields DEF OfPaper
  <1>2. Paper!Held(b, k) = Held(s, k)
    BY HeldAlike
  <1>3. sale = IF ~Held(s, k) THEN Paper!Nothing(b) ELSE Paper!Step(w, <<r>>, r)
    <2> HIDE DEF b, lots
    <2> QED BY <1>1, <1>2 DEF Paper!Close
  <1>4. Close(s, k, y, why).sim = IF ~Held(s, k) THEN s ELSE Sold(s, k, lots, y)
    BY DEF Close, Nothing, Step
  <1>5. BookOf(Sold(s, k, lots, y)) = w
    BY <1>1, SoldAlike
  <1>6. r # Paper!NoRecord
    <2>1. r.side = "SELL" /\ Paper!NoRecord.side = "none"
      BY DEF Paper!Record, Paper!NoRecord
    <2> QED BY <2>1
  <1> HIDE DEF w, r, b
  <1>7. /\ Paper!Nothing(b).book = b /\ Paper!Nothing(b).record = Paper!NoRecord
        /\ Paper!Step(w, <<r>>, r).book = w /\ Paper!Step(w, <<r>>, r).record = r
    BY DEF Paper!Nothing, Paper!Step
  <1> QED BY <1>3, <1>4, <1>5, <1>6, <1>7 DEF b

\* A position that moves, in the account and in the book.
LEMMA MoveAlike ==
  ASSUME NEW s \in Accounts, NEW k \in Keys, NEW q, NEW w, w = [s EXCEPT !.positions[k] = q]
  PROVE  BookOf(w) = [BookOf(s) EXCEPT !.positions[k] = OfPaper(q)]
  <1> DEFINE b == BookOf(s)
             c == s.balance
             n == s.pnl
  <1>1. w = With(s, k, q, c, n)
    BY WithForms
  <1>2. BookOf(With(s, k, q, c, n)) = Booked(b, k, OfPaper(q), c, n)
    BY BookOfWith
  <1>3. Booked(b, k, OfPaper(q), c, n) = [b EXCEPT !.positions[k] = OfPaper(q)]
    <2> DEFINE x == OfPaper(q)
               r == s.reserved
               f == [j \in Keys |-> OfPaper(s.positions[j])]
               g == [j \in Satellites |-> OfOrder(s.pending[j])]
    <2>1. b = [balance |-> c, reserved |-> r, pnl |-> n, positions |-> f, pending |-> g]
      BY BookIs
    <2> HIDE DEF b, c, n, x, r, f, g
    <2> DEFINE b1 == [b EXCEPT !.balance = c]
               b2 == [b1 EXCEPT !.pnl = n]
    <2>2. b1 = b
      BY <2>1
    <2>3. Booked(b, k, x, c, n) = [b2 EXCEPT !.positions[k] = x]
      BY DEF Booked
    <2> HIDE DEF b1
    <2>4. b2 = b
      BY <2>1, <2>2
    <2> QED BY <2>3, <2>4 DEF x
  <1> QED BY <1>1, <1>2, <1>3 DEF b

\* The trailing stop and break-even.
LEMMA MovedAlike ==
  ASSUME NEW s \in Accounts, NEW k \in Scalpers, NEW y \in Nat, NEW e, s.positions[k].ref = e
  PROVE  LET o == BookOf(s).positions[k]
         IN BookOf(Moved(s, k, y))
              = [BookOf(s) EXCEPT !.positions[k] = Paper!BreakEvened(Paper!Trailed(o, e, y), e, y)]
  <1> DEFINE p == s.positions[k]
             r == Trailed(p, e, y)
             q == BreakEvened(r, e, y)
             o == BookOf(s).positions[k]
  <1>1. p \in PosType /\ k \in Keys
    BY AccountFields
  <1>2. Moved(s, k, y) = [s EXCEPT !.positions[k] = q]
    BY AccountFields DEF Moved, SimType
  <1>3. o = OfPaper(p)
    BY <1>1, BookIs
  <1> HIDE DEF p, o
  <1>4. Paper!Trailed(o, e, y) = OfPaper(r)
    BY <1>1, <1>3, RulesAlike
  <1>5. Paper!BreakEvened(OfPaper(r), e, y) = OfPaper(q)
    <2>1. r \in PosType
      BY <1>1, TrailedIsTighter DEF Tighter
    <2> HIDE DEF r
    <2> QED BY <2>1, RulesAlike
  <1> HIDE DEF q, r
  <1>6. BookOf(Moved(s, k, y)) = [BookOf(s) EXCEPT !.positions[k] = OfPaper(q)]
    <2> DEFINE w == Moved(s, k, y)
    <2> HIDE DEF w
    <2>1. w = [s EXCEPT !.positions[k] = q]
      BY <1>2 DEF w
    <2>2. BookOf(w) = [BookOf(s) EXCEPT !.positions[k] = OfPaper(q)]
      BY <1>1, <2>1, MoveAlike
    <2> QED BY <2>2 DEF w
  <1> QED BY <1>4, <1>5, <1>6 DEF o

\* The costs of an account stay.
SameCosts(s, w) == w.fee = s.fee /\ w.slip = s.slip

LEMMA FreeStays == ASSUME NEW s, NEW w, Free(s), SameCosts(s, w) PROVE Free(w)
  BY DEF Free, SameCosts

LEMMA CostsStay ==
  ASSUME NEW s \in Accounts, NEW k, NEW y
  PROVE  /\ SameCosts(s, Moved(s, k, y))
         /\ \A lots : SameCosts(s, Sold(s, k, lots, y))
         /\ \A why : SameCosts(s, Close(s, k, y, why).sim)
         /\ SameCosts(s, PartialClose(s, k, y).sim)
         /\ SameCosts(s, Staged(s, k, y).sim)
  <1>1. s \in SimType
    BY AccountFields
  <1>2. SameCosts(s, Moved(s, k, y))
    BY <1>1 DEF SameCosts, Moved, SimType
  <1>3. ASSUME NEW lots PROVE SameCosts(s, Sold(s, k, lots, y))
    BY <1>1 DEF SameCosts, Sold, SimType
  <1>4. ASSUME NEW why PROVE SameCosts(s, Close(s, k, y, why).sim)
    <2>1. Close(s, k, y, why).sim = s \/ Close(s, k, y, why).sim = Sold(s, k, s.positions[k].qty, y)
      BY DEF Close, Nothing, Step
    <2> QED BY <1>3, <2>1 DEF SameCosts
  <1>5. SameCosts(s, PartialClose(s, k, y).sim)
    <2>1. PartialClose(s, k, y).sim = s \/ PartialClose(s, k, y).sim = Sold(s, k, s.positions[k].qty \div 2, y)
      BY DEF PartialClose, Nothing, Step
    <2> QED BY <1>3, <2>1 DEF SameCosts
  <1>6. SameCosts(s, Staged(s, k, y).sim)
    <2> DEFINE h == PartialClose(s, k, y).sim
    <2>1. Staged(s, k, y).sim = s \/ Staged(s, k, y).sim = [h EXCEPT !.positions[k] = Remainder(@, @.entry)]
      BY DEF Staged, Nothing, Step
    <2>2. SameCosts(s, h) /\ (h = s \/ h = Sold(s, k, s.positions[k].qty \div 2, y))
      BY <1>5 DEF PartialClose, Nothing, Step
    <2>3. SameCosts(s, [h EXCEPT !.positions[k] = Remainder(@, @.entry)])
      <3> DEFINE n == s.positions[k].qty \div 2
                 w == Sold(s, k, n, y)
      <3>1. \E a, d, f : w = [s EXCEPT !.balance = a, !.pnl = d, !.positions[k] = f]
        BY DEF Sold
      <3>2. DOMAIN s = DOMAIN w /\ "fee" \in DOMAIN s /\ "slip" \in DOMAIN s
        BY <1>1, <3>1 DEF SimType
      <3> HIDE DEF n, w, h
      <3>3. "fee" \in DOMAIN h /\ "slip" \in DOMAIN h
        BY <2>2, <3>2 DEF w, n
      <3> QED BY <2>2, <3>3 DEF SameCosts
    <2> QED BY <2>1, <2>3 DEF SameCosts
  <1> QED BY <1>2, <1>3, <1>4, <1>5, <1>6

\* The first stage of an exit.
PaperLeft(b, k, e, y) ==
  LET due == Paper!PartialDue(b.positions[k], e, y)
      half == Paper!PartialClose(b, k, y).book
  IN IF due THEN [half EXCEPT !.positions[k] = Paper!Remainder(@, e)] ELSE b

LEMMA PartialAlike ==
  ASSUME NEW s \in Accounts, Free(s), NEW k \in Keys, NEW y \in Int
  PROVE  BookOf(PartialClose(s, k, y).sim) = Paper!PartialClose(BookOf(s), k, y).book
  <1> DEFINE b == BookOf(s)
             n == s.positions[k].qty
             half == n \div 2
  <1>1. n \in Int /\ b.positions[k].qty = n
    BY BookIs, AccountFields, PosFields DEF OfPaper
  <1>2. Paper!PartialClose(b, k, y).book = IF half = 0 THEN b ELSE Paper!Sold(b, k, half, y)
    <2> HIDE DEF b, n
    <2> QED BY <1>1 DEF Paper!PartialClose, Paper!Nothing, Paper!Step
  <1>3. PartialClose(s, k, y).sim = IF half = 0 THEN s ELSE Sold(s, k, half, y)
    BY DEF PartialClose, Nothing, Step
  <1>4. half \in Int
    <2> HIDE DEF n
    <2> QED BY <1>1
  <1> HIDE DEF half, b
  <1>5. BookOf(Sold(s, k, half, y)) = Paper!Sold(BookOf(s), k, half, y)
    BY <1>4, SoldAlike
  <1> QED BY <1>2, <1>3, <1>5 DEF b

LEMMA StagedAlike ==
  ASSUME NEW s \in Accounts, Free(s), NEW k \in Scalpers, Held(s, k), NEW y \in Nat,
         NEW e, s.positions[k].entry = e
  PROVE  BookOf(Staged(s, k, y).sim) = PaperLeft(BookOf(s), k, e, y)
  <1> DEFINE b == BookOf(s)
             p == s.positions[k]
             o == b.positions[k]
             h == PartialClose(s, k, y).sim
             g == Paper!PartialClose(b, k, y).book
  <1>1. p \in PosType /\ k \in Keys /\ y \in Int
    BY AccountFields
  <1>2. o = OfPaper(p)
    BY <1>1, BookIs
  <1>3. Paper!PartialDue(o, e, y) <=> PartialDue(p, p.entry, y)
    <2> HIDE DEF p, o
    <2>1. Paper!PartialDue(o, e, y) = PartialDue(p, e, y)
      BY <1>1, <1>2, RulesAlike
    <2> QED BY <2>1 DEF p
  <1>4. PaperLeft(b, k, e, y) = IF Paper!PartialDue(o, e, y) THEN [g EXCEPT !.positions[k] = Paper!Remainder(@, e)] ELSE b
    BY DEF PaperLeft
  <1>5. Staged(s, k, y).sim = IF PartialDue(p, p.entry, y) THEN [h EXCEPT !.positions[k] = Remainder(@, @.entry)] ELSE s
    BY DEF Staged, Nothing, Step
  <1>6. BookOf(h) = g
    BY <1>1, PartialAlike
  <1>7. h \in Accounts /\ h.positions[k] \in PosType /\ h.positions[k].entry = e
    <2> DEFINE n == p.qty \div 2
               w == Sold(s, k, n, y)
    <2>1. p.qty \in Int /\ p.qty > 0
      BY <1>1, PosFields DEF Held
    <2>2. n \in Int /\ n # p.qty
      <3> DEFINE m == p.qty
      <3>1. m \in Int /\ m > 0
        BY <2>1
      <3> HIDE DEF m
      <3>2. m \div 2 \in Int /\ m \div 2 # m
        BY <3>1, HalfLeaves
      <3> QED BY <3>2 DEF m
    <2>3. h = s \/ h = w
      BY DEF PartialClose, Nothing, Step
    <2> HIDE DEF n
    <2>4. w \in Accounts /\ w.positions[k] \in PosType /\ w.positions[k].entry = p.entry
      BY <1>1, <2>2, SoldIsAccount
    <2> HIDE DEF h, w
    <2> QED BY <1>1, <2>3, <2>4
  <1> DEFINE q == Remainder(h.positions[k], e)
  <1>8. [h EXCEPT !.positions[k] = Remainder(@, @.entry)] = [h EXCEPT !.positions[k] = q]
    <2> HIDE DEF h
    <2> QED BY <1>1, <1>7, AccountFields DEF SimType
  <1>9. BookOf([h EXCEPT !.positions[k] = q]) = [BookOf(h) EXCEPT !.positions[k] = OfPaper(q)]
    <2> DEFINE w == [h EXCEPT !.positions[k] = q]
    <2>1. w = [h EXCEPT !.positions[k] = q]
      OBVIOUS
    <2> HIDE DEF w, q, h
    <2>2. BookOf(w) = [BookOf(h) EXCEPT !.positions[k] = OfPaper(q)]
      BY <1>1, <1>7, <2>1, MoveAlike
    <2> QED BY <2>2 DEF w
  <1>10. [g EXCEPT !.positions[k] = Paper!Remainder(@, e)] = [g EXCEPT !.positions[k] = OfPaper(q)]
    <2>1. g.positions[k] = OfPaper(h.positions[k])
      <3> HIDE DEF h, g
      <3>1. BookOf(h).positions[k] = OfPaper(h.positions[k])
        BY <1>1, BookIs
      <3> QED BY <1>6, <3>1
    <2> DEFINE r == h.positions[k]
    <2>2. r \in PosType
      BY <1>7
    <2> HIDE DEF r
    <2>3. Paper!Remainder(OfPaper(r), e) = OfPaper(Remainder(r, e))
      BY <2>2, RulesAlike
    <2>4. Paper!Remainder(g.positions[k], e) = OfPaper(q)
      BY <2>1, <2>3 DEF r
    <2>5. \E fp : g.positions = [j \in Keys |-> fp[j]]
      <3> HIDE DEF h, g
      <3>1. BookOf(h).positions = [j \in Keys |-> OfPaper(h.positions[j])]
        BY BookIs
      <3> DEFINE fp == [j \in Keys |-> OfPaper(h.positions[j])]
      <3>2. g.positions = [j \in Keys |-> fp[j]]
        BY <1>6, <3>1
      <3> QED BY <3>2
    <2> HIDE DEF g, q
    <2> QED BY <2>4
  <1> HIDE DEF g, h, q, b, o, p
  <1> QED BY <1>3, <1>4, <1>5, <1>6, <1>8, <1>9, <1>10 DEF b

\* The lots of an even position cost its entry price each.
LEMMA EntryAlike ==
  ASSUME NEW s \in Accounts, Free(s), NEW k \in Keys, k \notin Cores, Held(s, k)
  PROVE  /\ Paper!EntryPrice(OfPaper(s.positions[k])) = s.positions[k].entry
         /\ k \in Scalpers => s.positions[k].ref = s.positions[k].entry
  <1> DEFINE p == s.positions[k]
             n == p.qty
             e == p.entry
             c == p.cost
  <1>1. p \in PosType /\ Fits(s, k, p)
    BY AccountFields
  <1>2. n \in Int /\ n > 0 /\ e \in Int /\ c \in Int
    BY <1>1, PosFields DEF Held
  <1>3. c = n * e /\ (k \in Scalpers => p.ref = p.entry)
    BY <1>1, <1>2 DEF Fits, Even
  <1>4. Paper!EntryPrice(OfPaper(p)) = c \div n
    BY DEF Paper!EntryPrice, OfPaper
  <1> HIDE DEF n, e, c
  <1>5. c \div n = e
    <2> DEFINE lots == 0
    <2>1. lots \in Int
      OBVIOUS
    <2> HIDE DEF lots
    <2> QED BY <1>2, <1>3, <2>1, ShareOfCost
  <1> QED BY <1>3, <1>4, <1>5 DEF e

\* The stops of a tick in the paper trader, as the two steps the simulator makes of them.
PaperExit(left, k, y) ==
  LET why == Paper!ExitReason(left.positions[k], y)
  IN IF why = "none" THEN Paper!Nothing(left) ELSE Paper!Close(left, k, y, why)

LEMMA PaperRisk ==
  ASSUME NEW b, NEW k \in Scalpers, Paper!Held(b, k), k \in DOMAIN b.positions, NEW y, NEW e,
         Paper!EntryPrice(b.positions[k]) = e, NEW m,
         m = [b EXCEPT !.positions[k] = Paper!BreakEvened(Paper!Trailed(b.positions[k], e, y), e, y)],
         "positions" \in DOMAIN b
  PROVE  /\ Paper!CheckRisk(b, k, y).book = PaperExit(PaperLeft(m, k, e, y), k, y).book
         /\ Paper!CheckRisk(b, k, y).record = PaperExit(PaperLeft(m, k, e, y), k, y).record
  <1> DEFINE p == Paper!BreakEvened(Paper!Trailed(b.positions[k], e, y), e, y)
             left == PaperLeft(m, k, e, y)
  <1>1. m.positions[k] = p
    <2> HIDE DEF p
    <2>1. m = [b EXCEPT !.positions[k] = p]
      BY DEF p
    <2> QED BY <2>1
  <1>2. Paper!CheckRisk(b, k, y)
          = LET due   == Paper!PartialDue(p, e, y)
                first == IF due THEN Paper!PartialClose(m, k, y) ELSE Paper!Nothing(m)
                rest  == IF due THEN [first.book EXCEPT !.positions[k] = Paper!Remainder(@, e)] ELSE first.book
                why   == Paper!ExitReason(rest.positions[k], y)
                exit  == IF why = "none" THEN Paper!Nothing(rest) ELSE Paper!Close(rest, k, y, why)
            IN Paper!Step(exit.book, first.rows \o exit.rows, exit.record)
    BY DEF Paper!CheckRisk
  <1> DEFINE due   == Paper!PartialDue(p, e, y)
             first == IF due THEN Paper!PartialClose(m, k, y) ELSE Paper!Nothing(m)
             rest  == IF due THEN [first.book EXCEPT !.positions[k] = Paper!Remainder(@, e)] ELSE first.book
             why   == Paper!ExitReason(rest.positions[k], y)
             exit  == IF why = "none" THEN Paper!Nothing(rest) ELSE Paper!Close(rest, k, y, why)
  <1> HIDE DEF p
  <1>3. rest = left
    <2>1. Paper!Nothing(m).book = m
      BY DEF Paper!Nothing, Paper!Step
    <2> QED BY <1>1, <2>1 DEF PaperLeft
  <1>4. exit = PaperExit(left, k, y)
    <2> HIDE DEF left, rest
    <2> QED BY <1>3 DEF PaperExit
  <1>5. Paper!CheckRisk(b, k, y) = Paper!Step(exit.book, first.rows \o exit.rows, exit.record)
    BY <1>2
  <1> HIDE DEF exit, first, left
  <1> QED BY <1>4, <1>5 DEF Paper!Step, left

LEMMA ExitedAlike ==
  ASSUME NEW l \in Accounts, Free(l), NEW k \in Scalpers, Held(l, k), NEW y \in Nat, NEW step, step.sim = l
  PROVE  LET paper == PaperExit(BookOf(l), k, y)
             w     == Exited(step, k, y, FALSE).sim
         IN /\ BookOf(w) = paper.book
            /\ ~Held(w, k) <=> paper.record # Paper!NoRecord
            /\ SameCosts(l, w)
  <1> DEFINE p == l.positions[k]
             why == ExitReason(p, y)
             b == BookOf(l)
             w == Exited(step, k, y, FALSE).sim
  <1>1. p \in PosType /\ k \in Keys /\ y \in Int
    BY AccountFields
  <1>2. Paper!ExitReason(b.positions[k], y) = why
    <2>1. b.positions[k] = OfPaper(p)
      BY <1>1, BookIs
    <2> HIDE DEF p
    <2>2. Paper!ExitReason(OfPaper(p), y) = ExitReason(p, y)
      BY <1>1, RulesAlike
    <2> QED BY <2>1, <2>2
  <1>3. w = IF why = "none" THEN l ELSE Close(l, k, y, why).sim
    BY DEF Exited, After, Step
  <1>4. PaperExit(b, k, y) = IF why = "none" THEN Paper!Nothing(b) ELSE Paper!Close(b, k, y, why)
    BY <1>2 DEF PaperExit
  <1>5. why \in {"trailing_stop", "stop_loss", "take_profit", "none"}
    BY <1>1, ExitIs
  <1> HIDE DEF why, w
  <1>6. CASE why = "none"
    <2>1. Paper!Nothing(b).book = b /\ Paper!Nothing(b).record = Paper!NoRecord
      BY DEF Paper!Nothing, Paper!Step
    <2> QED BY <1>3, <1>4, <1>6, <2>1 DEF SameCosts, w
  <1>7. CASE why # "none"
    <2>1. why \in Reasons
      BY <1>5, <1>7 DEF Reasons
    <2>2. /\ BookOf(Close(l, k, y, why).sim) = Paper!Close(b, k, y, why).book
          /\ Paper!Close(b, k, y, why).record # Paper!NoRecord
      BY <1>1, CloseAlike
    <2>3. ~Held(Close(l, k, y, why).sim, k)
      BY <1>1, <2>1, CloseIsAccount
    <2>4. SameCosts(l, Close(l, k, y, why).sim)
      BY CostsStay
    <2> QED BY <1>3, <1>4, <1>7, <2>2, <2>3, <2>4 DEF w
  <1> QED BY <1>6, <1>7 DEF w

\* The stops of a tick.
LEMMA CheckRiskAlike ==
  ASSUME NEW s \in Accounts, Free(s), NEW k \in Scalpers, NEW y \in Nat
  PROVE  LET paper == Paper!CheckRisk(BookOf(s), k, y)
             w     == CheckRisk(s, k, y, FALSE).sim
         IN /\ BookOf(w) = paper.book
            /\ (Held(s, k) /\ ~Held(w, k)) <=> paper.record # Paper!NoRecord
            /\ SameCosts(s, w)
  <1> DEFINE b == BookOf(s)
             w == CheckRisk(s, k, y, FALSE).sim
  <1>1. k \in Keys /\ k \notin Cores
    BY AccountFields, SimulatorAssumption
  <1>2. Paper!Held(b, k) = Held(s, k)
    BY <1>1, HeldAlike
  <1>3. CASE ~Held(s, k)
    <2>1. w = s
      BY <1>3 DEF CheckRisk, Nothing, Step
    <2>2. Paper!CheckRisk(b, k, y) = Paper!Nothing(b)
      BY <1>2, <1>3 DEF Paper!CheckRisk
    <2>3. Paper!Nothing(b).book = b /\ Paper!Nothing(b).record = Paper!NoRecord
      BY DEF Paper!Nothing, Paper!Step
    <2> HIDE DEF w
    <2> QED BY <1>3, <2>1, <2>2, <2>3 DEF SameCosts, w
  <1>4. CASE Held(s, k)
    <2> DEFINE p == s.positions[k]
               e == p.entry
               m == Moved(s, k, y)
               st == Staged(m, k, y)
               l == st.sim
               c == BookOf(m)
    <2>1. /\ Paper!EntryPrice(OfPaper(p)) = e /\ p.ref = e /\ b.positions[k] = OfPaper(p)
          /\ p \in PosType
      BY <1>1, <1>4, EntryAlike, BookIs, AccountFields
    <2>2. /\ m \in Accounts /\ m.positions[k].entry = e /\ m.positions[k].qty = p.qty
      BY MovedIsAccount DEF Tighter
    <2>3. Held(m, k) /\ Free(m) /\ SameCosts(s, m)
      <3>1. SameCosts(s, m)
        BY CostsStay
      <3> HIDE DEF m
      <3> QED BY <1>4, <2>2, <3>1, FreeStays DEF Held
    <2>4. c = [b EXCEPT !.positions[k] = Paper!BreakEvened(Paper!Trailed(b.positions[k], e, y), e, y)]
      <3> HIDE DEF e
      <3> QED BY <2>1, MovedAlike
    <2>5. k \in DOMAIN b.positions /\ "positions" \in DOMAIN b
      BY <1>1, BookIs
    <2>6. /\ Paper!CheckRisk(b, k, y).book = PaperExit(PaperLeft(c, k, e, y), k, y).book
          /\ Paper!CheckRisk(b, k, y).record = PaperExit(PaperLeft(c, k, e, y), k, y).record
      <3>1. Paper!EntryPrice(b.positions[k]) = e /\ Paper!Held(b, k)
        BY <1>2, <1>4, <2>1
      <3> HIDE DEF c, e, b
      <3> QED BY <2>4, <2>5, <3>1, PaperRisk
    <2>7. BookOf(l) = PaperLeft(c, k, e, y)
      <3> HIDE DEF m, e
      <3> QED BY <2>2, <2>3, StagedAlike
    <2>8. l \in Accounts /\ Held(l, k) /\ Free(l) /\ SameCosts(s, l)
      <3> HIDE DEF m
      <3>1. l \in Accounts /\ l.positions[k].qty > 0
        BY <2>2, <2>3, StagedIsAccount
      <3>2. SameCosts(m, l)
        BY <2>2, CostsStay
      <3>3. SameCosts(s, l)
        BY <2>3, <3>2 DEF SameCosts
      <3> QED BY <3>1, <3>3, FreeStays DEF Held
    <2>9. w = Exited(st, k, y, FALSE).sim
      BY <1>4 DEF CheckRisk
    <2>10. /\ BookOf(Exited(st, k, y, FALSE).sim) = PaperExit(BookOf(l), k, y).book
           /\ ~Held(Exited(st, k, y, FALSE).sim, k) <=> PaperExit(BookOf(l), k, y).record # Paper!NoRecord
           /\ SameCosts(l, Exited(st, k, y, FALSE).sim)
      <3> DEFINE x == st.sim
      <3>1. x = st.sim /\ x = l
        OBVIOUS
      <3> HIDE DEF st, x
      <3> QED BY <2>8, <3>1, ExitedAlike
    <2> HIDE DEF w, l, st, c, e, m
    <2> QED BY <1>4, <2>6, <2>7, <2>8, <2>9, <2>10 DEF SameCosts, w
  <1> QED BY <1>3, <1>4 DEF w

\* A purchase.
LEMMA BoughtAlike ==
  ASSUME NEW s \in Accounts, NEW k \in Keys, NEW q
  PROVE  BookOf(Bought(s, k, q)) = Paper!Bought(BookOf(s), k, OfPaper(q))
  <1> DEFINE b == BookOf(s)
             c == s.balance - q.cost
             n == s.pnl
             o == OfPaper(q)
  <1>1. Bought(s, k, q) = With(s, k, q, c, n)
    <2>1. Bought(s, k, q) = [s EXCEPT !.balance = c, !.positions[k] = q]
      BY DEF Bought
    <2> HIDE DEF c, n
    <2> QED BY <2>1, WithBalance DEF n
  <1>2. BookOf(With(s, k, q, c, n)) = Booked(b, k, o, c, n)
    BY BookOfWith
  <1>3. Paper!Bought(b, k, o) = Booked(b, k, o, c, n)
    <2> DEFINE a == s.balance
               r == s.reserved
               f == [j \in Keys |-> OfPaper(s.positions[j])]
               g == [j \in Satellites |-> OfOrder(s.pending[j])]
    <2>1. b = [balance |-> a, reserved |-> r, pnl |-> n, positions |-> f, pending |-> g]
      BY BookIs
    <2>2. o.cost = q.cost
      BY DEF OfPaper
    <2> HIDE DEF b, o, a
    <2>3. Paper!Bought(b, k, o) = [b EXCEPT !.balance = c, !.positions[k] = o]
      BY <2>1, <2>2 DEF Paper!Bought, a
    <2> HIDE DEF c, n, r, f, g
    <2> DEFINE b1 == [b EXCEPT !.balance = c]
               b2 == [b1 EXCEPT !.pnl = n]
    <2>4. Booked(b, k, o, c, n) = [b2 EXCEPT !.positions[k] = o]
      BY DEF Booked
    <2>5. Paper!Bought(b, k, o) = [b1 EXCEPT !.positions[k] = o]
      BY <2>3
    <2>6. b1 = [balance |-> c, reserved |-> r, pnl |-> n, positions |-> f, pending |-> g]
      BY <2>1
    <2> HIDE DEF b1
    <2>7. b2 = b1
      BY <2>6
    <2> QED BY <2>4, <2>5, <2>7
  <1> QED BY <1>1, <1>2, <1>3 DEF b, o

LEMMA FirstsAlike ==
  ASSUME NEW y
  PROVE  /\ Paper!FirstStop(y, 0) = FirstStop(y, 0)
         /\ Paper!FirstTarget(y, 0) = FirstTarget(y, 0)
  <1>1. Paper!FirstStop(y, 0) = FirstStop(y, 0)
    BY DEF Paper!FirstStop, FirstStop, Paper!Part, Part
  <1>2. Paper!FirstTarget(y, 0) = FirstTarget(y, 0)
    BY DEF Paper!FirstTarget, FirstTarget, Paper!Part, Part
  <1> QED BY <1>1, <1>2

\* What a new position is in the book.
Lots(n, c, stop, initial, target, high) ==
  [qty : {n}, cost : {c}, stop : {stop}, initial : {initial}, target : {target}, high : {high},
   partialDone : {FALSE}, tierDue : {FALSE}]

LEMMA SameLots ==
  ASSUME NEW n, NEW c, NEW stop, NEW initial, NEW target, NEW high,
         NEW p \in Lots(n, c, stop, initial, target, high), NEW q \in Lots(n, c, stop, initial, target, high)
  PROVE  p = q
  <1> DEFINE no == FALSE
             r == [qty |-> n, cost |-> c, stop |-> stop, initial |-> initial, target |-> target,
                   high |-> high, partialDone |-> no, tierDue |-> no]
             R == [qty : {n}, cost : {c}, stop : {stop}, initial : {initial}, target : {target},
                   high : {high}, partialDone : {no}, tierDue : {no}]
  <1>1. p \in R /\ q \in R
    BY DEF Lots
  <1> HIDE DEF no
  <1>2. ASSUME NEW x \in R PROVE x = r
    OBVIOUS
  <1> HIDE DEF R, r
  <1> QED BY <1>1, <1>2

LEMMA LotsAlike ==
  ASSUME NEW n, NEW c, NEW entry, NEW ref, NEW stop, NEW initial, NEW target, NEW high, NEW now
  PROVE  /\ OfPaper([Flat EXCEPT !.qty = n, !.cost = c, !.entry = entry, !.ref = ref, !.stop = stop,
                                 !.initial = initial, !.target = target, !.high = high, !.since = now])
              \in Lots(n, c, stop, initial, target, high)
         /\ [Paper!Flat EXCEPT !.qty = n, !.cost = c, !.high = high, !.stop = stop, !.initial = initial,
                               !.target = target]
              \in Lots(n, c, stop, initial, target, high)
         /\ OfPaper([Flat EXCEPT !.qty = n, !.cost = c, !.entry = entry, !.high = high, !.since = now])
              \in Lots(n, c, 0, 0, 0, high)
         /\ [Paper!Flat EXCEPT !.qty = n, !.cost = c, !.high = high] \in Lots(n, c, 0, 0, 0, high)
         /\ OfPaper([Flat EXCEPT !.qty = n, !.cost = c, !.entry = entry, !.since = now, !.stop = stop,
                                 !.initial = initial, !.target = target, !.high = high])
              \in Lots(n, c, stop, initial, target, high)
         /\ [Paper!Flat EXCEPT !.qty = n, !.cost = c, !.stop = stop, !.initial = initial, !.high = high,
                               !.target = target]
              \in Lots(n, c, stop, initial, target, high)
  <1> DEFINE q1 == [Flat EXCEPT !.qty = n, !.cost = c, !.entry = entry, !.ref = ref, !.stop = stop,
                                !.initial = initial, !.target = target, !.high = high, !.since = now]
             q2 == [Flat EXCEPT !.qty = n, !.cost = c, !.entry = entry, !.high = high, !.since = now]
             q3 == [Flat EXCEPT !.qty = n, !.cost = c, !.entry = entry, !.since = now, !.stop = stop,
                                !.initial = initial, !.target = target, !.high = high]
             no == FALSE
             L(a, b, d, e) ==
               [qty : {n}, cost : {c}, stop : {a}, initial : {b}, target : {d}, high : {e},
                partialDone : {no}, tierDue : {no}]
  <1>0. /\ Flat = [qty |-> 0, cost |-> 0, entry |-> 0, ref |-> 0, stop |-> 0, initial |-> 0,
                   target |-> 0, high |-> 0, partialDone |-> no, tierDue |-> no, since |-> 0]
        /\ Paper!Flat = [qty |-> 0, cost |-> 0, stop |-> 0, initial |-> 0, target |-> 0, high |-> 0,
                         partialDone |-> no, tierDue |-> no]
        /\ \A a, b, d, e : Lots(n, c, a, b, d, e) = L(a, b, d, e)
    BY DEF Flat, Paper!Flat, Lots
  <1> HIDE DEF no
  <1>1. q1.qty = n /\ q1.cost = c /\ q1.stop = stop /\ q1.initial = initial /\ q1.target = target
        /\ q1.high = high /\ q1.partialDone = no /\ q1.tierDue = no
    BY <1>0
  <1>2. q2.qty = n /\ q2.cost = c /\ q2.stop = 0 /\ q2.initial = 0 /\ q2.target = 0
        /\ q2.high = high /\ q2.partialDone = no /\ q2.tierDue = no
    BY <1>0
  <1>3. q3.qty = n /\ q3.cost = c /\ q3.stop = stop /\ q3.initial = initial /\ q3.target = target
        /\ q3.high = high /\ q3.partialDone = no /\ q3.tierDue = no
    BY <1>0
  <1>4. ASSUME NEW q, NEW a, NEW b, NEW d, NEW e, q.qty = n, q.cost = c, q.stop = a, q.initial = b, q.target = d,
               q.high = e, q.partialDone = no, q.tierDue = no
        PROVE OfPaper(q) \in L(a, b, d, e)
    BY <1>4 DEF OfPaper
  <1>5. [Paper!Flat EXCEPT !.qty = n, !.cost = c, !.high = high, !.stop = stop, !.initial = initial,
                           !.target = target] \in L(stop, initial, target, high)
    BY <1>0
  <1>6. [Paper!Flat EXCEPT !.qty = n, !.cost = c, !.high = high] \in L(0, 0, 0, high)
    BY <1>0
  <1>7. [Paper!Flat EXCEPT !.qty = n, !.cost = c, !.stop = stop, !.initial = initial, !.high = high,
                           !.target = target] \in L(stop, initial, target, high)
    BY <1>0
  <1> HIDE DEF q1, q2, q3, L
  <1>8. OfPaper(q1) \in L(stop, initial, target, high) /\ OfPaper(q3) \in L(stop, initial, target, high)
    BY <1>1, <1>3, <1>4
  <1>9. OfPaper(q2) \in L(0, 0, 0, high)
    BY <1>2, <1>4
  <1> QED BY <1>0, <1>5, <1>6, <1>7, <1>8, <1>9 DEF q1, q2, q3

\* The entry.
LEMMA OpenAlike ==
  ASSUME NEW s \in Accounts, Free(s), NEW k \in Keys, NEW y \in Int, NEW now
  PROVE  BookOf(Open(s, k, y, 0, 0, 0, now).sim) = Paper!Open(BookOf(s), k, y, 0).book
  <1> DEFINE b == BookOf(s)
             lots == Part(s.balance, MaxPositionPct) \div y
             cost == lots * y
             first == FirstStop(y, 0)
             goal == FirstTarget(y, 0)
             q == [Flat EXCEPT !.qty = lots, !.cost = cost, !.entry = y,
                            !.ref = y + Part(y, s.slip),
                            !.stop = first, !.initial = first, !.target = goal,
                            !.high = y, !.since = now]
             o == [Paper!Flat EXCEPT !.qty = lots, !.cost = cost, !.high = y,
                            !.stop = first, !.initial = first, !.target = goal]
  <1>1. Paid(s, y) = y
    BY FreePays
  <1>2. b.balance = s.balance /\ Paper!Held(b, k) = Held(s, k)
    BY BookIs, HeldAlike
  <1>3. Open(s, k, y, 0, 0, 0, now).sim = IF Held(s, k) \/ cost < Floor THEN s ELSE Bought(s, k, q)
    <2>1. ~(0 > 0)
      OBVIOUS
    <2> QED BY <1>1, <2>1 DEF Open, Nothing, Step
  <1>4. Paper!Open(b, k, y, 0).book = IF Held(s, k) \/ cost < Floor THEN b ELSE Paper!Bought(b, k, o)
    <2> DEFINE bal == b.balance
               pl == Paper!Part(bal, MaxPositionPct) \div y
               fs == Paper!FirstStop(y, 0)
               ft == Paper!FirstTarget(y, 0)
               po == [Paper!Flat EXCEPT !.qty = pl, !.cost = pl * y, !.high = y,
                            !.stop = fs, !.initial = fs, !.target = ft]
    <2>1. pl = lots
      BY <1>2 DEF Paper!Part, Part
    <2>2. fs = first /\ ft = goal
      BY FirstsAlike
    <2>3. Paper!Open(b, k, y, 0).book = IF Paper!Held(b, k) \/ pl * y < Floor THEN b ELSE Paper!Bought(b, k, po)
      <3> HIDE DEF b
      <3> QED BY DEF Paper!Open, Paper!Nothing, Paper!Step
    <2> HIDE DEF pl, fs, ft, lots, first, goal, b
    <2> QED BY <1>2, <2>1, <2>2, <2>3
  <1>5. OfPaper(q) = o
    <2> DEFINE u == y + Part(y, s.slip)
    <2> HIDE DEF lots, cost, first, goal, u
    <2>1. /\ OfPaper(q) \in Lots(lots, cost, first, first, goal, y)
          /\ o \in Lots(lots, cost, first, first, goal, y)
      BY LotsAlike DEF u
    <2> HIDE DEF q, o
    <2> QED BY <2>1, SameLots
  <1> HIDE DEF q, o, cost
  <1>6. BookOf(Bought(s, k, q)) = Paper!Bought(b, k, o)
    BY <1>5, BoughtAlike
  <1> QED BY <1>3, <1>4, <1>6 DEF b

\* A tick with a decision.
LEMMA ExecuteAlike ==
  ASSUME NEW s \in Accounts, Free(s), NEW k \in Scalpers, NEW y \in Nat, y > 0, NEW now \in Int,
         NEW d \in {"BUY", "SELL", "HOLD"}
  PROVE  BookOf(Execute(s, k, d, y, 0, 0, 0, now).sim) = Paper!Execute(BookOf(s), k, d, y, 0).book
  <1> DEFINE b == BookOf(s)
             w == CheckRisk(s, k, y, FALSE).sim
             risk == Paper!CheckRisk(b, k, y)
             c == risk.book
             then == IF d = "BUY" THEN Paper!Open(c, k, y, 0)
                     ELSE IF d = "SELL" THEN Paper!Close(c, k, y, "strategy_sell")
                     ELSE Paper!Nothing(c)
             act == Act(w, k, d, y, 0, 0, 0, now)
             over == Held(s, k) /\ ~Held(w, k)
  <1> HIDE DEF then, act
  <1>1. BookOf(w) = c /\ (over <=> risk.record # Paper!NoRecord) /\ SameCosts(s, w)
    <2>1. LET paper == Paper!CheckRisk(BookOf(s), k, y)
              x     == CheckRisk(s, k, y, FALSE).sim
          IN /\ BookOf(x) = paper.book
             /\ (Held(s, k) /\ ~Held(x, k)) <=> paper.record # Paper!NoRecord
             /\ SameCosts(s, x)
      BY CheckRiskAlike, Zenon
    <2> QED BY <2>1, Zenon
  <1>2. w \in Accounts /\ k \in Keys /\ y \in Int
    <2>1. k \in Keys
      BY AccountFields
    <2>2. w \in Accounts
      BY TickIsAccount, Zenon
    <2> HIDE DEF w
    <2> QED BY <2>1, <2>2
  <1>3. Free(w)
    <2> HIDE DEF w
    <2> QED BY <1>1, FreeStays
  <1>4. BookOf(act.sim) = then.book
    <2> HIDE DEF w, c
    <2>1. CASE d = "BUY"
      <3>1. act = Open(w, k, y, 0, 0, 0, now)
        BY <2>1 DEF Act, act
      <3>2. then = Paper!Open(c, k, y, 0)
        BY <2>1 DEF then
      <3>3. BookOf(Open(w, k, y, 0, 0, 0, now).sim) = Paper!Open(BookOf(w), k, y, 0).book
        BY <1>2, <1>3, OpenAlike
      <3> QED BY <1>1, <3>1, <3>2, <3>3 DEF c
    <2>2. CASE d = "SELL"
      <3>1. act = Close(w, k, y, "strategy_sell")
        BY <2>2 DEF Act, act
      <3>2. then = Paper!Close(c, k, y, "strategy_sell")
        BY <2>2 DEF then
      <3> DEFINE why == "strategy_sell"
      <3> HIDE DEF why
      <3>3. BookOf(Close(w, k, y, why).sim) = Paper!Close(BookOf(w), k, y, why).book
        BY <1>2, <1>3, CloseAlike
      <3> QED BY <1>1, <3>1, <3>2, <3>3 DEF c, why
    <2>3. CASE d = "HOLD"
      <3>1. act.sim = w
        BY <2>3 DEF act, Act, Nothing, Step
      <3>2. then.book = c
        BY <2>3 DEF then, Paper!Nothing, Paper!Step
      <3> QED BY <1>1, <3>1, <3>2 DEF c
    <2> QED BY <2>1, <2>2, <2>3
  <1>5. Execute(s, k, d, y, 0, 0, 0, now).sim = IF over THEN w ELSE act.sim
    BY DEF act, Execute, After, Step
  <1>6. Paper!Execute(b, k, d, y, 0).book = IF risk.record # Paper!NoRecord THEN c ELSE then.book
    <2> HIDE DEF b
    <2> QED BY DEF then, Paper!Execute, Paper!Step
  <1> HIDE DEF over, act, then, w, risk
  <1> QED BY <1>1, <1>4, <1>5, <1>6 DEF b

\* The core sleeve's orders.
LEMMA OpenCoreAlike ==
  ASSUME NEW s \in Accounts, Free(s), NEW k \in Cores, NEW y \in Nat, NEW a \in Nat, NEW now
  PROVE  BookOf(OpenCore(s, k, y, a, now).sim) = Paper!OpenCore(BookOf(s), k, y, a).book
  <1> DEFINE b == BookOf(s)
             lots == Min({a, s.balance}) \div y
             cost == lots * y
             q == [Flat EXCEPT !.qty = lots, !.cost = cost, !.entry = y, !.high = y, !.since = now]
             o == [Paper!Flat EXCEPT !.qty = lots, !.cost = cost, !.high = y]
  <1>1. Paid(s, y) = y /\ k \in Keys
    BY FreePays, CoresAre
  <1>2. b.balance = s.balance /\ Paper!Held(b, k) = Held(s, k)
    BY <1>1, BookIs, HeldAlike
  <1>3. OpenCore(s, k, y, a, now).sim = IF Held(s, k) \/ cost < Floor THEN s ELSE Bought(s, k, q)
    BY <1>1 DEF OpenCore, Nothing, Step
  <1>4. Paper!OpenCore(b, k, y, a).book = IF Held(s, k) \/ cost < Floor THEN b ELSE Paper!Bought(b, k, o)
    <2> DEFINE bal == b.balance
               pl == Paper!Min({a, bal}) \div y
               po == [Paper!Flat EXCEPT !.qty = pl, !.cost = pl * y, !.high = y]
    <2>1. pl = lots
      BY <1>2 DEF Paper!Min, Min
    <2>2. Paper!OpenCore(b, k, y, a).book = IF Paper!Held(b, k) \/ pl * y < Floor THEN b ELSE Paper!Bought(b, k, po)
      <3> HIDE DEF b
      <3> QED BY DEF Paper!OpenCore, Paper!Nothing, Paper!Step
    <2> HIDE DEF pl, lots, b
    <2> QED BY <1>2, <2>1, <2>2
  <1>5. OfPaper(q) = o
    <2> HIDE DEF lots, cost
    <2>1. OfPaper(q) \in Lots(lots, cost, 0, 0, 0, y) /\ o \in Lots(lots, cost, 0, 0, 0, y)
      BY LotsAlike
    <2> HIDE DEF q, o
    <2> QED BY <2>1, SameLots
  <1> HIDE DEF q, o, cost
  <1>6. BookOf(Bought(s, k, q)) = Paper!Bought(b, k, o)
    BY <1>1, <1>5, BoughtAlike
  <1> QED BY <1>3, <1>4, <1>6 DEF b

LEMMA GrowCoreAlike ==
  ASSUME NEW s \in Accounts, Free(s), NEW k \in Cores, NEW y \in Nat, NEW a \in Nat
  PROVE  BookOf(GrowCore(s, k, y, a).sim) = Paper!GrowCore(BookOf(s), k, y, a).book
  <1> DEFINE b == BookOf(s)
             lots == Min({a, s.balance}) \div y
             spent == lots * y
             p == s.positions[k]
             o == OfPaper(p)
             qty == p.qty + lots
             cost == p.cost + spent
             entry == cost \div qty
             cash == s.balance - spent
             n == s.pnl
             q == [p EXCEPT !.qty = qty, !.cost = cost, !.entry = entry]
             refused == ~Held(s, k) \/ spent < Floor
  <1>1. Paid(s, y) = y /\ k \in Keys /\ p \in PosType
    BY FreePays, CoresAre, AccountFields
  <1>2. b.balance = s.balance /\ Paper!Held(b, k) = Held(s, k) /\ b.positions[k] = o
    BY <1>1, BookIs, HeldAlike
  <1>3. GrowCore(s, k, y, a).sim = IF refused THEN s ELSE With(s, k, q, cash, n)
    <2>1. GrowCore(s, k, y, a).sim = IF refused THEN s ELSE [s EXCEPT !.balance = cash, !.positions[k] = q]
      BY <1>1, AccountFields DEF GrowCore, Nothing, Step, SimType, PosType
    <2> HIDE DEF cash, q, refused
    <2> QED BY <1>1, <2>1, WithBalance
  <1>4. Paper!GrowCore(b, k, y, a).book
          = IF refused THEN b ELSE [b EXCEPT !.balance = cash, !.positions[k].qty = qty, !.positions[k].cost = cost]
    <2> DEFINE bal == b.balance
               pl == Paper!Min({a, bal}) \div y
    <2>1. pl = lots
      BY <1>2 DEF Paper!Min, Min
    <2>2. Paper!GrowCore(b, k, y, a).book
            = IF ~Paper!Held(b, k) \/ pl * y < Floor THEN b
              ELSE [b EXCEPT !.balance = @ - pl * y, !.positions[k].qty = @ + pl, !.positions[k].cost = @ + pl * y]
      <3> HIDE DEF b
      <3> QED BY DEF Paper!GrowCore, Paper!Nothing, Paper!Step
    <2>3. [b EXCEPT !.balance = @ - lots * y, !.positions[k].qty = @ + lots, !.positions[k].cost = @ + lots * y]
            = [b EXCEPT !.balance = cash, !.positions[k].qty = qty, !.positions[k].cost = cost]
      <3>1. b.positions[k].qty = p.qty /\ b.positions[k].cost = p.cost
        BY <1>2 DEF OfPaper
      <3>2. \E v, w, x, f, g : b = [balance |-> v, reserved |-> w, pnl |-> x, positions |-> f, pending |-> g]
        BY BookIs
      <3> HIDE DEF b, lots
      <3> QED BY <1>1, <1>2, <3>1, <3>2
    <2> HIDE DEF pl, lots, b
    <2> QED BY <1>2, <2>1, <2>2, <2>3
  <1>5. [b EXCEPT !.balance = cash, !.positions[k].qty = qty, !.positions[k].cost = cost]
          = Booked(b, k, Shrunk(o, qty, cost), cash, n)
    <2> DEFINE r == s.reserved
               e == s.balance
               f == [j \in Keys |-> OfPaper(s.positions[j])]
               g == [j \in Satellites |-> OfOrder(s.pending[j])]
               h == [f EXCEPT ![k] = Shrunk(o, qty, cost)]
    <2>1. b = [balance |-> e, reserved |-> r, pnl |-> n, positions |-> f, pending |-> g] /\ f[k] = o
          /\ f = [j \in Keys |-> f[j]]
      BY <1>1, BookIs
    <2> DEFINE b1 == [b EXCEPT !.balance = cash]
               b2 == [b1 EXCEPT !.positions[k].qty = qty]
               b3 == [b2 EXCEPT !.positions[k].cost = cost]
               c2 == [b1 EXCEPT !.pnl = n]
               c3 == [c2 EXCEPT !.positions[k] = Shrunk(o, qty, cost)]
    <2>2. [b EXCEPT !.balance = cash, !.positions[k].qty = qty, !.positions[k].cost = cost] = b3
      OBVIOUS
    <2>3. Booked(b, k, Shrunk(o, qty, cost), cash, n) = c3
      BY DEF Booked
    <2> HIDE DEF b, o, e, r, n, f, g, cash, qty, cost
    <2>4. b1 = [balance |-> cash, reserved |-> r, pnl |-> n, positions |-> f, pending |-> g]
      BY <2>1
    <2> HIDE DEF b1
    <2> DEFINE o1 == [o EXCEPT !.qty = qty]
               o2 == [o1 EXCEPT !.cost = cost]
               f1 == [f EXCEPT ![k] = o1]
    <2>5. b2 = [balance |-> cash, reserved |-> r, pnl |-> n, positions |-> f1, pending |-> g]
      BY <1>1, <2>1, <2>4
    <2>6. f1[k] = o1 /\ [f1 EXCEPT ![k] = o2] = [f EXCEPT ![k] = o2]
      BY <1>1, <2>1
    <2> HIDE DEF b2, f1, o1
    <2>7. b3 = [balance |-> cash, reserved |-> r, pnl |-> n, positions |-> [f1 EXCEPT ![k] = o2], pending |-> g]
      BY <1>1, <2>5, <2>6
    <2>8. c2 = b1
      BY <2>4
    <2>9. c3 = [balance |-> cash, reserved |-> r, pnl |-> n, positions |-> h, pending |-> g]
      <3> HIDE DEF c2
      <3> QED BY <2>4, <2>8
    <2>10. Shrunk(o, qty, cost) = o2
      BY DEF Shrunk, o1
    <2> HIDE DEF b3, c3, o2
    <2> QED BY <2>2, <2>3, <2>6, <2>7, <2>9, <2>10
  <1>6. OfPaper(q) = Shrunk(o, qty, cost)
    <2> HIDE DEF qty, cost, entry, p
    <2>1. Shrunk(o, qty, cost) = OfPaper(Shrunk(p, qty, cost))
      BY <1>1, ChangesAlike
    <2>2. OfPaper(Shrunk(p, qty, cost)) = OfPaper(q)
      BY <1>1 DEF Shrunk, OfPaper, PosType
    <2> QED BY <2>1, <2>2
  <1>7. BookOf(With(s, k, q, cash, n)) = Booked(b, k, OfPaper(q), cash, n)
    BY <1>1, BookOfWith
  <1> HIDE DEF q, qty, cost, cash, n, refused, b, o
  <1> QED BY <1>3, <1>4, <1>5, <1>6, <1>7 DEF b

LEMMA TrimCoreAlike ==
  ASSUME NEW s \in Accounts, Free(s), NEW k \in Cores, NEW y \in Nat, y > 0, NEW a \in Nat
  PROVE  BookOf(TrimCore(s, k, y, a).sim) = Paper!TrimCore(BookOf(s), k, y, a).book
  <1> DEFINE b == BookOf(s)
             n == s.positions[k].qty
             d == a \div y
             lots == Min({d, n})
             refused == ~Held(s, k) \/ lots * y < Floor
             whole == Close(s, k, y, "core").sim
             part == Sold(s, k, lots, y)
             all == Paper!Close(b, k, y, "core").book
             some == Paper!Sold(b, k, lots, y)
  <1>1. k \in Keys /\ n \in Int /\ d \in Int /\ y \in Int
    <2>1. k \in Keys
      BY CoresAre
    <2> QED BY <2>1, AccountFields, PosFields
  <1>2. b.positions[k].qty = n /\ Paper!Held(b, k) = Held(s, k)
    BY <1>1, BookIs, HeldAlike DEF OfPaper
  <1>3. TrimCore(s, k, y, a).sim = IF refused THEN s ELSE IF lots = n THEN whole ELSE part
    BY DEF TrimCore, CloseCore, Nothing, Step
  <1>4. Paper!TrimCore(b, k, y, a).book = IF refused THEN b ELSE IF lots = n THEN all ELSE some
    <2> DEFINE m == b.positions[k].qty
               pl == Paper!Min({d, m})
    <2>1. pl = lots
      BY <1>2 DEF Paper!Min, Min
    <2>2. Paper!TrimCore(b, k, y, a).book
            = IF ~Paper!Held(b, k) \/ pl * y < Floor THEN b
              ELSE IF pl = m THEN all ELSE Paper!Sold(b, k, pl, y)
      <3> HIDE DEF b
      <3> QED BY DEF Paper!TrimCore, Paper!CloseCore, Paper!Nothing, Paper!Step
    <2> HIDE DEF pl, lots, b, n, all
    <2> QED BY <1>2, <2>1, <2>2
  <1>5. lots \in Int
    <2> HIDE DEF d, n
    <2> QED BY <1>1, LesserOfTwo
  <1>6. BookOf(whole) = all
    <2> DEFINE why == "core"
    <2> HIDE DEF why
    <2>1. BookOf(Close(s, k, y, why).sim) = Paper!Close(b, k, y, why).book
      BY <1>1, CloseAlike
    <2> QED BY <2>1 DEF why
  <1>7. BookOf(part) = some
    <2> HIDE DEF lots
    <2> QED BY <1>1, <1>5, SoldAlike
  <1> HIDE DEF whole, all, part, some, refused, lots
  <1> QED BY <1>3, <1>4, <1>6, <1>7 DEF b

\* A cancelled order.
LEMMA CancelAlike ==
  ASSUME NEW s \in Accounts, NEW k \in Satellites
  PROVE  BookOf(CancelSatelliteOrder(s, k)) = Paper!CancelSatelliteOrder(BookOf(s), k)
  <1> DEFINE r == s.pending[k].reserve
             cash == s.balance + r
             rest == s.reserved - r
             w == CancelSatelliteOrder(s, k)
             b == BookOf(s)
             F(x) == [j \in Keys |-> OfPaper(x.positions[j])]
             G(x) == [j \in Satellites |-> OfOrder(x.pending[j])]
             f == F(s)
             g == G(s)
             n == s.pnl
  <1>1. /\ w.balance = cash /\ w.reserved = rest /\ w.pnl = n /\ w.positions = s.positions
        /\ w.pending = [s.pending EXCEPT ![k] = NoOrder]
    BY AccountFields DEF CancelSatelliteOrder, SimType
  <1>2. BookOf(w) = [balance |-> cash, reserved |-> rest, pnl |-> n, positions |-> f, pending |-> G(w)]
    <2> HIDE DEF w
    <2>1. BookOf(w) = [balance |-> w.balance, reserved |-> w.reserved, pnl |-> w.pnl, positions |-> F(w), pending |-> G(w)]
      BY BookIs
    <2>2. F(w) = f
      BY <1>1
    <2> DEFINE x == G(w)
    <2>3. BookOf(w) = [balance |-> w.balance, reserved |-> w.reserved, pnl |-> w.pnl, positions |-> f, pending |-> x]
      BY <2>1, <2>2
    <2> HIDE DEF f, x, cash, rest, n
    <2> QED BY <1>1, <2>3 DEF x
  <1>3. G(w) = [g EXCEPT ![k] = Paper!NoOrder]
    <2>1. s.pending \in [Satellites -> RestType]
      BY AccountFields
    <2> HIDE DEF w
    <2>2. \A j \in Satellites : w.pending[j] = IF j = k THEN NoOrder ELSE s.pending[j]
      BY <1>1, <2>1
    <2>3. OfOrder(NoOrder) = Paper!NoOrder
      BY DEF OfOrder, NoOrder, Paper!NoOrder
    <2> QED BY <2>2, <2>3
  <1>4. Paper!CancelSatelliteOrder(b, k)
          = [balance |-> cash, reserved |-> rest, pnl |-> n, positions |-> f, pending |-> [g EXCEPT ![k] = Paper!NoOrder]]
    <2> DEFINE o == OfOrder(s.pending[k])
               c1 == s.balance
               c2 == s.reserved
               x == Paper!NoOrder
    <2>1. b = [balance |-> c1, reserved |-> c2, pnl |-> n, positions |-> f, pending |-> g]
          /\ b.pending[k] = o /\ g = [j \in Satellites |-> g[j]]
      BY BookIs
    <2>2. o.reserve = r
      BY DEF OfOrder
    <2>3. Paper!CancelSatelliteOrder(b, k) = [b EXCEPT !.balance = cash, !.reserved = rest, !.pending[k] = x]
      <3> HIDE DEF b, o, r, f, g, n
      <3> QED BY <2>1, <2>2 DEF Paper!CancelSatelliteOrder
    <2> HIDE DEF b, f, g, n, c1, c2, cash, rest, x, o, r
    <2> DEFINE b1 == [b EXCEPT !.balance = cash]
               b2 == [b1 EXCEPT !.reserved = rest]
               b3 == [b2 EXCEPT !.pending[k] = x]
    <2>4. [b EXCEPT !.balance = cash, !.reserved = rest, !.pending[k] = x] = b3
      OBVIOUS
    <2>5. b1 = [balance |-> cash, reserved |-> c2, pnl |-> n, positions |-> f, pending |-> g]
      BY <2>1
    <2> HIDE DEF b1
    <2>6. b2 = [balance |-> cash, reserved |-> rest, pnl |-> n, positions |-> f, pending |-> g]
      BY <2>5
    <2> HIDE DEF b2
    <2>7. b3 = [balance |-> cash, reserved |-> rest, pnl |-> n, positions |-> f, pending |-> [g EXCEPT ![k] = x]]
      BY <2>6
    <2> HIDE DEF b3
    <2> QED BY <2>3, <2>4, <2>7 DEF x
  <1> HIDE DEF w, b, f, cash, rest, n
  <1> QED BY <1>2, <1>3, <1>4 DEF w, b

\* The rules of a satellite read the same of a position in the book.
Kept(p, y, x, due) == [p EXCEPT !.high = y, !.stop = x, !.tierDue = due]

LEMMA KeptAlike ==
  ASSUME NEW p \in PosType, NEW x, NEW y, NEW due
  PROVE  Kept(OfPaper(p), y, x, due) = OfPaper(Kept(p, y, x, due))
  <1> DEFINE r == Raised(p, y, x)
             q == Kept(p, y, x, due)
             o == OfPaper(p)
             v == Raised(o, y, x)
  <1>1. v = OfPaper(r)
    BY ChangesAlike
  <1>2. /\ q.qty = r.qty /\ q.cost = r.cost /\ q.stop = r.stop /\ q.initial = r.initial /\ q.target = r.target
        /\ q.high = r.high /\ q.partialDone = r.partialDone /\ q.tierDue = due
    BY DEF Kept, Raised, PosType
  <1>3. Kept(o, y, x, due) = [v EXCEPT !.tierDue = due]
    BY DEF Kept, Raised
  <1> HIDE DEF v, o, q, r
  <1>4. v = [qty |-> r.qty, cost |-> r.cost, stop |-> r.stop, initial |-> r.initial, target |-> r.target,
             high |-> r.high, partialDone |-> r.partialDone, tierDue |-> r.tierDue]
    BY <1>1 DEF OfPaper
  <1>5. [v EXCEPT !.tierDue = due]
          = [qty |-> r.qty, cost |-> r.cost, stop |-> r.stop, initial |-> r.initial, target |-> r.target,
             high |-> r.high, partialDone |-> r.partialDone, tierDue |-> due]
    BY <1>4
  <1>6. OfPaper(q) = [v EXCEPT !.tierDue = due]
    BY <1>2, <1>5 DEF OfPaper
  <1> QED BY <1>3, <1>6 DEF o, q

LEMMA SatelliteRulesAlike ==
  ASSUME NEW p \in PosType, NEW e, NEW obs
  PROVE  /\ Paper!SatelliteExit(OfPaper(p), e, obs) = SatelliteExit(p, e, obs)
         /\ Paper!SatelliteKept(OfPaper(p), e, obs) = OfPaper(SatelliteKept(p, e, obs))
  <1>1. Paper!SatelliteExit(OfPaper(p), e, obs) = SatelliteExit(p, e, obs)
    <2> DEFINE o == OfPaper(p)
    <2>1. o.stop = p.stop /\ o.target = p.target /\ o.tierDue = p.tierDue
      BY DEF OfPaper
    <2> HIDE DEF o
    <2> QED BY <2>1 DEF Paper!SatelliteExit, SatelliteExit, Paper!Min, Min, Paper!Max, Max, o
  <1>2. Paper!SatelliteKept(OfPaper(p), e, obs) = OfPaper(SatelliteKept(p, e, obs))
    <2> DEFINE o == OfPaper(p)
               top == Max({p.high, obs.high})
               x == IF top >= e + (e - p.initial) THEN Max({p.stop, e}) ELSE p.stop
               due == obs.weak
    <2>1. o.stop = p.stop /\ o.high = p.high /\ o.initial = p.initial
      BY DEF OfPaper
    <2>2. SatelliteKept(p, e, obs) = Kept(p, top, x, due)
      BY DEF SatelliteKept, Kept, PosType
    <2>3. Paper!SatelliteKept(o, e, obs) = Kept(o, top, x, due)
      <3>1. "stop" \in DOMAIN o
        BY DEF OfPaper
      <3> HIDE DEF o
      <3> QED BY <2>1, <3>1 DEF Paper!SatelliteKept, Kept, Paper!Max, Max
    <2> HIDE DEF top, x, due
    <2>4. Kept(OfPaper(p), top, x, due) = OfPaper(Kept(p, top, x, due))
      BY KeptAlike
    <2> QED BY <2>2, <2>3, <2>4
  <1> QED BY <1>1, <1>2

LEMMA PlansAlike ==
  ASSUME NEW fill, NEW stop
  PROVE  Paper!SatellitePlan(fill, stop) = SatellitePlan(fill, stop)
  BY DEF Paper!SatellitePlan, SatellitePlan

\* The bar of one price.
FlatBar(y) == [open |-> y, low |-> y, high |-> y, close |-> y]

\* An order that fills.
LEMMA FilledAlike ==
  ASSUME NEW s \in Accounts, Free(s), NEW k \in Satellites, NEW now \in Int, Waiting(s, k)
  PROVE  LET b    == BookOf(s)
             o    == b.pending[k]
             lots == o.reserve \div o.limit
         IN /\ BookOf(Filled(s, k, now))
                 = Paper!Bought(Paper!CancelSatelliteOrder(b, k), k, Paper!Filled(o, lots))
            /\ Filling(s, k, now).high = s.pending[k].limit
  <1> DEFINE b == BookOf(s)
             o == s.pending[k]
             limit == o.limit
             stop == o.stop
             lots == o.reserve \div limit
             cost == lots * limit
             plan == SatellitePlan(limit, stop)
             first == plan.stop
             initial == plan.initial
             goal == plan.target
             high == plan.high
             q == [Flat EXCEPT !.qty = lots, !.cost = cost, !.entry = limit, !.since = now,
                               !.stop = first, !.initial = initial, !.target = goal, !.high = high]
             x == [Paper!Flat EXCEPT !.qty = lots, !.cost = cost, !.stop = first, !.initial = initial,
                                     !.high = high, !.target = goal]
             w == CancelSatelliteOrder(s, k)
  <1>1. k \in Keys /\ limit \in Int /\ s.fee = 0
    BY SatellitesAre, FilledIsAccount, FreeIs
  <1>2. limit + Part(limit, s.fee) = limit
    BY <1>1, PartOfNone
  <1>3. Filling(s, k, now) = q
    BY <1>2 DEF Filling
  <1>4. b.pending[k].reserve = o.reserve /\ b.pending[k].limit = limit /\ b.pending[k].stop = stop
    BY BookIs DEF OfOrder
  <1>5. Paper!Filled(b.pending[k], b.pending[k].reserve \div b.pending[k].limit) = x
    <2> DEFINE y == b.pending[k]
    <2>1. y.reserve \div y.limit = lots /\ y.limit = limit /\ y.stop = stop
      BY <1>4
    <2>2. Paper!SatellitePlan(limit, stop) = plan
      BY PlansAlike
    <2> HIDE DEF y, lots, limit, stop
    <2>3. Paper!Filled(y, lots) = x
      BY <2>1, <2>2 DEF Paper!Filled
    <2> QED BY <2>1, <2>3 DEF y
  <1>6. OfPaper(q) = x
    <2> HIDE DEF lots, cost, limit, first, initial, goal, high
    <2>1. OfPaper(q) \in Lots(lots, cost, first, initial, goal, high)
      BY LotsAlike
    <2>2. x \in Lots(lots, cost, first, initial, goal, high)
      BY LotsAlike
    <2> HIDE DEF q, x
    <2> QED BY <2>1, <2>2, SameLots
  <1>7. q.high = limit
    <2>1. q.high = high
      BY DEF Flat
    <2>2. high = limit
      BY DEF SatellitePlan
    <2> HIDE DEF q, high, limit
    <2> QED BY <2>1, <2>2
  <1>8. w \in Accounts /\ BookOf(w) = Paper!CancelSatelliteOrder(b, k)
    BY CancelIsAccount, CancelAlike
  <1> HIDE DEF q, x, w
  <1>9. BookOf(Bought(w, k, q)) = Paper!Bought(BookOf(w), k, OfPaper(q))
    BY <1>1, <1>8, BoughtAlike
  <1>10. Filled(s, k, now) = Bought(w, k, q)
    BY <1>3 DEF Filled, w
  <1> DEFINE c == Filled(s, k, now)
             fill == Paper!Filled(b.pending[k], b.pending[k].reserve \div b.pending[k].limit)
  <1>11. BookOf(c) = Paper!Bought(Paper!CancelSatelliteOrder(b, k), k, fill)
    <2> HIDE DEF fill, c, b
    <2> QED BY <1>5, <1>6, <1>8, <1>9, <1>10 DEF fill, c
  <1> QED BY <1>3, <1>7, <1>11

\* A position that keeps its high-water mark is the same.
LEMMA SameHigh ==
  ASSUME NEW s \in Accounts, NEW k \in Keys, NEW top, s.positions[k].high = top
  PROVE  [s EXCEPT !.positions[k].high = top] = s
  <1> DEFINE f == s.positions
             p == f[k]
  <1>1. s \in SimType /\ f \in [Keys -> PosType] /\ p \in PosType
    BY AccountFields
  <1>2. [p EXCEPT !.high = top] = p
    <2> HIDE DEF p
    <2> QED BY <1>1 DEF PosType, p
  <1>3. [f EXCEPT ![k].high = top] = f
    <2>1. [f EXCEPT ![k].high = top] = [f EXCEPT ![k] = [p EXCEPT !.high = top]]
      OBVIOUS
    <2> HIDE DEF f
    <2> QED BY <1>1, <1>2, <2>1
  <1>4. [s EXCEPT !.positions[k].high = top] = [s EXCEPT !.positions = [f EXCEPT ![k].high = top]]
    OBVIOUS
  <1>5. [s EXCEPT !.positions = f] = s
    BY <1>1 DEF SimType
  <1> HIDE DEF f
  <1> QED BY <1>3, <1>4, <1>5

LEMMA FillAlike ==
  ASSUME NEW s \in Accounts, Free(s), NEW k \in Satellites, NEW now \in Int, NEW y \in Nat, Waiting(s, k),
         y <= s.pending[k].limit
  PROVE  BookOf(FillSatellite(s, k, FlatBar(y), now).sim) = Paper!FillSatellite(BookOf(s), k, y).book
  <1> DEFINE b == BookOf(s)
             limit == s.pending[k].limit
             stop == s.pending[k].stop
             c == Filled(s, k, now)
             level == Min({stop, y})
             top == Max({limit, y})
             why == "sat_stop"
             sale == Close(c, k, level, why).sim
             high == [c EXCEPT !.positions[k].high = top]
             o == b.pending[k]
             pc == Paper!Bought(Paper!CancelSatelliteOrder(b, k), k, Paper!Filled(o, o.reserve \div o.limit))
             all == Paper!Close(pc, k, y, why).book
  <1>1. k \in Keys /\ y \in Int /\ limit \in Int /\ stop \in Int /\ c \in Accounts /\ c.positions[k] = Filling(s, k, now)
    BY SatellitesAre, FilledIsAccount
  <1>2. BookOf(c) = pc /\ Filling(s, k, now).high = limit
    BY FilledAlike
  <1>3. o.stop = stop
    BY BookIs DEF OfOrder
  <1>4. Free(c) /\ FillSatellite(s, k, FlatBar(y), now).sim = IF y <= stop THEN sale ELSE high
    <2>1. SameCosts(s, c)
      <3> DEFINE w == CancelSatelliteOrder(s, k)
      <3>1. w \in Accounts /\ SameCosts(s, w)
        BY CancelIsAccount DEF SameCosts
      <3>2. c = Bought(w, k, Filling(s, k, now))
        BY DEF Filled
      <3> HIDE DEF w, c
      <3>3. c = [w EXCEPT !.balance = @ - Filling(s, k, now).cost, !.positions[k] = Filling(s, k, now)]
        BY <3>2 DEF Bought
      <3> QED BY <3>1, <3>3, AccountFields DEF SameCosts, SimType
    <2>2. FillSatellite(s, k, FlatBar(y), now).sim = IF y <= stop THEN sale ELSE high
      BY DEF FillSatellite, Filled, Filling, FlatBar, Step
    <2> HIDE DEF c
    <2> QED BY <2>1, <2>2, FreeStays
  <1>5. Paper!FillSatellite(b, k, y).book = IF y <= stop THEN all ELSE pc
    <2> HIDE DEF b
    <2> QED BY <1>3 DEF Paper!FillSatellite, Paper!Step
  <1> HIDE DEF limit, stop, c, pc, why
  <1>6. CASE y <= stop
    <2>1. level = y
      BY <1>1, <1>6, LesserOfTwo
    <2> HIDE DEF level
    <2>2. BookOf(Close(c, k, level, why).sim) = Paper!Close(BookOf(c), k, level, why).book
      BY <1>1, <1>4, <2>1, CloseAlike
    <2> QED BY <1>2, <1>4, <1>5, <1>6, <2>1, <2>2
  <1>7. CASE ~(y <= stop)
    <2>1. top = limit
      <3>1. top = IF limit >= y THEN limit ELSE y
        BY <1>1, LesserOfTwo
      <3>2. y <= limit
        BY DEF limit
      <3> HIDE DEF top
      <3> QED BY <1>1, <3>1, <3>2
    <2> HIDE DEF top
    <2>2. high = c
      BY <1>1, <1>2, <2>1, SameHigh
    <2> HIDE DEF high, sale, all
    <2> QED BY <1>2, <1>4, <1>5, <1>7, <2>2
  <1> QED BY <1>6, <1>7

\* A flat bar is a tick of the satellite.
LEMMA SatelliteAlike ==
  ASSUME NEW s \in Accounts, Free(s), NEW k \in Satellites, NEW y \in Nat, t \in Int,
         Waiting(s, k) \/ t > s.positions[k].since
  PROVE  LET late == IF Waiting(s, k) THEN t >= s.pending[k].validUntil
                     ELSE t >= s.positions[k].since + TimeLimit
         IN BookOf(SatelliteBar(s, k, FlatBar(y), t, FALSE).sim)
              = Paper!SatelliteTick(BookOf(s), k, y, IF late THEN "late" ELSE "tick").book
  <1> DEFINE b == BookOf(s)
             o == s.pending[k]
             p == s.positions[k]
             bar == FlatBar(y)
             over == t >= p.since + TimeLimit
             ended == t >= o.validUntil
             late == IF Waiting(s, k) THEN ended ELSE over
             event == IF late THEN "late" ELSE "tick"
             w == CancelSatelliteOrder(s, k)
             weak == FALSE /\ (t + 1) % HourBars = 0 /\ y > p.entry
             obs == [open |-> y, low |-> y, high |-> y, close |-> y, late |-> over, weak |-> weak]
             e == p.entry
             exit == SatelliteExit(p, e, obs)
             kept == SatelliteKept(p, e, obs)
             step == SatelliteBar(s, k, bar, t, FALSE)
             tick == [open |-> y, low |-> y, high |-> y, close |-> y, late |-> event = "late", weak |-> event = "weak"]
             pe == Paper!EntryPrice(b.positions[k])
             pexit == Paper!SatelliteExit(b.positions[k], pe, tick)
             pkept == Paper!SatelliteKept(b.positions[k], pe, tick)
             paper == Paper!SatelliteTick(b, k, y, event)
  <1>1. /\ k \in Keys /\ k \notin Scalpers /\ k \notin Cores /\ p \in PosType /\ o \in RestType /\ y \in Int
        /\ b.positions[k] = OfPaper(p) /\ b.pending[k].reserve = o.reserve /\ b.pending[k].limit = o.limit
    BY SatellitesAre, SimulatorAssumption, AccountFields, BookIs DEF OfOrder
  <1>2. Paper!Held(b, k) = Held(s, k) /\ Paper!Waiting(b, k) = Waiting(s, k)
    BY <1>1, HeldAlike DEF Paper!Waiting, Waiting
  <1>3. step =
          IF Waiting(s, k)
          THEN IF t < o.placedAt THEN Nothing(s)
               ELSE IF ended THEN Nothing(w)
               ELSE IF y > o.limit THEN Nothing(s)
               ELSE FillSatellite(s, k, bar, t)
          ELSE IF ~Held(s, k) \/ t <= p.since THEN Nothing(s)
          ELSE IF exit.reason = "none" THEN Nothing([s EXCEPT !.positions[k] = kept])
          ELSE Close(s, k, exit.price, exit.reason)
    BY DEF SatelliteBar, FlatBar
  <1>4. paper =
          IF Waiting(s, k)
          THEN IF event = "late" THEN Paper!Nothing(Paper!CancelSatelliteOrder(b, k))
               ELSE IF y > o.limit THEN Paper!Nothing(b)
               ELSE Paper!FillSatellite(b, k, y)
          ELSE IF ~Held(s, k) THEN Paper!Nothing(b)
          ELSE IF pexit.reason = "none" THEN Paper!Nothing([b EXCEPT !.positions[k] = pkept])
          ELSE Paper!Close(b, k, pexit.price, pexit.reason)
    <2> HIDE DEF b, event
    <2> QED BY <1>1, <1>2 DEF Paper!SatelliteTick
  <1>5. (event = "late" <=> late) /\ event # "weak"
    OBVIOUS
  <1>6. \A x : Nothing(x).sim = x /\ Paper!Nothing(x).book = x
    BY DEF Nothing, Step, Paper!Nothing, Paper!Step
  <1>7. CASE Waiting(s, k)
    <2>1. ~(t < o.placedAt)
      <3>1. o.placedAt <= t
        BY <1>7 DEF Waiting, Accounts, Rests
      <3> DEFINE at == o.placedAt
      <3>2. at \in Int /\ at <= t
        BY <1>1, <3>1, RestFields
      <3> HIDE DEF at
      <3>3. ~(t < at)
        BY <3>2
      <3> QED BY <3>3 DEF at
    <2>2. BookOf(w) = Paper!CancelSatelliteOrder(b, k)
      BY CancelAlike
    <2>3. ~(y > o.limit) => BookOf(FillSatellite(s, k, bar, t).sim) = Paper!FillSatellite(b, k, y).book
      <3> SUFFICES ASSUME ~(y > o.limit) PROVE BookOf(FillSatellite(s, k, bar, t).sim) = Paper!FillSatellite(b, k, y).book
        OBVIOUS
      <3> DEFINE limit == o.limit
      <3>1. limit \in Int
        BY <1>1, RestFields
      <3> HIDE DEF limit
      <3>2. y <= limit
        BY <3>1 DEF limit
      <3> QED BY <1>7, <3>2, FillAlike DEF limit
    <2> HIDE DEF w, step, paper, b, event, ended, bar
    <2>4. ended <=> event = "late"
      BY <1>5, <1>7
    <2>5. BookOf(step.sim) = paper.book
      BY <1>3, <1>4, <1>6, <1>7, <2>1, <2>2, <2>3, <2>4 DEF b
    <2> QED BY <2>5 DEF step, paper, b, event, ended, bar
  <1>8. CASE ~Waiting(s, k)
    <2>1. ~(t <= p.since)
      <3> DEFINE since == p.since
      <3>1. since \in Int /\ t > since
        BY <1>1, <1>8, PosFields
      <3> HIDE DEF since
      <3>2. ~(t <= since)
        BY <3>1
      <3> QED BY <3>2 DEF since
    <2>2. CASE ~Held(s, k)
      <3> HIDE DEF step, paper
      <3> QED BY <1>3, <1>4, <1>6, <1>8, <2>2 DEF step, paper
    <2>3. CASE Held(s, k)
      <3>1. pe = e
        BY <1>1, <2>3, EntryAlike
      <3>2. tick = obs
        <4> DEFINE a1 == event = "late"
                   a2 == event = "weak"
        <4>1. (a1 <=> over) /\ a1 \in BOOLEAN /\ over \in BOOLEAN /\ (a2 <=> weak) /\ a2 \in BOOLEAN /\ weak \in BOOLEAN
          BY <1>5, <1>8
        <4> HIDE DEF a1, a2, over, weak, event
        <4>2. a1 = over /\ a2 = weak
          BY <4>1
        <4>3. tick = [open |-> y, low |-> y, high |-> y, close |-> y, late |-> a1, weak |-> a2]
          BY Zenon DEF a1, a2
        <4> HIDE DEF tick
        <4> QED BY <4>2, <4>3, Zenon
      <3> HIDE DEF tick, obs, p, e, pe
      <3>3. Paper!SatelliteExit(OfPaper(p), e, obs) = SatelliteExit(p, e, obs)
            /\ Paper!SatelliteKept(OfPaper(p), e, obs) = OfPaper(SatelliteKept(p, e, obs))
        BY <1>1, SatelliteRulesAlike
      <3>4. pexit = exit /\ pkept = OfPaper(kept)
        BY <1>1, <3>1, <3>2, <3>3
      <3>5. BookOf([s EXCEPT !.positions[k] = kept]) = [b EXCEPT !.positions[k] = OfPaper(kept)]
        <4> DEFINE x == [s EXCEPT !.positions[k] = kept]
        <4>1. x = [s EXCEPT !.positions[k] = kept]
          OBVIOUS
        <4> HIDE DEF x, kept
        <4>2. BookOf(x) = [BookOf(s) EXCEPT !.positions[k] = OfPaper(kept)]
          BY <1>1, <4>1, MoveAlike
        <4> QED BY <4>2 DEF x
      <3>6. exit.reason # "none" => BookOf(Close(s, k, exit.price, exit.reason).sim)
                                      = Paper!Close(b, k, exit.price, exit.reason).book
        <4> DEFINE x == exit.price
                   why == exit.reason
        <4>1. x \in Int
          <5> DEFINE a == p.stop
                     g == p.target
          <5>1. a \in Int /\ g \in Int /\ obs.open = y /\ obs.close = y
            BY <1>1, PosFields DEF obs
          <5>2. x \in {obs.open, obs.close, Min({a, obs.open}), Max({g, obs.open})}
            BY DEF SatelliteExit
          <5> HIDE DEF a, g, x
          <5>3. Min({a, y}) \in Int /\ Max({g, y}) \in Int
            BY <1>1, <5>1, LesserOfTwo
          <5> QED BY <1>1, <5>1, <5>2, <5>3
        <4> HIDE DEF x, why
        <4>2. BookOf(Close(s, k, x, why).sim) = Paper!Close(b, k, x, why).book
          BY <1>1, <4>1, CloseAlike
        <4> QED BY <4>2 DEF x, why
      <3> HIDE DEF exit, kept, pexit, pkept, step, paper, b
      <3>7. BookOf(step.sim) = paper.book
        <4> DEFINE x == [s EXCEPT !.positions[k] = kept]
                   z == [b EXCEPT !.positions[k] = OfPaper(kept)]
                   sale == Close(s, k, exit.price, exit.reason)
                   out == Paper!Close(b, k, exit.price, exit.reason)
                   none == exit.reason = "none"
        <4>1. step = IF none THEN Nothing(x) ELSE sale
          BY <1>3, <1>8, <2>1, <2>3 DEF p
        <4>2. paper = IF none THEN Paper!Nothing(z) ELSE out
          BY <1>4, <1>8, <2>3, <3>4
        <4>3. BookOf(x) = z /\ (~none => BookOf(sale.sim) = out.book)
          BY <3>5, <3>6
        <4> HIDE DEF x, z, sale, out, none
        <4> QED BY <1>6, <4>1, <4>2, <4>3
      <3> QED BY <3>7 DEF step, paper, b, p
    <2> QED BY <2>2, <2>3
  <1> QED BY <1>7, <1>8

LEMMA InvIsPaper ==
  ASSUME ReplayInv
  PROVE  SimulatorIsPaper
  <1> SUFFICES ASSUME sim.fee + sim.slip = 0, NEW p \in Prices
               PROVE  LET book == BookOf(sim)
                          flat == [open |-> p, low |-> p, high |-> p, close |-> p]
                      IN /\ \A k \in Scalpers, d \in {"BUY", "SELL", "HOLD"} :
                              BookOf(Execute(sim, k, d, p, 0, 0, 0, t).sim) = Paper!Execute(book, k, d, p, 0).book
                         /\ \A k \in Cores, a \in Allocations :
                              /\ BookOf(OpenCore(sim, k, p, a, t).sim) = Paper!OpenCore(book, k, p, a).book
                              /\ BookOf(GrowCore(sim, k, p, a).sim) = Paper!GrowCore(book, k, p, a).book
                              /\ BookOf(TrimCore(sim, k, p, a).sim) = Paper!TrimCore(book, k, p, a).book
                         /\ \A k \in Satellites :
                              LET o == sim.pending[k]
                                  late == IF Waiting(sim, k) THEN t >= o.validUntil
                                          ELSE t >= sim.positions[k].since + TimeLimit
                              IN Waiting(sim, k) \/ t > sim.positions[k].since =>
                                   BookOf(SatelliteBar(sim, k, flat, t, FALSE).sim)
                                     = Paper!SatelliteTick(book, k, p, IF late THEN "late" ELSE "tick").book
    BY DEF SimulatorIsPaper
  <1>1. sim \in Accounts /\ Free(sim) /\ t \in Int
    BY DEF ReplayInv, Free
  <1>2. p \in Nat /\ p > 0
    BY SimulatorAssumption
  <1>3. ASSUME NEW k \in Scalpers, NEW d \in {"BUY", "SELL", "HOLD"}
        PROVE  BookOf(Execute(sim, k, d, p, 0, 0, 0, t).sim) = Paper!Execute(BookOf(sim), k, d, p, 0).book
    BY <1>1, <1>2, ExecuteAlike
  <1>4. ASSUME NEW k \in Cores, NEW a \in Allocations
        PROVE  /\ BookOf(OpenCore(sim, k, p, a, t).sim) = Paper!OpenCore(BookOf(sim), k, p, a).book
               /\ BookOf(GrowCore(sim, k, p, a).sim) = Paper!GrowCore(BookOf(sim), k, p, a).book
               /\ BookOf(TrimCore(sim, k, p, a).sim) = Paper!TrimCore(BookOf(sim), k, p, a).book
    <2>1. a \in Nat
      BY ReplayAssumption
    <2> QED BY <1>1, <1>2, <2>1, OpenCoreAlike, GrowCoreAlike, TrimCoreAlike
  <1>5. ASSUME NEW k \in Satellites, Waiting(sim, k) \/ t > sim.positions[k].since
        PROVE  LET late == IF Waiting(sim, k) THEN t >= sim.pending[k].validUntil
                           ELSE t >= sim.positions[k].since + TimeLimit
               IN BookOf(SatelliteBar(sim, k, FlatBar(p), t, FALSE).sim)
                    = Paper!SatelliteTick(BookOf(sim), k, p, IF late THEN "late" ELSE "tick").book
    BY <1>1, <1>2, <1>5, SatelliteAlike
  <1> QED BY <1>3, <1>4, <1>5, Zenon DEF FlatBar

\* An account without costs is the paper account, whatever it has been through: a tick with a
\* decision, an order of the sleeve, and a bar of one price for a satellite leave both the same
\* book.  (BacktestSimulator beside PaperTrader.)
THEOREM SimulatorStaysPaper == PairSpec => []SimulatorIsPaper
  <1>1. PairInit => ReplayInv
    BY ReplayInvInit
  <1>2. ReplayInv /\ [PairNext]_pairVars => ReplayInv'
    BY ReplayInvStep
  <1>3. ReplayInv => SimulatorIsPaper
    BY InvIsPaper
  <1> QED BY <1>1, <1>2, <1>3, PTL DEF PairSpec
===============================================================================
