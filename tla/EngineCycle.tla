----------------------------- MODULE EngineCycle -----------------------------
(***************************************************************************)
(* The scalper's 12h cycle (src/src/core/engine.js, runAllSymbols): candles *)
(* are fetched, BTC's regime and the bear policy are brought up to date, a   *)
(* regime that turns bear sells every position, each coin decides (phase A,  *)
(* all at once), and the entries take the free slots one by one (phase B).   *)
(* The risk loop's sales and a restart come between any two steps; a smoke   *)
(* test's buy and the wallet restore's adoptions (WalletRestore) do not.     *)
(*                                                                          *)
(* What an indicator says is a free choice, and so is whether an order       *)
(* fills, a first-stage exit comes before it (execute runs checkRisk first)  *)
(* or a gate that reads the market refuses.  Time is counted in ticks,       *)
(* Period of them to a bar.  The core sleeve and the satellites, which the   *)
(* cycle runs last, hold none of the positions here (SleeveCycle,            *)
(* SatelliteOrder).                                                          *)
(***************************************************************************)
EXTENDS Integers, FiniteSets, FiniteSetsExt

CONSTANTS
  Symbols, Order,      \* config.symbols, and each one's place there
  Correlated,          \* pairs whose correlation is over the cap
  MaxOpen,             \* risk.maxOpenPositions
  MaxAge,              \* risk.positionAgingExit.maxAgeBars
  Hysteresis,          \* regimeClassifier.hysteresisBars
  Labels, Bears,       \* BTC's regimes, and those the bear policy is for
  FirstLabel,          \* BULL_RANGE: the tracker's label after a start
  Confidences,         \* of a decision; those of at least 1 are enough for an entry
  Leaving,             \* coins whose pair the venue may remove
  Period, MaxNow       \* ticks of a bar; bound: the last tick

ASSUME CycleAssumption ==
  /\ IsFiniteSet(Symbols)
  /\ Order \in [Symbols -> Nat] /\ \A s, t \in Symbols : Order[s] = Order[t] => s = t
  /\ Correlated \subseteq {{s, t} : s, t \in Symbols}
  /\ MaxOpen \in Nat /\ MaxAge \in Nat \ {0} /\ Hysteresis \in Nat \ {0}
  /\ Bears \subseteq Labels /\ FirstLabel \in Labels \ Bears
  /\ Confidences \subseteq Nat /\ Period \in Nat \ {0} /\ MaxNow \in Nat
  /\ Leaving \subseteq Symbols

VARIABLES
  now,         \* the clock
  opened,      \* the trader's scalper positions: when each was opened, 0 for none
  tracker,     \* regimeTracker: its label, candidate and streak
  block,       \* bearPolicy.shouldBlockEntries
  busy,        \* cycleInProgress
  pc,          \* where runAllSymbols is
  at,          \* where each coin's runCycle or completeCycle is
  conf,        \* an entry candidate's confidence
  toClose,     \* the positions the cash exit has still to sell
  removed,     \* coins with a removal notice (state.exchangeEvents)
  steady,      \* auxiliary: positions held since the cycle's start
  asked,       \* auxiliary: coins whose sale this cycle has asked for
  bears        \* auxiliary: the bear readings of BTC in a row, up to Hysteresis

cycleVars == <<now, opened, tracker, block, busy, pc, at, conf, toClose, removed,
               steady, asked, bears>>

Bar(t)      == t \div Period
Open        == {s \in Symbols : opened[s] # 0}
NoConf      == [s \in Symbols |-> 0]
Ordering(s) == at[s] \in {"venue", "aging", "exit", "hold", "buy"}

CycleInit ==
  /\ now = Period
  /\ opened = [s \in Symbols |-> 0]
  /\ tracker = [label |-> FirstLabel, candidate |-> "none", streak |-> 0]
  /\ block = FALSE /\ busy = FALSE /\ pc = "idle"
  /\ at = [s \in Symbols |-> "out"] /\ conf = NoConf
  /\ toClose = {} /\ removed = {}
  /\ steady = {} /\ asked = {} /\ bears = 0
-----------------------------------------------------------------------------
(* The rules, as functions. *)

\* Mutant of Observed: a reading of the standing label returns before the reset.
ObservedUnreset(tr, label) ==
  LET streak == IF label = tr.candidate THEN tr.streak + 1 ELSE 1
  IN IF label = tr.label THEN tr
     ELSE IF streak >= Hysteresis THEN [label |-> label, candidate |-> label, streak |-> 0]
     ELSE [tr EXCEPT !.candidate = label, !.streak = streak]

\* RegimeTracker.update.
Observed(tr, label) ==
  LET streak == IF label = tr.label THEN 0 ELSE IF label = tr.candidate THEN tr.streak + 1 ELSE 1
  IN IF label # tr.label /\ streak >= Hysteresis
     THEN [label |-> label, candidate |-> label, streak |-> 0]
     ELSE [tr EXCEPT !.candidate = label, !.streak = streak]

\* Mutant of AgeOf: the age is counted from the fill.
AgeFromFill(s, t) == (t - opened[s]) \div Period

\* calcPositionAgingExit, from the start of the bar of the fill.
AgeOf(s, t) == (t - Bar(opened[s]) * Period) \div Period

\* resolveDecision: a SELL majority too weak for an entry's threshold sells what is held.
Resolved(signal, held) ==
  IF signal = "WEAK_SELL" THEN IF held THEN "SELL" ELSE "HOLD" ELSE signal

\* calcCorrelationCap, against the positions that are open.
Conflicts(s, open) == \E t \in open \ {s} : {s, t} \in Correlated

\* byEntryPriority.
Before(s, t) ==
  \/ conf[s] > conf[t]
  \/ conf[s] = conf[t] /\ Order[s] < Order[t]

\* completeCycle's gates that read the bot's own state: the venue's veto, the bear policy,
\* the correlation cap.
Gates(s) == ~block /\ s \notin removed /\ ~Conflicts(s, Open)

\* What completeCycle may do with the decision on a coin that was seen held, or not: an
\* entry waits for phase B, and a BUY or HOLD on a position only runs its risk check (the
\* filters' bars of a BUY are in the cache that the cycle has warmed).
OnDecision(s, decision, held) ==
  CASE decision = "BUY" /\ ~held  -> {"want"}
    [] decision = "BUY" /\ held   -> IF Gates(s) THEN {"out", "hold"} ELSE {"out"}
    [] decision = "SELL" /\ held  -> {"exit"}
    [] decision = "HOLD" /\ held  -> {"hold"}
    [] OTHER                      -> {"out"}

Onward(s, held) ==
  UNION {OnDecision(s, Resolved(signal, held), held) : signal \in {"BUY", "SELL", "WEAK_SELL", "HOLD"}}

-----------------------------------------------------------------------------
(* The cycle. *)

\* runAllSymbols up to the regime: the candles that can be fetched, the venue's notices.
StartCycle ==
  /\ ~busy
  /\ busy' = TRUE /\ pc' = "regime"
  /\ \E fetched \in SUBSET Symbols :
       at' = [s \in Symbols |-> IF s \in fetched THEN "due" ELSE "stale"]
  /\ \E noticed \in SUBSET Leaving : removed' = removed \cup noticed
  /\ steady' = Open
  /\ UNCHANGED <<now, opened, tracker, block, conf, toClose, asked, bears>>

\* computeBearPolicy.
Policy(old, new) ==
  [blocks |-> new.label \in Bears, closes |-> new.label \in Bears /\ new.label # old.label]

\* The regime of BTC's closed bars ("none": not fetched, or too few), and the
\* positions a regime that has just turned bear closes.
Regime ==
  /\ pc = "regime"
  /\ \E label \in Labels \cup {"none"} :
       /\ tracker' = IF label = "none" THEN tracker ELSE Observed(tracker, label)
       /\ bears' = IF label = "none" THEN bears
                   ELSE IF label \in Bears THEN Min({bears + 1, Hysteresis}) ELSE 0
  /\ block' = Policy(tracker, tracker').blocks
  /\ toClose' = IF Policy(tracker, tracker').closes THEN Open ELSE {}
  /\ pc' = "cash"
  /\ UNCHANGED <<now, opened, busy, at, conf, removed, steady, asked>>

\* The position an order of the cycle sells, or not: the order fails, another order has
\* the market, the position is gone, or its first-stage exit goes in place of the sale.
Sold(s)   == opened[s] # 0 /\ opened' = [opened EXCEPT ![s] = 0] /\ steady' = steady \ {s}
Unsold    == UNCHANGED <<opened, steady>>

\* One sale of the cash exit; the next waits for it.
CashSell(s) ==
  /\ pc = "cash" /\ s \in toClose
  /\ toClose' = toClose \ {s} /\ asked' = asked \cup {s}
  /\ Sold(s) \/ Unsold
  /\ UNCHANGED <<now, tracker, block, busy, pc, at, conf, removed, bears>>

CashDone ==
  /\ pc = "cash" /\ toClose = {}
  /\ pc' = "decide"
  /\ UNCHANGED <<now, opened, tracker, block, busy, at, conf, toClose, removed,
                 steady, asked, bears>>

\* runCycle up to its first order: nothing on a stale series or an error; then the venue
\* exit, the aging exit, the decision.
Decide(s) ==
  /\ pc = "decide" /\ at[s] = "due"
  /\ \E step \in IF opened[s] # 0 /\ s \in removed THEN {"venue"}
                 ELSE IF opened[s] # 0 /\ AgeOf(s, now) >= MaxAge THEN {"aging"}
                 ELSE Onward(s, opened[s] # 0), c \in Confidences :
       /\ at' = [at EXCEPT ![s] = step]
       /\ conf' = IF step = "want" THEN [conf EXCEPT ![s] = c] ELSE conf
       /\ asked' = IF step \in {"venue", "aging", "exit"} THEN asked \cup {s} ELSE asked
  /\ UNCHANGED <<now, opened, tracker, block, busy, pc, toClose, removed, steady,
                 bears>>

\* A stale series, or an error: the coin is left out of this cycle.
Skip(s) ==
  /\ pc = "decide" /\ at[s] = "due"
  /\ at' = [at EXCEPT ![s] = "stale"]
  /\ UNCHANGED <<now, opened, tracker, block, busy, pc, conf, toClose, removed, steady,
                 asked, bears>>

\* A sale returns.  Without a trade the coin's cycle goes on with the status it had.
SellAnswer(s) ==
  /\ at[s] \in {"venue", "aging", "exit"}
  /\ \/ (Sold(s) \/ (opened[s] # 0 /\ Unsold)) /\ at' = [at EXCEPT ![s] = "out"]
     \/ /\ Unsold
        /\ \E step \in IF at[s] = "exit" THEN {"out"}
                       ELSE IF at[s] = "venue" /\ opened[s] # 0 /\ AgeOf(s, now) >= MaxAge THEN {"aging"}
                       ELSE Onward(s, TRUE) :
             at' = [at EXCEPT ![s] = step]
  /\ UNCHANGED <<now, tracker, block, busy, pc, conf, toClose, removed, asked, bears>>

\* execute on a held coin: its risk check may close it.
HoldAnswer(s) ==
  /\ at[s] = "hold"
  /\ at' = [at EXCEPT ![s] = "out"]
  /\ Sold(s) \/ Unsold
  /\ UNCHANGED <<now, tracker, block, busy, pc, conf, toClose, removed, asked, bears>>

DecideDone ==
  /\ pc = "decide" /\ \A s \in Symbols : at[s] \in {"out", "stale", "want"}
  /\ pc' = "enter"
  /\ UNCHANGED <<now, opened, tracker, block, busy, at, conf, toClose, removed, steady,
                 asked, bears>>

\* Mutant of Alone: the entries are not awaited one by one.
AllAtOnce == TRUE

\* The entries are awaited in turn.
Alone == ~\E s \in Symbols : Ordering(s)

\* The next candidate's turn, with a fresh status: the gates, canTrade, the order.
Enter(s) ==
  /\ pc = "enter" /\ at[s] = "want" /\ Alone
  /\ \A t \in Symbols \ {s} : at[t] = "want" => Before(s, t)
  /\ LET slot == Cardinality(Open) < MaxOpen
         fits == Gates(s) /\ conf[s] >= 1
     IN \/ fits /\ slot /\ at' = [at EXCEPT ![s] = "buy"]
        \/ at' = [at EXCEPT ![s] = "out"]
  /\ UNCHANGED <<now, opened, tracker, block, busy, pc, conf, toClose, removed, steady,
                 asked, bears>>

BuyAnswer(s) ==
  /\ at[s] = "buy"
  /\ at' = [at EXCEPT ![s] = "out"]
  /\ opened' = [opened EXCEPT ![s] = now] \/ UNCHANGED opened
  /\ UNCHANGED <<now, tracker, block, busy, pc, conf, toClose, removed, steady, asked,
                 bears>>

\* The variables of one cycle, when it is over.
Ended ==
  /\ pc' = "idle" /\ at' = [s \in Symbols |-> "out"] /\ conf' = NoConf /\ toClose' = {}
  /\ steady' = {} /\ asked' = {}

\* The sleeve, the satellites and the equity snapshot follow; then the heartbeat.
Finish ==
  /\ pc = "enter" /\ \A s \in Symbols : at[s] \in {"out", "stale"}
  /\ busy' = FALSE /\ Ended
  /\ UNCHANGED <<now, opened, tracker, block, removed, bears>>

\* An error outside a coin's own try: the cycle ends without a heartbeat.
Throw ==
  /\ pc \in {"regime", "cash", "enter"} /\ Alone
  /\ busy' = FALSE /\ Ended
  /\ UNCHANGED <<now, opened, tracker, block, removed, bears>>

\* The risk loop closes a position (its market is free).
RiskSell(s) ==
  /\ ~Ordering(s) /\ Sold(s)
  /\ UNCHANGED <<now, tracker, block, busy, pc, at, conf, toClose, removed, asked,
                 bears>>

Tick ==
  /\ pc \in {"idle", "enter"} /\ now < MaxNow
  /\ now' = now + 1
  /\ UNCHANGED <<opened, tracker, block, busy, pc, at, conf, toClose, removed, steady,
                 asked, bears>>

\* A restart: positions are restored, a buy in flight among them or not; the rest is new.
Crash ==
  /\ \E got \in SUBSET {s \in Symbols : at[s] = "buy"} :
       opened' = [s \in Symbols |-> IF s \in got THEN now ELSE opened[s]]
  /\ tracker' = [label |-> FirstLabel, candidate |-> "none", streak |-> 0]
  /\ block' = FALSE /\ busy' = FALSE /\ bears' = 0 /\ removed' = {} /\ Ended
  /\ UNCHANGED now

CycleStep ==
  \/ Regime \/ CashDone \/ DecideDone \/ Finish
  \/ \E s \in Symbols :
       \/ CashSell(s) \/ Decide(s) \/ Skip(s) \/ SellAnswer(s) \/ HoldAnswer(s)
       \/ Enter(s) \/ BuyAnswer(s)
CycleNext ==
  StartCycle \/ CycleStep \/ Throw \/ Tick \/ Crash \/ \E s \in Symbols : RiskSell(s)

CycleSpec == CycleInit /\ [][CycleNext]_cycleVars

-----------------------------------------------------------------------------
(* Properties. *)

\* The entries of a cycle see each other: never more scalper positions than slots, and never
\* two coins over the correlation cap (as long as the matrix stays what it is), whatever
\* sells and restarts come between them.  (runAllSymbols, phase B; calcCorrelationCap.)
EntriesSeeEachOther ==
  Cardinality(Open) <= MaxOpen /\ \A s \in Open : ~Conflicts(s, Open)

\* After as many bear readings of BTC in a row as the hysteresis asks for, no entry is
\* sent until a reading of another kind; and only after so many are positions sold for it.
\* (RegimeTracker, computeBearPolicy.)
BearPolicyHolds ==
  /\ bears = Hysteresis => \A s \in Symbols : at[s] # "buy"
  /\ toClose # {} => bears = Hysteresis

\* When phase A is over, each position it found too old has been asked to go: a coin
\* opened in one bar's cycle goes in the cycle MaxAge bars later, however late in its bar
\* it filled.  (calcPositionAgingExit from the bar's start.)
OldPositionsAreSold ==
  [][DecideDone => \A s \in steady :
       Bar(now) - Bar(opened[s]) >= MaxAge => s \in asked \/ at[s] = "stale"]_cycleVars
=============================================================================
