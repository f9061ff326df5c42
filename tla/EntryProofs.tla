------------------------------ MODULE EntryProofs ------------------------------
(***************************************************************************)
(* Proofs about what lets an entry through, for any coins, slots, limits and   *)
(* number of days: the gates of a cycle (EngineCycle), and the loss brakes     *)
(* over sales, midnights and restarts (RiskBrake).                            *)
(***************************************************************************)
EXTENDS EngineCycle, RiskBrake, FoldLemmas

-------------------------------------------------------------------------------
(* The values the variables take, and the phases of a cycle.                  *)

Phases == {"idle", "regime", "cash", "decide", "enter"}
Places == {"out", "due", "stale", "want", "venue", "aging", "exit", "hold", "buy"}

CycleTypeOK ==
  /\ now \in Nat \ {0}
  /\ opened \in [Symbols -> Nat]
  /\ tracker \in [label : Labels, candidate : Labels \cup {"none"}, streak : Nat]
  /\ block \in BOOLEAN /\ busy \in BOOLEAN
  /\ pc \in Phases /\ at \in [Symbols -> Places] /\ conf \in [Symbols -> Nat]
  /\ toClose \subseteq Symbols /\ removed \subseteq Symbols
  /\ steady \subseteq Symbols /\ asked \subseteq Symbols
  /\ bears \in 0 .. Hysteresis

\* Where a coin can be in each phase.
PhaseInv ==
  /\ busy <=> pc # "idle"
  /\ pc = "idle" => \A s \in Symbols : at[s] = "out"
  /\ pc \in {"regime", "cash"} => \A s \in Symbols : at[s] \in {"due", "stale"}
  /\ pc = "decide" => \A s \in Symbols : at[s] # "buy"
  /\ pc = "enter" => \A s \in Symbols : at[s] \in {"out", "stale", "want", "buy"}
  /\ toClose # {} => pc = "cash"

\* An entry that is sent has a slot and no partner over the cap, and is alone.
SlotInv ==
  \A s \in Symbols : at[s] = "buy" =>
    /\ Cardinality(Open) < MaxOpen /\ ~Conflicts(s, Open) /\ ~block
    /\ \A t \in Symbols : at[t] = "buy" => t = s

EngineInv == CycleTypeOK /\ PhaseInv /\ SlotInv /\ EntriesSeeEachOther

LEMMA EngineInitInv == CycleInit => EngineInv
  <1> SUFFICES ASSUME CycleInit PROVE EngineInv
    OBVIOUS
  <1> USE CycleAssumption DEF CycleInit
  <1>1. CycleTypeOK
    <2>1. tracker \in [label : Labels, candidate : Labels \cup {"none"}, streak : Nat]
      OBVIOUS
    <2>2. opened \in [Symbols -> Nat] /\ at \in [Symbols -> Places] /\ conf \in [Symbols -> Nat]
      BY DEF Places, NoConf
    <2>3. bears \in 0 .. Hysteresis /\ now \in Nat \ {0}
      OBVIOUS
    <2> QED BY <2>1, <2>2, <2>3 DEF CycleTypeOK, Phases
  <1>2. Open = {}
    BY DEF Open
  <1>3. EntriesSeeEachOther
    BY <1>2, FS_EmptySet DEF EntriesSeeEachOther
  <1> QED BY <1>1, <1>3 DEF EngineInv, PhaseInv, SlotInv

-------------------------------------------------------------------------------
(* Every step keeps the variables to their values.                            *)

\* Where a decision leads.
LEMMA Ways ==
  /\ \A s \in Symbols : Onward(s, TRUE) \subseteq {"out", "exit", "hold"}
  /\ \A s \in Symbols, held \in BOOLEAN : Onward(s, held) \subseteq {"out", "exit", "hold", "want"}
  BY DEF Onward, OnDecision, Resolved

LEMMA ObservedType ==
  ASSUME NEW tr \in [label : Labels, candidate : Labels \cup {"none"}, streak : Nat], NEW label \in Labels
  PROVE  Observed(tr, label) \in [label : Labels, candidate : Labels \cup {"none"}, streak : Nat]
  <1> DEFINE streak == IF label = tr.label THEN 0 ELSE IF label = tr.candidate THEN tr.streak + 1 ELSE 1
  <1>1. streak \in Nat
    OBVIOUS
  <1>2. CASE label # tr.label /\ streak >= Hysteresis
    <2>1. Observed(tr, label) = [label |-> label, candidate |-> label, streak |-> 0]
      BY <1>2 DEF Observed
    <2> QED BY <2>1
  <1>3. CASE ~(label # tr.label /\ streak >= Hysteresis)
    <2>1. Observed(tr, label) = [tr EXCEPT !.candidate = label, !.streak = streak]
      BY <1>3 DEF Observed
    <2> HIDE DEF streak
    <2> QED BY <1>1, <2>1
  <1> QED BY <1>2, <1>3

LEMMA MinOfTwo ==
  ASSUME NEW a \in Nat, NEW b \in Nat
  PROVE  Min({a, b}) = IF a <= b THEN a ELSE b
  BY DEF Min

LEMMA CycleTypeStep ==
  ASSUME CycleTypeOK, [CycleNext]_cycleVars
  PROVE  CycleTypeOK'
  <1> USE CycleAssumption
  <1>1. CASE StartCycle
    <2>1. at' \in [Symbols -> Places]
      BY <1>1 DEF StartCycle, Places
    <2> QED BY <1>1, <2>1 DEF StartCycle, CycleTypeOK, Phases, Open
  <1>2. CASE Regime
    <2>1. PICK label \in Labels \cup {"none"} :
            /\ tracker' = IF label = "none" THEN tracker ELSE Observed(tracker, label)
            /\ bears' = IF label = "none" THEN bears
                        ELSE IF label \in Bears THEN Min({bears + 1, Hysteresis}) ELSE 0
      BY <1>2 DEF Regime
    <2>2. tracker' \in [label : Labels, candidate : Labels \cup {"none"}, streak : Nat]
      BY <2>1, ObservedType DEF CycleTypeOK
    <2>3. bears' \in 0 .. Hysteresis
      BY <2>1, MinOfTwo DEF CycleTypeOK
    <2>4. block' \in BOOLEAN /\ toClose' \subseteq Symbols
      BY <1>2 DEF Regime, Policy, Open
    <2> QED BY <1>2, <2>2, <2>3, <2>4 DEF Regime, CycleTypeOK, Phases
  <1>3. CASE CashDone \/ DecideDone
    BY <1>3 DEF CashDone, DecideDone, CycleTypeOK, Phases
  <1>4. CASE Finish \/ Throw
    <2>1. at' \in [Symbols -> Places] /\ conf' \in [Symbols -> Nat]
      BY <1>4 DEF Finish, Throw, Ended, NoConf, Places
    <2> QED BY <1>4, <2>1 DEF Finish, Throw, Ended, CycleTypeOK, Phases
  <1>5. ASSUME NEW s \in Symbols, CashSell(s) PROVE CycleTypeOK'
    BY <1>5 DEF CashSell, Sold, Unsold, CycleTypeOK
  <1>6. ASSUME NEW s \in Symbols, Decide(s) PROVE CycleTypeOK'
    <2>1. PICK step \in Places, c \in Confidences :
            /\ at' = [at EXCEPT ![s] = step]
            /\ conf' = IF step = "want" THEN [conf EXCEPT ![s] = c] ELSE conf
            /\ asked' = IF step \in {"venue", "aging", "exit"} THEN asked \cup {s} ELSE asked
      BY <1>6, Ways DEF Decide, Places
    <2> QED BY <1>6, <2>1 DEF Decide, CycleTypeOK
  <1>7. ASSUME NEW s \in Symbols, Skip(s) \/ HoldAnswer(s) \/ Enter(s) PROVE CycleTypeOK'
    <2>1. PICK step \in Places : at' = [at EXCEPT ![s] = step]
      BY <1>7 DEF Skip, HoldAnswer, Enter, Places
    <2>2. opened' \in [Symbols -> Nat] /\ steady' \subseteq Symbols
      BY <1>7 DEF Skip, HoldAnswer, Enter, Sold, Unsold, CycleTypeOK
    <2> QED BY <1>7, <2>1, <2>2 DEF Skip, HoldAnswer, Enter, CycleTypeOK
  <1>8. ASSUME NEW s \in Symbols, SellAnswer(s) PROVE CycleTypeOK'
    <2>1. PICK step \in Places : at' = [at EXCEPT ![s] = step]
      BY <1>8, Ways DEF SellAnswer, Places
    <2>2. opened' \in [Symbols -> Nat] /\ steady' \subseteq Symbols
      <3>1. (opened' = opened \/ opened' = [opened EXCEPT ![s] = 0]) /\ (steady' = steady \/ steady' = steady \ {s})
        BY <1>8 DEF SellAnswer, Sold, Unsold
      <3> QED BY <3>1 DEF CycleTypeOK
    <2> QED BY <1>8, <2>1, <2>2 DEF SellAnswer, CycleTypeOK
  <1>9. ASSUME NEW s \in Symbols, BuyAnswer(s) PROVE CycleTypeOK'
    BY <1>9 DEF BuyAnswer, CycleTypeOK, Places
  <1>10. CASE Tick
    BY <1>10 DEF Tick, CycleTypeOK
  <1>11. CASE Crash
    <2>1. opened' \in [Symbols -> Nat]
      BY <1>11 DEF Crash, CycleTypeOK
    <2>2. at' \in [Symbols -> Places] /\ conf' \in [Symbols -> Nat]
      BY <1>11 DEF Crash, Ended, NoConf, Places
    <2>3. tracker' \in [label : Labels, candidate : Labels \cup {"none"}, streak : Nat]
      BY <1>11 DEF Crash
    <2>4. bears' \in 0 .. Hysteresis /\ block' \in BOOLEAN /\ busy' \in BOOLEAN /\ pc' \in Phases /\ now' = now
      <3>1. bears' = 0 /\ block' = FALSE /\ busy' = FALSE /\ pc' = "idle" /\ now' = now
        BY <1>11 DEF Crash, Ended
      <3>2. Hysteresis \in Nat
        OBVIOUS
      <3>3. bears' \in 0 .. Hysteresis
        BY <3>1, <3>2
      <3>4. block' \in BOOLEAN /\ busy' \in BOOLEAN
        BY <3>1
      <3> QED BY <3>1, <3>3, <3>4 DEF Phases
    <2>5. toClose' = {} /\ removed' = {} /\ steady' = {} /\ asked' = {}
      BY <1>11 DEF Crash, Ended
    <2> QED BY <2>1, <2>2, <2>3, <2>4, <2>5 DEF CycleTypeOK
  <1>12. ASSUME NEW s \in Symbols, RiskSell(s) PROVE CycleTypeOK'
    BY <1>12 DEF RiskSell, Sold, CycleTypeOK
  <1>13. CASE UNCHANGED cycleVars
    BY <1>13 DEF cycleVars, CycleTypeOK
  <1> QED BY <1>1, <1>2, <1>3, <1>4, <1>5, <1>6, <1>7, <1>8, <1>9, <1>10, <1>11, <1>12, <1>13
          DEF CycleNext, CycleStep

LEMMA PhaseStep ==
  ASSUME CycleTypeOK, PhaseInv, [CycleNext]_cycleVars
  PROVE  PhaseInv'
  <1> USE DEF PhaseInv
  <1>1. CASE StartCycle
    BY <1>1 DEF StartCycle, CycleTypeOK
  <1>2. CASE Regime \/ CashDone \/ DecideDone
    BY <1>2 DEF Regime, CashDone, DecideDone
  <1>3. CASE Finish \/ Throw \/ Crash
    BY <1>3 DEF Finish, Throw, Crash, Ended
  <1>4. ASSUME NEW s \in Symbols, CashSell(s) \/ RiskSell(s) PROVE PhaseInv'
    BY <1>4 DEF CashSell, RiskSell
  <1>5. ASSUME NEW s \in Symbols, Decide(s) PROVE PhaseInv'
    <2>1. PICK step \in Places \ {"buy"} : at' = [at EXCEPT ![s] = step]
      BY <1>5, Ways DEF Decide, Places
    <2> QED BY <1>5, <2>1 DEF Decide, CycleTypeOK
  <1>6. ASSUME NEW s \in Symbols, Skip(s) \/ HoldAnswer(s) PROVE PhaseInv'
    <2>1. PICK step \in {"stale", "out"} : at' = [at EXCEPT ![s] = step]
      BY <1>6 DEF Skip, HoldAnswer
    <2>2. pc = "decide"
      BY <1>6 DEF Skip, HoldAnswer, CycleTypeOK, Phases
    <2> QED BY <1>6, <2>1, <2>2 DEF Skip, HoldAnswer, CycleTypeOK
  <1>7. ASSUME NEW s \in Symbols, SellAnswer(s) PROVE PhaseInv'
    <2>1. PICK step \in {"aging", "out", "exit", "hold"} : at' = [at EXCEPT ![s] = step]
      BY <1>7, Ways DEF SellAnswer
    <2>2. pc = "decide"
      BY <1>7 DEF SellAnswer, CycleTypeOK, Phases
    <2> QED BY <1>7, <2>1, <2>2 DEF SellAnswer, CycleTypeOK
  <1>8. ASSUME NEW s \in Symbols, Enter(s) \/ BuyAnswer(s) PROVE PhaseInv'
    <2>1. PICK step \in {"buy", "out"} : at' = [at EXCEPT ![s] = step]
      BY <1>8 DEF Enter, BuyAnswer
    <2>2. pc = "enter"
      BY <1>8 DEF Enter, BuyAnswer, CycleTypeOK, Phases
    <2> QED BY <1>8, <2>1, <2>2 DEF Enter, BuyAnswer, CycleTypeOK
  <1>9. CASE Tick \/ UNCHANGED cycleVars
    BY <1>9 DEF Tick, cycleVars
  <1> QED BY <1>1, <1>2, <1>3, <1>4, <1>5, <1>6, <1>7, <1>8, <1>9 DEF CycleNext, CycleStep

-------------------------------------------------------------------------------
(* The slots.                                                                *)

LEMMA OpenFinite ==
  /\ IsFiniteSet(Open) /\ Cardinality(Open) \in Nat
  /\ IsFiniteSet(Open') /\ Cardinality(Open') \in Nat
  BY CycleAssumption, FS_Subset, FS_CardinalityType DEF Open

\* Positions that go take nothing from the others.
LEMMA FewerOpen ==
  ASSUME Open' \subseteq Open
  PROVE  /\ Cardinality(Open') <= Cardinality(Open)
         /\ \A s \in Symbols : Conflicts(s, Open') => Conflicts(s, Open)
  BY OpenFinite, FS_Subset DEF Conflicts

LEMMA SlotKept ==
  ASSUME EngineInv, Open' \subseteq Open,
         \A s \in Symbols : at'[s] = "buy" => at[s] = "buy" /\ block' = block
  PROVE  SlotInv' /\ EntriesSeeEachOther'
  <1>1. Cardinality(Open') \in Nat /\ Cardinality(Open) \in Nat /\ MaxOpen \in Nat
    BY OpenFinite, CycleAssumption
  <1>2. SlotInv'
    BY <1>1, FewerOpen DEF EngineInv, SlotInv
  <1>3. Open \subseteq Symbols
    BY DEF Open
  <1> QED BY <1>1, <1>2, <1>3, FewerOpen DEF EngineInv, EntriesSeeEachOther

\* The one entry that was sent fills: it had a slot, and no partner.
LEMMA OneMore ==
  ASSUME EngineInv, NEW s \in Symbols, at[s] = "buy", Open' \subseteq Open \cup {s}
  PROVE  EntriesSeeEachOther'
  <1>1. Cardinality(Open) < MaxOpen /\ ~Conflicts(s, Open)
    BY DEF EngineInv, SlotInv
  <1>2. Cardinality(Open') <= MaxOpen
    <2>1. IsFiniteSet(Open \cup {s}) /\ Cardinality(Open \cup {s}) <= Cardinality(Open) + 1
          /\ Cardinality(Open \cup {s}) \in Nat
      <3>1. IsFiniteSet(Open)
        BY OpenFinite
      <3>2. IsFiniteSet(Open \cup {s})
            /\ Cardinality(Open \cup {s}) = IF s \in Open THEN Cardinality(Open) ELSE Cardinality(Open) + 1
        BY <3>1, FS_AddElement
      <3> QED BY <3>2, OpenFinite
    <2>2. Cardinality(Open') <= Cardinality(Open \cup {s})
      BY <2>1, FS_Subset
    <2> QED BY <1>1, <2>1, <2>2, OpenFinite, CycleAssumption
  <1>3. ASSUME NEW t \in Open' PROVE ~Conflicts(t, Open')
    <2>1. ASSUME NEW u \in Open' \ {t}, {t, u} \in Correlated PROVE FALSE
      <3>1. CASE t = s
        BY <1>1, <2>1, <3>1 DEF Conflicts
      <3>2. CASE u = s
        <4>1. {t, u} = {s, t} /\ t \in Open \ {s}
          BY <2>1, <3>2
        <4> QED BY <1>1, <2>1, <4>1 DEF Conflicts
      <3>3. CASE t # s /\ u # s
        BY <2>1, <3>3 DEF EngineInv, EntriesSeeEachOther, Conflicts
      <3> QED BY <3>1, <3>2, <3>3
    <2> QED BY <2>1 DEF Conflicts
  <1> QED BY <1>2, <1>3 DEF EntriesSeeEachOther

LEMMA EngineStep ==
  ASSUME EngineInv, [CycleNext]_cycleVars
  PROVE  EngineInv'
  <1>t. CycleTypeOK' /\ PhaseInv' /\ CycleTypeOK /\ PhaseInv
    BY CycleTypeStep, PhaseStep DEF EngineInv
  <1> SUFFICES SlotInv' /\ EntriesSeeEachOther'
    BY <1>t DEF EngineInv
  <1>1. CASE StartCycle \/ Regime \/ CashDone \/ DecideDone \/ Finish \/ Throw \/ Tick \/ UNCHANGED cycleVars
    <2>1. Open' = Open
      BY <1>1 DEF StartCycle, Regime, CashDone, DecideDone, Finish, Throw, Tick, cycleVars, Open
    <2>2. \A s \in Symbols : at'[s] = "buy" => at[s] = "buy" /\ block' = block
      <3>1. CASE StartCycle \/ Finish \/ Throw
        BY <1>t, <3>1 DEF StartCycle, Finish, Throw, Ended
      <3>2. CASE Regime
        BY <1>t, <3>2 DEF Regime, PhaseInv
      <3>3. CASE CashDone \/ DecideDone \/ Tick \/ UNCHANGED cycleVars
        BY <3>3 DEF CashDone, DecideDone, Tick, cycleVars
      <3> QED BY <1>1, <3>1, <3>2, <3>3
    <2> QED BY <2>1, <2>2, SlotKept
  <1>2. ASSUME NEW s \in Symbols,
               CashSell(s) \/ Decide(s) \/ Skip(s) \/ SellAnswer(s) \/ HoldAnswer(s) \/ RiskSell(s)
        PROVE  SlotInv' /\ EntriesSeeEachOther'
    <2>1. opened' = opened \/ opened' = [opened EXCEPT ![s] = 0]
      BY <1>2 DEF CashSell, Decide, Skip, SellAnswer, HoldAnswer, RiskSell, Sold, Unsold
    <2>2. Open' \subseteq Open
      BY <1>t, <2>1 DEF Open, CycleTypeOK
    <2>3. block' = block
      BY <1>2 DEF CashSell, Decide, Skip, SellAnswer, HoldAnswer, RiskSell
    <2>4. \E step \in Places \ {"buy"} : at' = at \/ at' = [at EXCEPT ![s] = step]
      <3>1. CASE CashSell(s) \/ RiskSell(s)
        BY <3>1 DEF CashSell, RiskSell, Places
      <3>2. CASE Decide(s)
        BY <3>2, Ways DEF Decide, Places
      <3>3. CASE Skip(s) \/ HoldAnswer(s)
        BY <3>3 DEF Skip, HoldAnswer, Places
      <3>4. CASE SellAnswer(s)
        BY <3>4, Ways DEF SellAnswer, Places
      <3> QED BY <1>2, <3>1, <3>2, <3>3, <3>4
    <2>5. \A t \in Symbols : at'[t] = "buy" => at[t] = "buy"
      BY <1>t, <2>4 DEF CycleTypeOK
    <2> QED BY <2>2, <2>3, <2>5, SlotKept
  <1>3. ASSUME NEW s \in Symbols, Enter(s) PROVE SlotInv' /\ EntriesSeeEachOther'
    <2>1. UNCHANGED <<opened, block>> /\ Open' = Open
      BY <1>3 DEF Enter, Open
    <2>2. EntriesSeeEachOther'
      BY <2>1 DEF EngineInv, EntriesSeeEachOther
    <2>3. \A t \in Symbols : at[t] # "buy"
      BY <1>3 DEF Enter, Alone, Ordering
    <2>4. CASE at' = [at EXCEPT ![s] = "out"]
      BY <1>t, <2>1, <2>2, <2>3, <2>4 DEF SlotInv, CycleTypeOK
    <2>5. CASE at' = [at EXCEPT ![s] = "buy"] /\ Gates(s) /\ Cardinality(Open) < MaxOpen
      BY <1>t, <2>1, <2>2, <2>3, <2>5 DEF SlotInv, CycleTypeOK, Gates
    <2> QED BY <1>3, <2>4, <2>5 DEF Enter
  <1>4. ASSUME NEW s \in Symbols, BuyAnswer(s) PROVE SlotInv' /\ EntriesSeeEachOther'
    <2>1. at[s] = "buy" /\ Open' \subseteq Open \cup {s}
      BY <1>t, <1>4 DEF BuyAnswer, Open, CycleTypeOK
    <2>2. \A t \in Symbols : at'[t] # "buy"
      BY <1>t, <1>4 DEF BuyAnswer, CycleTypeOK, EngineInv, SlotInv
    <2> QED BY <2>1, <2>2, OneMore DEF SlotInv
  <1>5. CASE Crash
    <2>1. SlotInv'
      BY <1>5 DEF Crash, Ended, SlotInv
    <2>2. PICK got \in SUBSET {s \in Symbols : at[s] = "buy"} :
            opened' = [s \in Symbols |-> IF s \in got THEN now ELSE opened[s]]
      BY <1>5 DEF Crash
    <2>3. CASE got = {}
      BY <2>1, <2>2, <2>3, FewerOpen, SlotKept, <1>5 DEF Crash, Ended, Open
    <2>4. CASE got # {}
      <3>1. PICK s \in Symbols : s \in got /\ at[s] = "buy"
        BY <2>2, <2>4
      <3>2. Open' \subseteq Open \cup {s}
        BY <2>2, <3>1 DEF Open, EngineInv, SlotInv
      <3> QED BY <2>1, <3>1, <3>2, OneMore
    <2> QED BY <2>3, <2>4
  <1> QED BY <1>1, <1>2, <1>3, <1>4, <1>5 DEF CycleNext, CycleStep

(* A cycle's entries see each other, for any number of coins and slots and any            *)
(* correlations: never more scalper positions than slots, never two over the cap, whatever *)
(* sells and restarts come between the steps.                                              *)
THEOREM EntriesKeepTheSlots == CycleSpec => []EntriesSeeEachOther
  <1>1. EngineInv /\ [CycleNext]_cycleVars => EngineInv'
    BY EngineStep
  <1>2. EngineInv => EntriesSeeEachOther
    BY DEF EngineInv
  <1> QED BY EngineInitInv, <1>1, <1>2, PTL DEF CycleSpec

-------------------------------------------------------------------------------
(* The bear policy.                                                          *)

\* The tracker counts the readings of the one label the policy is for, and the policy is
\* the tracker's.
BearInv ==
  /\ block <=> tracker.label \in Bears
  /\ tracker.label \notin Bears =>
       bears < Hysteresis /\ bears = (IF tracker.candidate \in Bears THEN tracker.streak ELSE 0)
  /\ toClose # {} => bears = Hysteresis

LEMMA BearInitInv == CycleInit => BearInv
  BY CycleAssumption DEF CycleInit, BearInv

\* A reading keeps the count, and a turn to bear ends it.
LEMMA Counted ==
  ASSUME CycleTypeOK, BearInv, NEW label \in Labels, \A a, b \in Bears : a = b,
         tracker' = Observed(tracker, label),
         bears' = IF label \in Bears THEN Min({bears + 1, Hysteresis}) ELSE 0
  PROVE  /\ tracker'.label \notin Bears =>
              bears' < Hysteresis /\ bears' = (IF tracker'.candidate \in Bears THEN tracker'.streak ELSE 0)
         /\ tracker'.label \in Bears /\ tracker'.label # tracker.label => bears' = Hysteresis
  <1> USE CycleAssumption
  <1> DEFINE streak == IF label = tracker.label THEN 0
                       ELSE IF label = tracker.candidate THEN tracker.streak + 1 ELSE 1
  <1>1. /\ bears \in Nat /\ bears <= Hysteresis /\ tracker.streak \in Nat
        /\ tracker.label \notin Bears =>
             bears < Hysteresis /\ bears = (IF tracker.candidate \in Bears THEN tracker.streak ELSE 0)
    BY DEF CycleTypeOK, BearInv
  <1>2. label \in Bears => bears' = IF bears + 1 <= Hysteresis THEN bears + 1 ELSE Hysteresis
    BY <1>1, MinOfTwo
  <1>3. CASE label # tracker.label /\ streak >= Hysteresis
    <2>1. tracker' = [label |-> label, candidate |-> label, streak |-> 0]
      BY <1>3 DEF Observed
    <2>2. tracker'.label = label /\ tracker'.candidate = label
      BY <2>1
    <2>3. CASE label \in Bears
      <3>1. tracker.label \notin Bears
        BY <1>3, <2>3
      <3>2. streak <= bears + 1
        BY <1>1, <1>3, <2>3, <3>1
      <3>3. bears' = Hysteresis
        BY <1>1, <1>2, <1>3, <2>3, <3>2
      <3> QED BY <2>2, <2>3, <3>3
    <2>4. CASE label \notin Bears
      BY <2>2, <2>4
    <2> QED BY <2>3, <2>4
  <1>4. CASE ~(label # tracker.label /\ streak >= Hysteresis)
    <2>1. tracker' = [tracker EXCEPT !.candidate = label, !.streak = streak]
      BY <1>4 DEF Observed
    <2>2. tracker'.label = tracker.label /\ tracker'.candidate = label /\ tracker'.streak = streak
      BY <2>1 DEF CycleTypeOK
    <2>3. CASE tracker.label \notin Bears /\ label \in Bears
      <3>1. label # tracker.label /\ streak < Hysteresis
        BY <1>1, <1>4, <2>3
      <3>2. streak = bears + 1
        BY <1>1, <2>3, <3>1
      <3>3. bears' = streak
        BY <1>1, <1>2, <2>3, <3>1, <3>2
      <3> QED BY <2>2, <2>3, <3>1, <3>3
    <2>4. CASE tracker.label \notin Bears /\ label \notin Bears
      BY <2>2, <2>4
    <2>5. CASE tracker.label \in Bears
      BY <2>2, <2>5
    <2> QED BY <2>3, <2>4, <2>5
  <1> QED BY <1>3, <1>4

LEMMA BearStep ==
  ASSUME EngineInv, BearInv, [CycleNext]_cycleVars, \A a, b \in Bears : a = b
  PROVE  BearInv'
  <1> USE CycleAssumption
  <1>t. CycleTypeOK
    BY DEF EngineInv
  <1>1. CASE Regime
    <2>1. PICK label \in Labels \cup {"none"} :
            /\ tracker' = IF label = "none" THEN tracker ELSE Observed(tracker, label)
            /\ bears' = IF label = "none" THEN bears
                        ELSE IF label \in Bears THEN Min({bears + 1, Hysteresis}) ELSE 0
      BY <1>1 DEF Regime
    <2>2. /\ block' = (tracker'.label \in Bears)
          /\ toClose' # {} => tracker'.label \in Bears /\ tracker'.label # tracker.label
      BY <1>1 DEF Regime, Policy
    <2>3. CASE label = "none"
      BY <2>1, <2>2, <2>3 DEF BearInv
    <2>4. CASE label # "none"
      BY <1>t, <2>1, <2>2, <2>4, Counted DEF BearInv
    <2> QED BY <2>3, <2>4
  <1>2. CASE Finish \/ Throw
    <2>1. UNCHANGED <<block, tracker, bears>> /\ toClose' = {}
      BY <1>2 DEF Finish, Throw, Ended
    <2> QED BY <2>1 DEF BearInv
  <1>3. CASE Crash
    <2>1. /\ block' = FALSE /\ bears' = 0 /\ toClose' = {}
          /\ tracker' = [label |-> FirstLabel, candidate |-> "none", streak |-> 0]
      BY <1>3 DEF Crash, Ended
    <2> QED BY <2>1 DEF BearInv
  <1>4. ASSUME NEW s \in Symbols, CashSell(s) PROVE BearInv'
    BY <1>4 DEF CashSell, BearInv
  <1>5. CASE StartCycle \/ CashDone \/ DecideDone \/ Tick \/ UNCHANGED cycleVars
    BY <1>5 DEF StartCycle, CashDone, DecideDone, Tick, cycleVars, BearInv
  <1>6. ASSUME NEW s \in Symbols, Decide(s) \/ Skip(s) \/ SellAnswer(s) \/ HoldAnswer(s) \/ Enter(s)
                                  \/ BuyAnswer(s) \/ RiskSell(s)
        PROVE  BearInv'
    <2>1. UNCHANGED <<block, tracker, bears, toClose>>
      BY <1>6 DEF Decide, Skip, SellAnswer, HoldAnswer, Enter, BuyAnswer, RiskSell
    <2> QED BY <2>1 DEF BearInv
  <1> QED BY <1>1, <1>2, <1>3, <1>4, <1>5, <1>6 DEF CycleNext, CycleStep

(* The bear policy, for any hysteresis and any readings: no entry is sent after as many     *)
(* bear readings in a row as the hysteresis asks for, and positions are sold for it only     *)
(* then.  The policy is for one label (bearPolicy.restrictTo = 'trend_only'): with           *)
(* 'all_bear' two labels that alternate reset each other's streak in RegimeTracker.update.    *)
THEOREM BearsAreKeptOut ==
  ASSUME \A a, b \in Bears : a = b
  PROVE  CycleSpec => []BearPolicyHolds
  <1>1. EngineInv /\ BearInv /\ [CycleNext]_cycleVars => EngineInv' /\ BearInv'
    BY EngineStep, BearStep
  <1>2. EngineInv /\ BearInv => BearPolicyHolds
    <2> SUFFICES ASSUME EngineInv, BearInv PROVE BearPolicyHolds
      OBVIOUS
    <2>1. bears = Hysteresis => block
      BY CycleAssumption DEF BearInv
    <2>2. \A s \in Symbols : at[s] = "buy" => ~block
      BY DEF EngineInv, SlotInv
    <2> QED BY <2>1, <2>2 DEF BearInv, BearPolicyHolds
  <1> QED BY EngineInitInv, BearInitInv, <1>1, <1>2, PTL DEF CycleSpec

-------------------------------------------------------------------------------
(* Positions that are too old.                                               *)

LEMMA MulPos ==
  ASSUME NEW a \in Nat \ {0}, NEW p \in Nat \ {0}
  PROVE  a * p >= p
  <1>1. a = (a - 1) + 1 /\ a - 1 \in Nat
    OBVIOUS
  <1>2. ((a - 1) + 1) * p = (a - 1) * p + p /\ (a - 1) * p \in Nat
    OBVIOUS
  <1> QED BY <1>1, <1>2

LEMMA DivUnique ==
  ASSUME NEW p \in Nat \ {0}, NEW q \in Int, NEW q2 \in Int,
         NEW r \in 0 .. p - 1, NEW r2 \in 0 .. p - 1, p * q + r = p * q2 + r2
  PROVE  q = q2
  <1>1. p * (q - q2) = r2 - r
    OBVIOUS
  <1>2. CASE q > q2
    <2>1. (q - q2) * p >= p
      BY <1>2, MulPos
    <2> QED BY <1>1, <2>1
  <1>3. CASE q2 > q
    <2>1. (q2 - q) * p >= p
      BY <1>3, MulPos
    <2>2. (q2 - q) * p = r - r2
      BY <1>1
    <2> QED BY <2>1, <2>2
  <1> QED BY <1>2, <1>3

LEMMA DivDef ==
  ASSUME NEW p \in Nat \ {0}, NEW n \in Int
  PROVE  \E r \in 0 .. p - 1 : n \div p \in Int /\ n = p * (n \div p) + r
  <1>1. n \div p \in Int
    OBVIOUS
  <1>2. p * (n \div p) <= n /\ n < p * (n \div p + 1)
    OBVIOUS
  <1>3. ASSUME NEW q \in Int, p * q <= n, n < p * (q + 1) PROVE \E r \in 0 .. p - 1 : n = p * q + r
    <2>1. p * (q + 1) = p * q + p /\ p * q \in Int
      OBVIOUS
    <2>2. n - p * q \in 0 .. p - 1 /\ n = p * q + (n - p * q)
      BY <1>3, <2>1
    <2> QED BY <2>2
  <1> QED BY <1>1, <1>2, <1>3

\* An age counted from the start of a bar is a number of bars.
LEMMA AgeIsBars ==
  ASSUME NEW p \in Nat \ {0}, NEW t \in Int, NEW b \in Int
  PROVE  (t - b * p) \div p = t \div p - b
  <1>1. t - b * p \in Int
    OBVIOUS
  <1>2. PICK r \in 0 .. p - 1 : (t - b * p) \div p \in Int /\ t - b * p = p * ((t - b * p) \div p) + r
    BY <1>1, DivDef
  <1>3. PICK u \in 0 .. p - 1 : t \div p \in Int /\ t = p * (t \div p) + u
    BY DivDef
  <1>4. ASSUME NEW q \in Int, t - b * p = p * q + r
        PROVE  q = t \div p - b
    <2>1. p * (q + b) + r = p * q + b * p + r /\ q + b \in Int
      BY <1>4
    <2>2. p * (q + b) + r = p * (t \div p) + u
      BY <2>1, <1>3, <1>4
    <2>3. q + b = t \div p
      BY <1>3, <2>1, <2>2, DivUnique
    <2> QED BY <1>3, <2>3
  <1> QED BY <1>2, <1>4

\* The position is old enough for calcPositionAgingExit.
Old(s) == Bar(now) - Bar(opened[s]) >= MaxAge

\* A position that was there at the start of the cycle and has been decided on was asked
\* to go if it is old.
AgeInv ==
  /\ steady \subseteq Open
  /\ \A s \in Symbols : at[s] \in {"venue", "aging", "exit"} => s \in asked
  /\ pc = "decide" => \A s \in steady : at[s] \notin {"due", "stale"} /\ Old(s) => s \in asked

LEMMA OldIsAged ==
  ASSUME CycleTypeOK, NEW s \in Symbols
  PROVE  AgeOf(s, now) >= MaxAge <=> Old(s)
  <1>1. Period \in Nat \ {0} /\ now \in Int /\ Bar(opened[s]) \in Int /\ Bar(now) \in Int
    BY CycleAssumption DEF CycleTypeOK, Bar
  <1>2. AgeOf(s, now) = Bar(now) - Bar(opened[s])
    BY <1>1, AgeIsBars DEF AgeOf, Bar
  <1> QED BY <1>2 DEF Old

LEMMA AgeInitInv == CycleInit => AgeInv
  BY DEF CycleInit, AgeInv

LEMMA AgeStep ==
  ASSUME EngineInv, AgeInv, [CycleNext]_cycleVars
  PROVE  AgeInv'
  <1>t. CycleTypeOK /\ CycleTypeOK' /\ PhaseInv /\ PhaseInv'
    BY EngineStep DEF EngineInv
  <1>1. CASE StartCycle
    <2>1. pc' = "regime" /\ steady' = Open /\ opened' = opened
      BY <1>1 DEF StartCycle
    <2>2. \A s \in Symbols : at'[s] \in {"due", "stale"}
      BY <1>1 DEF StartCycle
    <2> QED BY <2>1, <2>2 DEF AgeInv, Open
  <1>2. CASE Regime
    BY <1>t, <1>2 DEF Regime, AgeInv, Open
  <1>3. CASE CashDone
    BY <1>t, <1>3 DEF CashDone, AgeInv, PhaseInv, Open, CycleTypeOK
  <1>4. CASE DecideDone \/ Tick
    <2>1. pc' # "decide" /\ UNCHANGED <<opened, at, steady, asked>>
      BY <1>4 DEF DecideDone, Tick
    <2> QED BY <2>1 DEF AgeInv, Open
  <1>5. CASE Finish \/ Throw \/ Crash
    <2>1. pc' = "idle" /\ steady' = {} /\ at' = [s \in Symbols |-> "out"]
      BY <1>5 DEF Finish, Throw, Crash, Ended
    <2> QED BY <2>1 DEF AgeInv
  <1>6. ASSUME NEW s \in Symbols, CashSell(s) \/ RiskSell(s) PROVE AgeInv'
    <2>1. /\ UNCHANGED <<now, pc, at>> /\ asked \subseteq asked'
          /\ UNCHANGED <<opened, steady>> \/ (opened' = [opened EXCEPT ![s] = 0] /\ steady' = steady \ {s})
      BY <1>6 DEF CashSell, RiskSell, Sold, Unsold
    <2>2. \A t \in steady' : t \in steady /\ t \in Symbols /\ opened'[t] = opened[t]
      BY <1>t, <2>1 DEF CycleTypeOK
    <2> QED BY <1>t, <2>1, <2>2 DEF AgeInv, Old, Open, CycleTypeOK
  <1>7. ASSUME NEW s \in Symbols, Decide(s) PROVE AgeInv'
    <2>1. UNCHANGED <<now, opened, pc, steady>>
      BY <1>7 DEF Decide
    <2>2. PICK step \in Places :
            /\ at' = [at EXCEPT ![s] = step]
            /\ asked' = IF step \in {"venue", "aging", "exit"} THEN asked \cup {s} ELSE asked
            /\ opened[s] # 0 /\ AgeOf(s, now) >= MaxAge => step \in {"venue", "aging"}
      BY <1>7, Ways DEF Decide, Places
    <2>3. s \in steady /\ Old(s) => s \in asked'
      BY <2>2, OldIsAged, <1>t DEF AgeInv, Open
    <2>4. \A t \in Symbols : t # s => at'[t] = at[t]
      BY <1>t, <2>2 DEF CycleTypeOK
    <2>5. at'[s] = step
      BY <1>t, <2>2 DEF CycleTypeOK
    <2>6. \A t \in Symbols : at'[t] \in {"venue", "aging", "exit"} => t \in asked'
      BY <2>2, <2>4, <2>5 DEF AgeInv
    <2>7. pc' = "decide" => \A t \in steady' : at'[t] \notin {"due", "stale"} /\ Old(t)' => t \in asked'
      BY <1>t, <2>1, <2>2, <2>3, <2>4 DEF AgeInv, Old, CycleTypeOK
    <2> QED BY <2>1, <2>6, <2>7 DEF AgeInv, Open
  <1>8. ASSUME NEW s \in Symbols, Skip(s) PROVE AgeInv'
    <2>1. UNCHANGED <<now, opened, pc, steady, asked>> /\ at' = [at EXCEPT ![s] = "stale"]
      BY <1>8 DEF Skip
    <2> QED BY <1>t, <2>1 DEF AgeInv, Old, Open, CycleTypeOK
  <1>9. ASSUME NEW s \in Symbols, SellAnswer(s) \/ HoldAnswer(s) PROVE AgeInv'
    <2>1. /\ UNCHANGED <<now, pc, asked>> /\ at[s] \in {"venue", "aging", "exit", "hold"}
          /\ UNCHANGED <<opened, steady>> \/ (opened' = [opened EXCEPT ![s] = 0] /\ steady' = steady \ {s})
      BY <1>9 DEF SellAnswer, HoldAnswer, Sold, Unsold
    <2>2. PICK step \in {"out", "hold", "exit", "aging"} :
            /\ at' = [at EXCEPT ![s] = step]
            /\ at[s] = "hold" => step = "out"
      BY <1>9, Ways DEF SellAnswer, HoldAnswer
    <2>3. \A t \in steady' : t \in steady /\ t \in Symbols /\ opened'[t] = opened[t]
      BY <1>t, <2>1 DEF CycleTypeOK
    <2>4. \A t \in Symbols : t # s => at'[t] = at[t]
      BY <1>t, <2>2 DEF CycleTypeOK
    <2>5. at'[s] = step
      BY <1>t, <2>2 DEF CycleTypeOK
    <2>6. \A t \in Symbols : at'[t] \in {"venue", "aging", "exit"} => t \in asked'
      BY <2>1, <2>2, <2>4, <2>5 DEF AgeInv
    <2>7. steady' \subseteq Open'
      BY <2>3 DEF AgeInv, Open
    <2>8. pc' = "decide" => \A t \in steady' : at'[t] \notin {"due", "stale"} /\ Old(t)' => t \in asked'
      BY <2>1, <2>3, <2>4 DEF AgeInv, Old
    <2> QED BY <2>6, <2>7, <2>8 DEF AgeInv
  <1>10. ASSUME NEW s \in Symbols, Enter(s) \/ BuyAnswer(s) PROVE AgeInv'
    <2>1. pc' = "enter" /\ UNCHANGED <<steady, asked>>
      BY <1>t, <1>10 DEF Enter, BuyAnswer, PhaseInv, CycleTypeOK, Phases
    <2>2. at' = [at EXCEPT ![s] = "out"] \/ at' = [at EXCEPT ![s] = "buy"]
      BY <1>10 DEF Enter, BuyAnswer
    <2>3. opened' = opened \/ opened' = [opened EXCEPT ![s] = now]
      BY <1>10 DEF Enter, BuyAnswer
    <2>4. Open \subseteq Open'
      BY <1>t, <2>3 DEF Open, CycleTypeOK
    <2> QED BY <1>t, <2>1, <2>2, <2>4 DEF AgeInv, CycleTypeOK
  <1>11. CASE UNCHANGED cycleVars
    BY <1>11 DEF cycleVars, AgeInv, Old, Open
  <1> QED BY <1>1, <1>2, <1>3, <1>4, <1>5, <1>6, <1>7, <1>8, <1>9, <1>10, <1>11 DEF CycleNext, CycleStep

(* When phase A is over each position that is MaxAge bars old has been asked to go, however *)
(* late in its bar it filled, unless the candles of its coin are stale; for any length of a   *)
(* bar and any age.                                                                        *)
THEOREM OldPositionsAreAsked == CycleSpec => OldPositionsAreSold
  <1>1. EngineInv /\ AgeInv /\ [CycleNext]_cycleVars => EngineInv' /\ AgeInv'
    BY EngineStep, AgeStep
  <1>2. EngineInv /\ AgeInv /\ [CycleNext]_cycleVars =>
          [DecideDone => \A s \in steady :
             Bar(now) - Bar(opened[s]) >= MaxAge => s \in asked \/ at[s] = "stale"]_cycleVars
    BY DEF DecideDone, AgeInv, Old, EngineInv, CycleTypeOK
  <1> QED BY EngineInitInv, AgeInitInv, <1>1, <1>2, PTL DEF CycleSpec, OldPositionsAreSold

-----------------------------------------------------------------------------
(* The loss brakes: the values the variables take, and what the log has. *)

Sale    == [day : Nat, kind : Kinds, pnl : Int]
Manager == [pnl : Int, count : Nat, blocked : BOOLEAN, equity : Nat, day : Nat]

BrakeTypeOK ==
  /\ rm \in Manager /\ rm.day <= today
  /\ today \in 0 .. MaxDay
  /\ log \in Seq(Sale)
  /\ sales \in Nat /\ own \in Int /\ skewed \in BOOLEAN
  /\ ledger \in [0 .. MaxDay -> Int] /\ weeks \in [0 .. MaxDay -> Int]

\* The places in a log of the engine's sales of a day, of the sales since a day, and of the
\* sales of the week that ended with one.
EnginesOn(s, day)  == {i \in DOMAIN s : s[i].day = day /\ s[i].kind = "engine"}
From(s, first)     == {i \in DOMAIN s : s[i].day >= first}
WeekTo(s, last)    == {i \in last .. Len(s) : s[last].day - s[i].day <= Week}
PnLs(s)            == [i \in DOMAIN s |-> s[i].pnl]
Total(s, places)   == SumFunctionOnSet(PnLs(s), places)

\* What the log has, as long as it has every sale: the engine's P&L of the day, the P&L of all
\* since any day, and each day's worst week as a sale with the week it ended.
Told ==
  /\ Len(log) = sales
  /\ own = Total(log, EnginesOn(log, today))
  /\ \A first \in Int : Since(ledger, first) = Total(log, From(log, first))
  /\ \A d \in 0 .. MaxDay :
       \/ weeks[d] = 0
       \/ \E last \in DOMAIN log : log[last].day = d /\ weeks[d] = Total(log, WeekTo(log, last))

BrakeInv ==
  /\ BrakeTypeOK
  /\ \A i \in DOMAIN log : log[i].day <= today
  /\ \A d \in 0 .. MaxDay : d > today => ledger[d] = 0
  /\ sales <= MaxTrades => Told
  /\ skewed \/ own = IF rm.day = today THEN rm.pnl ELSE 0

-----------------------------------------------------------------------------
(* Sums over a log that a sale is put in front of. *)

LEMMA LogIsFinite ==
  ASSUME NEW s \in Seq(Sale), NEW S \in SUBSET DOMAIN s
  PROVE  Summable(PnLs(s), S) /\ Total(s, S) \in Int
  <1>1. IsFiniteSet(1 .. Len(s)) /\ DOMAIN s = 1 .. Len(s)
    BY FS_Interval
  <1>2. IsFiniteSet(S)
    BY <1>1, FS_Subset
  <1>3. \A i \in DOMAIN s : s[i] \in Sale /\ PnLs(s)[i] = s[i].pnl
    BY DEF PnLs
  <1>4. Summable(PnLs(s), S)
    BY <1>2, <1>3 DEF Summable, Sale
  <1>5. SumFunctionOnSet(PnLs(s), S) \in Int
    BY <1>4, SumIsInt
  <1> QED BY <1>4, <1>5 DEF Total

Later(places) == {i + 1 : i \in places}
Fronted(r, e, s) == r = <<e>> \o s /\ s \in Seq(Sale) /\ e \in Sale

LEMMA TotalGrows ==
  ASSUME NEW s, NEW e, NEW r, Fronted(r, e, s), NEW S \in SUBSET DOMAIN s
  PROVE  /\ Total(r, Later(S)) = Total(s, S)
         /\ Total(r, {1} \cup Later(S)) = e.pnl + Total(s, S)
  <1>1. /\ r \in Seq(Sale) /\ Len(r) = Len(s) + 1 /\ r[1] = e /\ \A i \in DOMAIN s : i + 1 \in DOMAIN r /\ r[i + 1] = s[i]
        /\ Len(s) \in Nat /\ DOMAIN s = 1 .. Len(s) /\ DOMAIN r = 1 .. Len(s) + 1
    BY DEF Fronted
  <1>2. Summable(PnLs(s), S)
    BY LogIsFinite DEF Fronted
  <1>4. Total(r, Later(S)) = Total(s, S)
    <2> DEFINE m == [i \in S |-> i + 1]
    <2>1. \A i \in S : i \in Int /\ i + 1 \in DOMAIN r /\ m[i] = i + 1
      BY <1>1
    <2>2. \A i \in S : PnLs(r)[m[i]] = PnLs(s)[i]
      BY <1>1, <2>1 DEF PnLs
    <2>3. Renames(m, PnLs(s), S, PnLs(r), Later(S))
      <3>1. Later(S) = {m[i] : i \in S}
        BY DEF Later
      <3>2. \A i, j \in S : i # j => m[i] # m[j]
        BY <2>1
      <3> HIDE DEF m
      <3> QED BY <2>2, <3>1, <3>2 DEF Renames
    <2> HIDE DEF m
    <2>4. SumFunctionOnSet(PnLs(r), Later(S)) = SumFunctionOnSet(PnLs(s), S)
      BY <1>2, <2>3, SumMoves
    <2> QED BY <2>4 DEF Total
  <1>5. Total(r, {1} \cup Later(S)) = e.pnl + Total(s, S)
    <2> DEFINE V == {1} \cup Later(S)
    <2>1. V \in SUBSET DOMAIN r /\ 1 \in V /\ V \ {1} = Later(S)
      <3>1. 1 \in DOMAIN r /\ 1 \notin Later(S)
        BY <1>1 DEF Later
      <3>2. Later(S) \subseteq DOMAIN r
        BY <1>1 DEF Later
      <3> QED BY <3>1, <3>2
    <2> HIDE DEF V
    <2>2. Summable(PnLs(r), V)
      BY <1>1, <2>1, LogIsFinite
    <2> DEFINE one == 1
               f == PnLs(r)
    <2>5. one \in V
      BY <2>1
    <2> HIDE DEF one
    <2>6. Summable(f, V)
      BY <2>2
    <2> HIDE DEF f
    <2>7. SumFunctionOnSet(f, V) = f[one] + SumFunctionOnSet(f, V \ {one})
      BY <2>5, <2>6, SumTakes
    <2>3. SumFunctionOnSet(PnLs(r), V) = PnLs(r)[1] + SumFunctionOnSet(PnLs(r), V \ {1})
      BY <2>7 DEF one, f
    <2>4. PnLs(r)[1] = e.pnl
      BY <1>1 DEF PnLs
    <2> QED BY <1>4, <2>1, <2>3, <2>4 DEF Total, V
  <1> QED BY <1>4, <1>5

\* The places of a log with a sale put in front.
LEMMA PlacesGrow ==
  ASSUME NEW s, NEW e, NEW r, Fronted(r, e, s)
  PROVE  /\ \A day : EnginesOn(r, day) = (IF e.day = day /\ e.kind = "engine" THEN {1} ELSE {}) \cup Later(EnginesOn(s, day))
         /\ \A first : From(r, first) = (IF e.day >= first THEN {1} ELSE {}) \cup Later(From(s, first))
         /\ \A last \in DOMAIN s : last + 1 \in DOMAIN r /\ WeekTo(r, last + 1) = Later(WeekTo(s, last))
  <1>1. /\ DOMAIN r = 1 .. Len(s) + 1 /\ DOMAIN s = 1 .. Len(s) /\ Len(s) \in Nat /\ Len(r) = Len(s) + 1
        /\ r[1] = e /\ \A i \in DOMAIN s : i + 1 \in DOMAIN r /\ r[i + 1] = s[i]
    BY DEF Fronted
  <1>2. \A i \in DOMAIN r : i = 1 \/ (i # 1 /\ i - 1 \in DOMAIN s /\ i = (i - 1) + 1 /\ r[i] = s[i - 1])
    <2> TAKE i \in DOMAIN r
    <2>1. i # 1 => i - 1 \in DOMAIN s /\ i = (i - 1) + 1
      BY <1>1
    <2> QED BY <1>1, <2>1
  <1>3. \A i \in DOMAIN s : i + 1 # 1 /\ i \in Int
    BY <1>1
  <1>4. ASSUME NEW day
        PROVE  EnginesOn(r, day) = (IF e.day = day /\ e.kind = "engine" THEN {1} ELSE {}) \cup Later(EnginesOn(s, day))
    BY <1>1, <1>2, <1>3 DEF EnginesOn, Later
  <1>5. ASSUME NEW first
        PROVE  From(r, first) = (IF e.day >= first THEN {1} ELSE {}) \cup Later(From(s, first))
    BY <1>1, <1>2, <1>3 DEF From, Later
  <1>6. ASSUME NEW last \in DOMAIN s PROVE WeekTo(r, last + 1) = Later(WeekTo(s, last))
    <2>1. \A i \in last + 1 .. Len(r) : i \in DOMAIN r /\ i # 1 /\ i - 1 \in last .. Len(s)
      BY <1>1
    <2>2. \A i \in last .. Len(s) : i \in DOMAIN s /\ i + 1 \in last + 1 .. Len(r)
      BY <1>1
    <2>3. r[last + 1] = s[last]
      BY <1>1
    <2>4. ASSUME NEW i \in WeekTo(r, last + 1) PROVE i \in Later(WeekTo(s, last))
      <3>1. i \in last + 1 .. Len(r) /\ r[last + 1].day - r[i].day <= Week
        BY DEF WeekTo
      <3>2. i - 1 \in last .. Len(s) /\ r[i] = s[i - 1] /\ i = (i - 1) + 1
        BY <1>2, <2>1, <3>1
      <3>3. i - 1 \in WeekTo(s, last)
        BY <2>3, <3>1, <3>2 DEF WeekTo
      <3> QED BY <3>2, <3>3 DEF Later
    <2>5. ASSUME NEW i \in WeekTo(s, last) PROVE i + 1 \in WeekTo(r, last + 1)
      <3>1. i \in last .. Len(s) /\ s[last].day - s[i].day <= Week
        BY DEF WeekTo
      <3>2. i + 1 \in last + 1 .. Len(r) /\ r[i + 1] = s[i]
        BY <1>1, <2>2, <3>1
      <3> QED BY <2>3, <3>1, <3>2 DEF WeekTo
    <2> QED BY <2>4, <2>5 DEF Later
  <1> QED BY <1>1, <1>4, <1>5, <1>6

-----------------------------------------------------------------------------
(* The ledger. *)

LEMMA DaysAreFinite ==
  ASSUME BrakeTypeOK, NEW first
  PROVE  /\ {d \in 0 .. today : d >= first} \in SUBSET (0 .. MaxDay)
         /\ Summable(ledger, {d \in 0 .. today : d >= first})
  <1>1. today \in Nat /\ MaxDay \in Nat /\ today <= MaxDay
    BY BrakeAssumption DEF BrakeTypeOK
  <1>2. IsFiniteSet(0 .. today)
    BY <1>1, FS_Interval
  <1>3. IsFiniteSet({d \in 0 .. today : d >= first})
    BY <1>2, FS_Subset
  <1>4. {d \in 0 .. today : d >= first} \in SUBSET (0 .. MaxDay)
    BY <1>1
  <1> QED BY <1>3, <1>4 DEF Summable, BrakeTypeOK

LEMMA SinceBooks ==
  ASSUME BrakeTypeOK, NEW g \in Int, NEW first \in Int
  PROVE  Since([ledger EXCEPT ![today] = @ + g], first)
           = IF today >= first THEN Since(ledger, first) + g ELSE Since(ledger, first)
  <1> DEFINE S == {d \in 0 .. today : d >= first}
             l == [ledger EXCEPT ![today] = @ + g]
  <1>1. S \in SUBSET (0 .. MaxDay) /\ Summable(ledger, S)
    BY DaysAreFinite
  <1>2. /\ today \in Nat /\ l[today] = ledger[today] + g /\ ledger[today] \in Int
        /\ \A d \in 0 .. MaxDay : d # today => l[d] = ledger[d]
        /\ \A d \in 0 .. MaxDay : l[d] \in Int
    BY BrakeAssumption DEF BrakeTypeOK
  <1>3. Since(l, first) = SumFunctionOnSet(l, S) /\ Since(ledger, first) = SumFunctionOnSet(ledger, S)
    BY DEF Since
  <1>4. today >= first <=> today \in S
    BY <1>2
  <1> HIDE DEF S, l
  <1>5. CASE today \in S
    <2>1. Summable(l, S)
      BY <1>1, <1>2 DEF Summable
    <2>2. SumFunctionOnSet(l, S) = l[today] + SumFunctionOnSet(l, S \ {today})
      BY <1>5, <2>1, SumTakes
    <2>3. /\ SumFunctionOnSet(ledger, S) = ledger[today] + SumFunctionOnSet(ledger, S \ {today})
          /\ Summable(ledger, S \ {today})
      BY <1>1, <1>5, SumTakes
    <2>4. SumFunctionOnSet(ledger, S \ {today}) \in Int
      BY <2>3, SumIsInt
    <2>5. SumFunctionOnSet(l, S \ {today}) = SumFunctionOnSet(ledger, S \ {today})
      <3>1. \A d \in S \ {today} : l[d] = ledger[d]
        BY <1>1, <1>2
      <3> QED BY <2>3, <3>1, SumAgrees
    <2>6. SumFunctionOnSet(l, S) = SumFunctionOnSet(ledger, S) + g
      BY <1>2, <2>2, <2>3, <2>4, <2>5
    <2> QED BY <1>3, <1>4, <1>5, <2>6 DEF l
  <1>6. CASE today \notin S
    <2>1. \A d \in S : l[d] = ledger[d]
      BY <1>1, <1>2, <1>6
    <2>2. SumFunctionOnSet(l, S) = SumFunctionOnSet(ledger, S)
      BY <1>1, <2>1, SumAgrees
    <2> QED BY <1>3, <1>4, <1>6, <2>2 DEF l
  <1> QED BY <1>5, <1>6

\* A new day has nothing yet.
LEMMA SinceMidnight ==
  ASSUME BrakeInv, Midnight, NEW first \in Int
  PROVE  Since(ledger, first)' = Since(ledger, first)
  <1> DEFINE S == {d \in 0 .. today : d >= first}
             T == {d \in 0 .. today' : d >= first}
  <1>1. today' = today + 1 /\ ledger' = ledger /\ today \in Nat /\ today + 1 \in 0 .. MaxDay
        /\ ledger[today + 1] = 0
    BY BrakeAssumption DEF Midnight, BrakeInv, BrakeTypeOK
  <1>2. Since(ledger, first)' = SumFunctionOnSet(ledger, T) /\ Since(ledger, first) = SumFunctionOnSet(ledger, S)
    BY <1>1 DEF Since
  <1>3. Summable(ledger, S)
    BY DaysAreFinite DEF BrakeInv
  <1>4. T = IF today + 1 >= first THEN S \cup {today + 1} ELSE S
    BY <1>1
  <1>5. today + 1 \notin S
    BY <1>1
  <1> HIDE DEF S, T
  <1>6. CASE today + 1 >= first
    <2>1. T \ {today + 1} = S /\ today + 1 \in T
      BY <1>4, <1>5, <1>6
    <2>2. Summable(ledger, T)
      BY <1>1, <1>3, <1>4, <1>6, FS_AddElement DEF Summable
    <2>3. SumFunctionOnSet(ledger, T) = ledger[today + 1] + SumFunctionOnSet(ledger, S)
      BY <2>1, <2>2, SumTakes
    <2>4. SumFunctionOnSet(ledger, S) \in Int
      BY <1>3, SumIsInt
    <2> QED BY <1>1, <1>2, <2>3, <2>4
  <1>7. CASE ~(today + 1 >= first)
    BY <1>2, <1>4, <1>7
  <1> QED BY <1>6, <1>7
-----------------------------------------------------------------------------
(* The steps. *)

LEMMA RollTypes ==
  ASSUME BrakeTypeOK
  PROVE  Rolled(rm, today) \in Manager /\ Rolled(rm, today).day = today /\ Rolled(rm, today).equity = rm.equity
         /\ Rolled(rm, today).pnl = IF rm.day = today THEN rm.pnl ELSE 0
  <1>1. today \in Nat
    BY BrakeAssumption DEF BrakeTypeOK
  <1>2. rm \in Manager
    BY DEF BrakeTypeOK
  <1>3. CASE rm.day = today
    BY <1>2, <1>3 DEF Rolled
  <1>4. CASE rm.day # today
    <2>1. Rolled(rm, today) = [pnl |-> 0, count |-> 0, blocked |-> FALSE, equity |-> rm.equity, day |-> today]
      BY <1>2, <1>4 DEF Rolled, Manager
    <2>2. rm.equity \in Nat
      BY <1>2 DEF Manager
    <2> QED BY <1>1, <1>4, <2>1, <2>2 DEF Manager
  <1> QED BY <1>3, <1>4

LEMMA BookTypes ==
  ASSUME NEW q \in Manager, NEW x \in Int, NEW y \in Nat
  PROVE  /\ [q EXCEPT !.pnl = x, !.count = y] \in Manager
         /\ [q EXCEPT !.pnl = x, !.count = y].pnl = x
         /\ [q EXCEPT !.pnl = x, !.count = y].day = q.day
         /\ [q EXCEPT !.pnl = x, !.count = y].equity = q.equity
  BY DEF Manager

LEMMA BrakeSells ==
  ASSUME BrakeInv, NEW k \in Kinds, Sell(k)
  PROVE  BrakeInv'
  <1>0. BrakeTypeOK /\ today \in Nat /\ today \in 0 .. MaxDay /\ MaxTrades \in Nat
    BY BrakeAssumption DEF BrakeInv, BrakeTypeOK
  <1>1. PICK g \in Gains :
          /\ log' = Newest(<<[day |-> today, kind |-> k, pnl |-> g]>> \o log)
          /\ rm' = IF k = "engine" THEN Recorded(rm, today, g) ELSE rm
          /\ own' = IF k = "engine" THEN own + g ELSE own
          /\ ledger' = [ledger EXCEPT ![today] = @ + g]
          /\ weeks' = [weeks EXCEPT ![today] = Min({@, Since(ledger', today - Week)})]
    BY DEF Sell
  <1> DEFINE e == [day |-> today, kind |-> k, pnl |-> g]
             r == <<e>> \o log
  <1>2. today' = today /\ sales' = sales + 1 /\ skewed' = skewed /\ g \in Int
    BY BrakeAssumption DEF Sell
  <1>3. e \in Sale /\ e.day = today /\ e.kind = k /\ e.pnl = g
    BY <1>0, <1>2 DEF Sale
  <1>4. log' = Newest(r)
    BY <1>1
  <1> HIDE DEF e
  <1>5. r \in Seq(Sale) /\ Len(r) = Len(log) + 1 /\ \A i \in DOMAIN r : r[i] = e \/ \E j \in DOMAIN log : r[i] = log[j]
    BY <1>0, <1>3 DEF BrakeTypeOK
  <1> HIDE DEF r
  <1>6. log' \in Seq(Sale) /\ (\A i \in DOMAIN log' : i \in DOMAIN r /\ log'[i] = r[i]) /\ (Len(r) <= MaxTrades => log' = r)
    <2>1. Min({Len(r), MaxTrades}) \in Nat /\ Min({Len(r), MaxTrades}) <= Len(r)
          /\ (Len(r) <= MaxTrades => Min({Len(r), MaxTrades}) = Len(r))
      BY <1>0, <1>5 DEF Min
    <2> DEFINE n == Min({Len(r), MaxTrades})
    <2>2. log' = SubSeq(r, 1, n)
      BY <1>4 DEF Newest
    <2>3. n \in Nat /\ n <= Len(r) /\ (Len(r) <= MaxTrades => n = Len(r))
      BY <2>1
    <2> HIDE DEF n
    <2>4. log' \in Seq(Sale) /\ Len(log') = n /\ \A i \in 1 .. n : log'[i] = r[i]
      BY <1>5, <2>2, <2>3
    <2>5. Len(r) <= MaxTrades => log' = r
      BY <1>5, <2>2, <2>3
    <2> QED BY <1>5, <2>3, <2>4, <2>5
  <1>7. \A i \in DOMAIN log' : log'[i].day <= today'
    BY <1>0, <1>2, <1>3, <1>5, <1>6 DEF BrakeInv
  <1>8. Since(ledger', today - Week) \in Int /\ ledger' \in [0 .. MaxDay -> Int]
    <2>1. ledger' \in [0 .. MaxDay -> Int]
      BY <1>0, <1>1, <1>2 DEF BrakeTypeOK
    <2> DEFINE S == {d \in 0 .. today : d >= today - Week}
    <2>2. S \in SUBSET (0 .. MaxDay) /\ Summable(ledger, S)
      BY <1>0, DaysAreFinite
    <2> HIDE DEF S
    <2>3. Summable(ledger', S)
      BY <2>1, <2>2 DEF Summable
    <2>4. SumFunctionOnSet(ledger', S) \in Int
      BY <2>3, SumIsInt
    <2> QED BY <2>1, <2>4 DEF Since, S
  <1>9. weeks' \in [0 .. MaxDay -> Int] /\ (weeks'[today] = weeks[today] \/ weeks'[today] = Since(ledger', today - Week))
        /\ \A d \in 0 .. MaxDay : d # today => weeks'[d] = weeks[d]
    <2> DEFINE v == Since(ledger', today - Week)
    <2>1. weeks \in [0 .. MaxDay -> Int] /\ v \in Int /\ weeks' = [weeks EXCEPT ![today] = Min({@, v})]
      BY <1>0, <1>1, <1>8 DEF BrakeTypeOK
    <2> HIDE DEF v
    <2>2. Min({weeks[today], v}) \in {weeks[today], v}
      BY <1>0, <2>1 DEF Min
    <2> QED BY <1>0, <2>1, <2>2 DEF v
  <1>10. rm' \in Manager /\ rm'.day <= today'
         /\ (k = "engine" => rm'.pnl = (IF rm.day = today THEN rm.pnl ELSE 0) + g /\ rm'.day = today)
    <2>1. CASE k = "engine"
      <3>1. rm' = Recorded(rm, today, g)
        BY <1>1, <2>1
      <3> DEFINE q == Rolled(rm, today)
      <3>2. q \in Manager /\ q.day = today /\ q.pnl = IF rm.day = today THEN rm.pnl ELSE 0
        BY <1>0, RollTypes
      <3> HIDE DEF q
      <3> DEFINE p == [q EXCEPT !.pnl = @ + g, !.count = @ + 1]
      <3>4. p \in Manager /\ p.pnl = q.pnl + g /\ p.day = today
        <4> DEFINE x == q.pnl + g
                   y == q.count + 1
        <4>1. x \in Int /\ y \in Nat
          BY <1>2, <3>2 DEF Manager
        <4>2. p = [q EXCEPT !.pnl = x, !.count = y]
          OBVIOUS
        <4> HIDE DEF x, y, p
        <4>3. p \in Manager /\ p.pnl = x /\ p.day = q.day
          BY <3>2, <4>1, <4>2, BookTypes
        <4> QED BY <3>2, <4>3 DEF x
      <3>5. rm' = [p EXCEPT !.blocked = Exceeded(p)]
        BY <3>1 DEF Recorded, q
      <3> HIDE DEF p
      <3>6. Exceeded(p) \in BOOLEAN
        BY DEF Exceeded
      <3>7. rm' \in Manager /\ rm'.pnl = p.pnl /\ rm'.day = p.day
        BY <3>4, <3>5, <3>6 DEF Manager
      <3> QED BY <1>0, <1>2, <3>2, <3>4, <3>7
    <2>2. CASE k # "engine"
      BY <1>0, <1>1, <1>2, <2>2 DEF BrakeTypeOK
    <2> QED BY <2>1, <2>2
  <1>11. BrakeTypeOK'
    BY <1>0, <1>1, <1>2, <1>6, <1>8, <1>9, <1>10 DEF BrakeTypeOK
  <1>12. \A d \in 0 .. MaxDay : d > today' => ledger'[d] = 0
    BY <1>0, <1>1, <1>2 DEF BrakeInv, BrakeTypeOK
  <1>13. skewed' \/ own' = IF rm'.day = today' THEN rm'.pnl ELSE 0
    BY <1>0, <1>1, <1>2, <1>10 DEF BrakeInv, BrakeTypeOK, Manager
  <1>14. ASSUME sales' <= MaxTrades PROVE Told'
    <2>1. sales <= MaxTrades /\ Told /\ Len(log) = sales
      BY <1>0, <1>2, <1>14 DEF BrakeInv, BrakeTypeOK, Told
    <2>2. log' = r /\ Len(log') = sales'
      BY <1>2, <1>5, <1>6, <1>14, <2>1
    <2>3. log \in Seq(Sale) /\ r = <<e>> \o log /\ Fronted(r, e, log)
      BY <1>0, <1>3 DEF BrakeTypeOK, r, Fronted
    <2>4. \A S \in SUBSET DOMAIN log : Total(r, Later(S)) = Total(log, S) /\ Total(r, {1} \cup Later(S)) = g + Total(log, S)
                                       /\ Total(log, S) \in Int
      <3> TAKE S \in SUBSET DOMAIN log
      <3>1. Total(r, Later(S)) = Total(log, S) /\ Total(r, {1} \cup Later(S)) = e.pnl + Total(log, S)
        BY <2>3, TotalGrows
      <3>2. Total(log, S) \in Int
        BY <2>3, LogIsFinite
      <3> QED BY <1>3, <3>1, <3>2
    <2>5. own' = Total(r, EnginesOn(r, today))
      <3>1. EnginesOn(r, today) = (IF k = "engine" THEN {1} ELSE {}) \cup Later(EnginesOn(log, today))
        BY <1>3, <2>3, PlacesGrow
      <3>2. EnginesOn(log, today) \in SUBSET DOMAIN log
        BY DEF EnginesOn
      <3>3. own = Total(log, EnginesOn(log, today))
        BY <2>1 DEF Told
      <3>4. CASE k = "engine"
        <4>1. Total(r, EnginesOn(r, today)) = g + own /\ own \in Int
          BY <2>4, <3>1, <3>2, <3>3, <3>4
        <4> QED BY <1>1, <1>2, <3>4, <4>1
      <3>5. CASE k # "engine"
        <4>1. EnginesOn(r, today) = Later(EnginesOn(log, today))
          BY <3>1, <3>5
        <4> QED BY <1>1, <2>4, <3>2, <3>3, <3>5, <4>1
      <3> QED BY <3>4, <3>5
    <2>6. ASSUME NEW first \in Int PROVE Since(ledger', first) = Total(r, From(r, first))
      <3>1. From(r, first) = (IF today >= first THEN {1} ELSE {}) \cup Later(From(log, first))
        BY <1>3, <2>3, PlacesGrow
      <3>2. From(log, first) \in SUBSET DOMAIN log
        BY DEF From
      <3>3. Since(ledger, first) = Total(log, From(log, first))
        BY <2>1 DEF Told
      <3>4. Since(ledger', first) = IF today >= first THEN Since(ledger, first) + g ELSE Since(ledger, first)
        BY <1>0, <1>1, <1>2, SinceBooks
      <3>5. CASE today >= first
        <4>1. Total(r, From(r, first)) = g + Total(log, From(log, first)) /\ Total(log, From(log, first)) \in Int
          BY <2>4, <3>1, <3>2, <3>5
        <4> QED BY <1>2, <3>3, <3>4, <3>5, <4>1
      <3>6. CASE ~(today >= first)
        <4>1. From(r, first) = Later(From(log, first))
          BY <3>1, <3>6
        <4> QED BY <2>4, <3>2, <3>3, <3>4, <3>6, <4>1
      <3> QED BY <3>5, <3>6
    <2>7. ASSUME NEW d \in 0 .. MaxDay, weeks'[d] = weeks[d], weeks[d] # 0
          PROVE  \E last \in DOMAIN r : r[last].day = d /\ weeks'[d] = Total(r, WeekTo(r, last))
      <3>1. PICK last \in DOMAIN log : log[last].day = d /\ weeks[d] = Total(log, WeekTo(log, last))
        BY <2>1, <2>7 DEF Told
      <3>2. last + 1 \in DOMAIN r /\ WeekTo(r, last + 1) = Later(WeekTo(log, last))
        BY <1>3, <2>3, PlacesGrow
      <3>3. r[last + 1] = log[last]
        BY <2>3, <3>1
      <3>4. WeekTo(log, last) \in SUBSET DOMAIN log
        BY <2>3, <3>1 DEF WeekTo
      <3>5. weeks'[d] = Total(r, WeekTo(r, last + 1))
        BY <2>4, <2>7, <3>1, <3>2, <3>4
      <3> QED BY <3>1, <3>2, <3>3, <3>5
    <2>8. ASSUME weeks'[today] = Since(ledger', today - Week)
          PROVE  \E last \in DOMAIN r : r[last].day = today /\ weeks'[today] = Total(r, WeekTo(r, last))
      <3>1. 1 \in DOMAIN r /\ r[1] = e /\ DOMAIN r = 1 .. Len(r)
        BY <2>3
      <3>2. today - Week \in Int
        BY <1>0, BrakeAssumption
      <3>3. WeekTo(r, 1) = From(r, today - Week)
        <4>1. r[1].day = today
          BY <1>3, <3>1
        <4>2. \A i \in DOMAIN r : r[i].day \in Int
          <5>1. \A i \in DOMAIN r : r[i] \in Sale
            BY <1>5
          <5> QED BY <5>1 DEF Sale
        <4>3. \A i \in DOMAIN r : today - r[i].day <= Week <=> r[i].day >= today - Week
          BY <1>0, <4>2, BrakeAssumption
        <4> QED BY <3>1, <4>1, <4>3 DEF WeekTo, From
      <3>4. weeks'[today] = Total(r, WeekTo(r, 1))
        BY <2>6, <2>8, <3>2, <3>3
      <3> QED BY <1>3, <3>1, <3>4
    <2>9. ASSUME NEW d \in 0 .. MaxDay, weeks'[d] # 0
          PROVE  \E last \in DOMAIN r : r[last].day = d /\ weeks'[d] = Total(r, WeekTo(r, last))
      <3>1. CASE weeks'[d] = weeks[d]
        BY <2>7, <2>9, <3>1
      <3>2. CASE d = today /\ weeks'[today] = Since(ledger', today - Week)
        BY <2>8, <3>2
      <3> QED BY <1>9, <3>1, <3>2
    <2>10. \A first \in Int : Since(ledger, first)' = Since(ledger', first)
      BY <1>2 DEF Since
    <2>11. \A first \in Int : Since(ledger, first)' = Total(log, From(log, first))'
      <3> TAKE first \in Int
      <3>1. Total(log, From(log, first))' = Total(r, From(r, first))
        BY <2>2 DEF Total, PnLs, From
      <3> QED BY <2>6, <2>10, <3>1
    <2>12. own' = Total(log, EnginesOn(log, today))'
      BY <1>2, <2>2, <2>5 DEF Total, PnLs, EnginesOn
    <2>13. \A d \in 0 .. MaxDay : weeks'[d] = 0 \/ \E last \in DOMAIN log' :
              log'[last].day = d /\ weeks'[d] = Total(log, WeekTo(log, last))'
      <3> SUFFICES ASSUME NEW d \in 0 .. MaxDay, weeks'[d] # 0
                   PROVE  \E last \in DOMAIN log' : log'[last].day = d /\ weeks'[d] = Total(log, WeekTo(log, last))'
        OBVIOUS
      <3>1. PICK last \in DOMAIN r : r[last].day = d /\ weeks'[d] = Total(r, WeekTo(r, last))
        BY <2>9
      <3>2. Total(log, WeekTo(log, last))' = Total(r, WeekTo(r, last))
        BY <2>2 DEF Total, PnLs, WeekTo
      <3> QED BY <2>2, <3>1, <3>2
    <2> QED BY <2>2, <2>11, <2>12, <2>13 DEF Told
  <1> QED BY <1>7, <1>11, <1>12, <1>13, <1>14 DEF BrakeInv
\* What the log has does not change as long as neither it nor the day does.
LEMMA ToldStays ==
  ASSUME Told, UNCHANGED <<today, log, sales, own, ledger, weeks>>
  PROVE  Told'
  <1>1. /\ own' = own /\ sales' = sales /\ Len(log)' = Len(log) /\ weeks' = weeks
        /\ Total(log, EnginesOn(log, today))' = Total(log, EnginesOn(log, today))
    BY DEF Total, PnLs, EnginesOn
  <1>2. \A first \in Int : Since(ledger, first)' = Since(ledger, first)
                           /\ Total(log, From(log, first))' = Total(log, From(log, first))
    BY DEF Total, PnLs, From, Since
  <1>3. \A last \in DOMAIN log : Total(log, WeekTo(log, last))' = Total(log, WeekTo(log, last))
    BY DEF Total, PnLs, WeekTo
  <1>4. log' = log
    OBVIOUS
  <1> QED BY <1>1, <1>2, <1>3, <1>4 DEF Told

LEMMA BrakeNextDay ==
  ASSUME BrakeInv, Midnight
  PROVE  BrakeInv'
  <1>1. /\ today' = today + 1 /\ own' = 0 /\ today \in Nat /\ MaxDay \in Nat /\ today < MaxDay
        /\ UNCHANGED <<rm, log, sales, skewed, ledger, weeks>>
    BY BrakeAssumption DEF Midnight, BrakeInv, BrakeTypeOK
  <1>2. BrakeTypeOK'
    BY <1>1 DEF BrakeInv, BrakeTypeOK, Manager
  <1>3. \A i \in DOMAIN log : log[i].day <= today /\ log[i].day \in Nat
    <2>1. \A i \in DOMAIN log : log[i] \in Sale
      BY DEF BrakeInv, BrakeTypeOK
    <2> QED BY <2>1 DEF BrakeInv, Sale
  <1>4. rm'.day # today'
    BY <1>1 DEF BrakeInv, BrakeTypeOK, Manager
  <1>5. ASSUME sales' <= MaxTrades PROVE Told'
    <2>1. Told
      BY <1>1, <1>5 DEF BrakeInv
    <2>2. \A first \in Int : Since(ledger, first)' = Total(log, From(log, first))'
      <3> TAKE first \in Int
      <3>1. Since(ledger, first)' = Since(ledger, first)
        BY SinceMidnight
      <3>2. Total(log, From(log, first))' = Total(log, From(log, first))
        BY <1>1 DEF Total, PnLs, From
      <3> QED BY <2>1, <3>1, <3>2 DEF Told
    <2>3. own' = Total(log, EnginesOn(log, today))'
      <3>1. EnginesOn(log, today + 1) = {}
        BY <1>1, <1>3 DEF EnginesOn
      <3>2. Total(log, EnginesOn(log, today))' = Total(log, {})
        BY <1>1, <3>1 DEF Total, PnLs, EnginesOn
      <3>3. Total(log, {}) = 0
        BY SumOfNone DEF Total
      <3> QED BY <1>1, <3>2, <3>3
    <2>4. \A d \in 0 .. MaxDay : weeks'[d] = 0 \/ \E last \in DOMAIN log' :
              log'[last].day = d /\ weeks'[d] = Total(log, WeekTo(log, last))'
      <3> SUFFICES ASSUME NEW d \in 0 .. MaxDay, weeks[d] # 0
                   PROVE  \E last \in DOMAIN log' : log'[last].day = d /\ weeks'[d] = Total(log, WeekTo(log, last))'
        BY <1>1
      <3>1. PICK last \in DOMAIN log : log[last].day = d /\ weeks[d] = Total(log, WeekTo(log, last))
        BY <2>1 DEF Told
      <3>2. Total(log, WeekTo(log, last))' = Total(log, WeekTo(log, last))
        BY <1>1 DEF Total, PnLs, WeekTo
      <3> QED BY <1>1, <3>1, <3>2
    <2> QED BY <1>1, <2>1, <2>2, <2>3, <2>4 DEF Told
  <1> QED BY <1>1, <1>2, <1>3, <1>4, <1>5 DEF BrakeInv

\* The manager's side of a step that leaves the log and the day alone.
LEMMA BrakeKeeps ==
  ASSUME BrakeInv, UNCHANGED <<today, log, sales, own, ledger, weeks>>,
         rm' \in Manager, rm'.day <= today, skewed' \in BOOLEAN,
         skewed' \/ own = IF rm'.day = today THEN rm'.pnl ELSE 0
  PROVE  BrakeInv'
  <1>1. BrakeTypeOK'
    BY DEF BrakeInv, BrakeTypeOK
  <1>2. sales' <= MaxTrades => Told'
    BY ToldStays DEF BrakeInv
  <1> QED BY <1>1, <1>2 DEF BrakeInv

\* What an entry's question leaves of the manager.
LEMMA AssessTypes ==
  ASSUME BrakeTypeOK, NEW equity \in Nat
  PROVE  LET r == Assessed(rm, today, equity)
         IN /\ r \in Manager /\ r.day = today
            /\ r.pnl = IF rm.day = today THEN rm.pnl ELSE 0
            /\ r.blocked = Exceeded(r)
  <1> DEFINE q == Rolled(rm, today)
             x == IF equity > 0 THEN equity ELSE q.equity
             p == [q EXCEPT !.equity = x]
             b == Exceeded(p)
             r == [p EXCEPT !.blocked = b]
  <1>1. q \in Manager /\ q.day = today /\ q.pnl = IF rm.day = today THEN rm.pnl ELSE 0
    BY RollTypes
  <1>2. Assessed(rm, today, equity) = r
    BY DEF Assessed
  <1> HIDE DEF q
  <1>3. x \in Nat
    BY <1>1 DEF Manager
  <1> HIDE DEF x
  <1>4. p \in Manager /\ p.day = today /\ p.pnl = q.pnl
    BY <1>1, <1>3 DEF Manager
  <1>5. b \in BOOLEAN
    BY DEF Exceeded
  <1> HIDE DEF p
  <1>6. r \in Manager /\ r.day = p.day /\ r.pnl = p.pnl /\ r.blocked = b /\ r.equity = p.equity
    <2> HIDE DEF b
    <2> QED BY <1>4, <1>5 DEF Manager
  <1>7. Exceeded(r) = Exceeded(p)
    <2> HIDE DEF r
    <2> QED BY <1>6 DEF Exceeded, Reference
  <1> HIDE DEF r
  <1> QED BY <1>1, <1>2, <1>4, <1>6, <1>7

LEMMA BrakeAsks ==
  ASSUME BrakeInv, NEW s \in Coins, NEW equity \in Equities, Ask(s, equity)
  PROVE  BrakeInv'
  <1>1. equity \in Nat /\ BrakeTypeOK
    BY BrakeAssumption DEF BrakeInv
  <1> DEFINE r == Assessed(rm, today, equity)
  <1>2. r \in Manager /\ r.day = today /\ r.pnl = IF rm.day = today THEN rm.pnl ELSE 0
    BY <1>1, AssessTypes
  <1>3. rm' = rm \/ rm' = r
    BY DEF Ask, CanTrade
  <1>4. UNCHANGED <<today, log, sales, own, skewed, ledger, weeks>>
    BY DEF Ask
  <1>5. rm' \in Manager /\ rm'.day <= today /\ (skewed' \/ own = IF rm'.day = today THEN rm'.pnl ELSE 0)
    <2> HIDE DEF r
    <2>1. today \in Nat
      BY <1>1, BrakeAssumption DEF BrakeTypeOK
    <2> QED BY <1>1, <1>2, <1>3, <1>4, <2>1 DEF BrakeInv, BrakeTypeOK
  <1> QED BY <1>1, <1>4, <1>5, BrakeKeeps DEF BrakeTypeOK

\* A restart reads the engine's P&L of the day from a log that has it all and nothing else.
LEMMA RestartReads ==
  ASSUME BrakeInv, Restart
  PROVE  /\ rm' \in Manager /\ rm'.day = today
         /\ skewed' \in BOOLEAN
         /\ ~skewed' => rm'.pnl = own
  <1> DEFINE sum == PnL(OfDay(today))
             n   == Cardinality(OfDay(today))
             q   == NewManager(today)
  <1>1. log \in Seq(Sale) /\ today \in Nat
    BY BrakeAssumption DEF BrakeInv, BrakeTypeOK
  <1>2. OfDay(today) \in SUBSET DOMAIN log
    BY DEF OfDay
  <1>3. Summable(PnLs(log), OfDay(today)) /\ Total(log, OfDay(today)) \in Int /\ sum = Total(log, OfDay(today))
    BY <1>1, <1>2, LogIsFinite DEF PnL, Total, PnLs
  <1>4. n \in Nat
    BY <1>3, FS_CardinalityType DEF Summable
  <1>5. rm' = Seeded(q, sum, n)
    BY DEF Restart, Reseeded
  <1>6. q \in Manager /\ q.pnl = 0 /\ q.day = today
    BY <1>1 DEF NewManager, Manager
  <1>7. sum \in Int
    BY <1>3
  <1> HIDE DEF q, sum, n
  <1>8. rm' \in Manager /\ rm'.day = today /\ rm'.pnl = sum
    <2>1. CASE sum = 0
      BY <1>5, <1>6, <2>1 DEF Seeded
    <2>2. CASE sum # 0
      <3> DEFINE p == [q EXCEPT !.pnl = sum, !.count = n]
                 b == Exceeded(p)
      <3>1. p \in Manager /\ p.pnl = sum /\ p.day = today
        BY <1>4, <1>6, <1>7, BookTypes
      <3>2. rm' = [p EXCEPT !.blocked = b]
        BY <1>5, <2>2 DEF Seeded
      <3>3. b \in BOOLEAN
        BY DEF Exceeded
      <3> HIDE DEF p, b
      <3> QED BY <3>1, <3>2, <3>3 DEF Manager
    <2> QED BY <2>1, <2>2
  <1>9. skewed' \in BOOLEAN
    BY DEF Restart, Reseeded
  <1>10. ASSUME ~skewed' PROVE sum = own
    <2>1. sales <= MaxTrades /\ \A i \in DOMAIN log : log[i].day = today => log[i].kind = "engine"
      <3>1. sales \in Nat /\ MaxTrades \in Nat
        BY BrakeAssumption DEF BrakeInv, BrakeTypeOK
      <3>2. ~(sales > MaxTrades \/ \E i \in DOMAIN log : log[i].day = today /\ log[i].kind # "engine")
        BY <1>10 DEF Restart, Reseeded
      <3> QED BY <3>1, <3>2
    <2>2. OfDay(today) = EnginesOn(log, today)
      BY <2>1 DEF OfDay, EnginesOn
    <2> QED BY <1>3, <2>1, <2>2 DEF BrakeInv, Told
  <1> QED BY <1>8, <1>9, <1>10

LEMMA BrakeStarts ==
  ASSUME BrakeInit
  PROVE  BrakeInv
  <1> DEFINE none == <<>>
  <1>1. /\ rm = NewManager(0) /\ today = 0 /\ log = none /\ sales = 0 /\ own = 0 /\ skewed = FALSE
        /\ ledger = [d \in 0 .. MaxDay |-> 0] /\ weeks = [d \in 0 .. MaxDay |-> 0] /\ MaxDay \in Nat
    BY BrakeAssumption DEF BrakeInit
  <1>2. rm \in Manager /\ rm.day = 0 /\ rm.pnl = 0
    BY <1>1 DEF NewManager, Manager
  <1>3. none \in Seq(Sale) /\ Len(none) = 0 /\ DOMAIN none = {}
    OBVIOUS
  <1> HIDE DEF none
  <1>4. BrakeTypeOK
    <2>1. rm \in Manager /\ rm.day <= today /\ today \in 0 .. MaxDay /\ log \in Seq(Sale)
      BY <1>1, <1>2, <1>3
    <2>2. ledger \in [0 .. MaxDay -> Int] /\ weeks \in [0 .. MaxDay -> Int]
      BY <1>1
    <2>3. sales \in Nat /\ own \in Int
      BY <1>1
    <2>4. skewed \in BOOLEAN
      BY DEF BrakeInit
    <2> QED BY <2>1, <2>2, <2>3, <2>4 DEF BrakeTypeOK
  <1>5. \A S : S \subseteq DOMAIN log => Total(log, S) = 0
    <2>1. \A S : S \subseteq DOMAIN log => S = {}
      BY <1>1, <1>3
    <2>2. Total(log, {}) = 0
      BY SumOfNone DEF Total
    <2> QED BY <2>1, <2>2
  <1>6. Told
    <2>1. own = Total(log, EnginesOn(log, today))
      BY <1>1, <1>5 DEF EnginesOn
    <2>2. ASSUME NEW first \in Int PROVE Since(ledger, first) = Total(log, From(log, first))
      <3>1. Total(log, From(log, first)) = 0
        BY <1>5 DEF From
      <3> DEFINE S == {d \in 0 .. today : d >= first}
      <3>2. Summable(ledger, S)
        BY <1>4, DaysAreFinite
      <3>3. S \subseteq {0} /\ ledger[0] = 0
        BY <1>1
      <3> HIDE DEF S
      <3>4. CASE S = {}
        BY <3>1, <3>4, SumOfNone DEF Since, S
      <3>5. CASE S # {}
        <4>1. S = {0} /\ S \ {0} = {}
          BY <3>3, <3>5
        <4> DEFINE zero == 0
        <4>2. zero \in S
          BY <4>1
        <4> HIDE DEF zero
        <4>3. SumFunctionOnSet(ledger, S) = ledger[zero] + SumFunctionOnSet(ledger, S \ {zero})
          BY <3>2, <4>2, SumTakes
        <4>4. SumFunctionOnSet(ledger, S) = 0
          BY <3>3, <4>1, <4>3, SumOfNone DEF zero
        <4> QED BY <3>1, <4>4 DEF Since, S
      <3> QED BY <3>4, <3>5
    <2> QED BY <1>1, <1>3, <2>1, <2>2 DEF Told
  <1> QED BY <1>1, <1>2, <1>3, <1>4, <1>6 DEF BrakeInv

LEMMA BrakeStep ==
  ASSUME BrakeInv, [BrakeNext]_brakeVars
  PROVE  BrakeInv'
  <1>0. BrakeTypeOK /\ today \in Nat
    BY BrakeAssumption DEF BrakeInv, BrakeTypeOK
  <1>1. ASSUME NEW k \in Kinds, Sell(k) PROVE BrakeInv'
    BY <1>1, BrakeSells
  <1>2. CASE Midnight
    BY <1>2, BrakeNextDay
  <1>3. CASE CheckRollover
    <2>1. UNCHANGED <<today, log, sales, own, skewed, ledger, weeks>> /\ rm' = Rolled(rm, today)
      BY <1>3 DEF CheckRollover
    <2>2. rm' \in Manager /\ rm'.day = today /\ rm'.pnl = IF rm.day = today THEN rm.pnl ELSE 0
      BY <1>0, <2>1, RollTypes
    <2> QED BY <1>0, <2>1, <2>2, BrakeKeeps DEF BrakeInv, BrakeTypeOK
  <1>4. CASE Restart
    <2>1. UNCHANGED <<today, log, sales, own, ledger, weeks>>
      BY <1>4 DEF Restart, Reseeded
    <2> QED BY <1>0, <1>4, <2>1, RestartReads, BrakeKeeps
  <1>5. ASSUME NEW s \in Coins, Answered(s) PROVE BrakeInv'
    <2>1. UNCHANGED <<rm, today, log, sales, own, skewed, ledger, weeks>>
      BY <1>5 DEF Answered
    <2> QED BY <1>0, <2>1, BrakeKeeps DEF BrakeInv, BrakeTypeOK
  <1>6. ASSUME NEW s \in Coins, NEW equity \in Equities, Ask(s, equity) PROVE BrakeInv'
    BY <1>6, BrakeAsks
  <1>7. CASE UNCHANGED brakeVars
    BY <1>0, <1>7, BrakeKeeps DEF brakeVars, BrakeInv, BrakeTypeOK
  <1> QED BY <1>1, <1>2, <1>3, <1>4, <1>5, <1>6, <1>7 DEF BrakeNext

LEMMA BrakeInvariant == BrakeSpec => []BrakeInv
  BY BrakeStarts, BrakeStep, PTL DEF BrakeSpec

-----------------------------------------------------------------------------
\* A restart neither forgives nor adds to the day's loss when the log has all of the day's
\* sales and only the engine's.  (seedFromHistory.)
THEOREM RestartsKeepTheLoss == BrakeSpec => RestartKeepsTheLoss
  <1>1. BrakeInv => (Restart /\ ~skewed' => rm'.pnl = own)
    BY RestartReads
  <1> QED BY <1>1, BrakeInvariant, PTL DEF RestartKeepsTheLoss

\* With a limit set, no entry is admitted on a day whose engine exits have lost it, as long as no
\* restart took its sum from a log with other sales in it.  (recordTrade, canOpenRisk.)
THEOREM LossesStopEntries ==
  ASSUME InitialBalance > 0, MaxDailyLossPct > 0
  PROVE  BrakeSpec => LossStopsEntries
  <1>1. ASSUME BrakeInv, [BrakeNext]_brakeVars
        PROVE  admitted' \subseteq admitted \/ skewed \/ own * 1000 > -LimitOf(Reference(rm'))
    <2>0. BrakeTypeOK /\ BrakeInv'
      BY <1>1, BrakeStep DEF BrakeInv
    <2>1. ASSUME NEW s \in Coins, NEW equity \in Equities, Ask(s, equity), ~(admitted' \subseteq admitted)
          PROVE  skewed \/ own * 1000 > -LimitOf(Reference(rm'))
      <3> DEFINE r == Assessed(rm, today, equity)
      <3>1. equity \in Nat
        BY BrakeAssumption
      <3>2. r \in Manager /\ r.day = today /\ r.blocked = Exceeded(r)
        BY <2>0, <3>1, AssessTypes
      <3> DEFINE question == [decision |-> "BUY", held |-> FALSE, confident |-> TRUE, open |-> 0, equity |-> equity]
      <3>3. CanTrade(rm, today, question).manager = r /\ (CanTrade(rm, today, question).allowed => ~r.blocked)
        BY DEF CanTrade
      <3>4. CanTrade(rm, today, question).allowed /\ rm' = CanTrade(rm, today, question).manager
        <4> HIDE DEF question
        <4> QED BY <2>1 DEF Ask, question
      <3>5. rm' = r /\ ~Exceeded(rm')
        <4> HIDE DEF r, question
        <4> QED BY <3>2, <3>3, <3>4
      <3>6. today' = today /\ skewed' = skewed /\ own' = own
        BY <2>1 DEF Ask
      <3>7. skewed \/ own = rm'.pnl
        <4> HIDE DEF r
        <4> QED BY <2>0, <3>2, <3>5, <3>6 DEF BrakeInv
      <3>8. LimitOf(Reference(rm')) \in Nat /\ LimitOf(Reference(rm')) > 0
        <4>1. Reference(rm') \in Nat /\ Reference(rm') > 0 /\ MaxDailyLossPct \in Nat
          BY <2>0, RiskAssumption DEF Reference, BrakeInv, BrakeTypeOK, Manager
        <4> HIDE DEF r
        <4> QED BY <4>1 DEF LimitOf
      <3>9. rm'.pnl \in Int
        BY <2>0 DEF BrakeInv, BrakeTypeOK, Manager
      <3> DEFINE limit == LimitOf(Reference(rm'))
      <3>10. ~(rm'.pnl * 1000 <= -limit)
        BY <3>5, <3>8 DEF Exceeded
      <3>11. limit \in Nat
        BY <3>8
      <3> HIDE DEF limit
      <3>12. rm'.pnl * 1000 > -limit
        BY <3>9, <3>10, <3>11
      <3> QED BY <3>7, <3>12 DEF limit
    <2>2. ASSUME NEW k \in Kinds, Sell(k) PROVE admitted' \subseteq admitted
      BY <2>2 DEF Sell
    <2>3. CASE Midnight \/ CheckRollover \/ Restart
      BY <2>3 DEF Midnight, CheckRollover, Restart, Reseeded
    <2>4. ASSUME NEW s \in Coins, Answered(s) PROVE admitted' \subseteq admitted
      BY <2>4 DEF Answered
    <2>5. CASE UNCHANGED brakeVars
      BY <2>5 DEF brakeVars
    <2> QED BY <1>1, <2>1, <2>2, <2>3, <2>4, <2>5 DEF BrakeNext
  <1>2. BrakeInv /\ [BrakeNext]_brakeVars =>
          (admitted' \subseteq admitted \/ skewed \/ own * 1000 > -LimitOf(Reference(rm')))
    BY <1>1
  <1> QED BY <1>2, BrakeInvariant, PTL DEF LossStopsEntries, BrakeSpec

\* With the weekly breaker on, no entry is admitted within the cooldown of a sale that ended a week
\* of the limit's loss, as long as the log has kept every sale.  (calcWeeklyDDBreaker.)
THEOREM WeeklyBlocksHold ==
  ASSUME WeeklyLossPct > 0
  PROVE  BrakeSpec => WeeklyBlockHolds
  <1>1. ASSUME BrakeInv, NEW s \in Coins, NEW equity \in Equities \ {0}, Ask(s, equity), s \in admitted',
               sales <= MaxTrades, NEW d \in 0 .. today, today - d < Cooldown
        PROVE  weeks[d] * 1000 > -(equity * WeeklyLossPct)
    <2>1. equity \in Nat /\ equity > 0 /\ WeeklyLossPct \in Nat
      BY BrakeAssumption
    <2>2. ~Breached(equity)
      BY <1>1, <2>1 DEF Ask, WeeklyBlocked
    <2> DEFINE limit == equity * WeeklyLossPct
    <2>3. limit \in Nat /\ limit > 0
      BY <2>1
    <2>4. d \in 0 .. MaxDay /\ Told /\ log \in Seq(Sale)
      BY <1>1, BrakeAssumption DEF BrakeInv, BrakeTypeOK
    <2>5. CASE weeks[d] = 0
      <3> HIDE DEF limit
      <3>1. 0 > -limit
        BY <2>3
      <3> QED BY <2>5, <3>1 DEF limit
    <2>6. ASSUME NEW last \in DOMAIN log, log[last].day = d, weeks[d] = Total(log, WeekTo(log, last))
          PROVE  weeks[d] * 1000 > -(equity * WeeklyLossPct)
      <3>1. ~(PnL({i \in last .. Len(log) : log[last].day - log[i].day <= Week}) * 1000 <= -limit)
        <4>1. today - log[last].day < Cooldown
          BY <1>1, <2>6
        <4> DEFINE Trips(i) == /\ today - log[i].day < Cooldown
                               /\ PnL({j \in i .. Len(log) : log[i].day - log[j].day <= Week}) * 1000 <= -limit
        <4>2. ~\E i \in DOMAIN log : Trips(i)
          BY <2>2 DEF Breached
        <4> HIDE DEF Trips
        <4>3. ~Trips(last)
          BY <4>2
        <4> QED BY <4>1, <4>3, Zenon DEF Trips
      <3>2. weeks[d] = PnL({i \in last .. Len(log) : log[last].day - log[i].day <= Week})
        BY <2>6 DEF PnL, Total, PnLs, WeekTo
      <3>3. weeks[d] \in Int
        BY <1>1, <2>4 DEF BrakeInv, BrakeTypeOK
      <3> HIDE DEF limit
      <3>4. weeks[d] * 1000 > -limit
        BY <2>3, <3>1, <3>2, <3>3
      <3> QED BY <3>4 DEF limit
    <2> QED BY <2>4, <2>5, <2>6 DEF Told
  <1>2. BrakeInv => \A s \in Coins, equity \in Equities \ {0} :
          Ask(s, equity) /\ s \in admitted' /\ sales <= MaxTrades =>
            \A d \in 0 .. today : today - d < Cooldown => weeks[d] * 1000 > -(equity * WeeklyLossPct)
    BY <1>1
  <1> QED BY <1>2, BrakeInvariant, PTL DEF WeeklyBlockHolds
================================================================================
