----------------------------- MODULE SleeveProofs -----------------------------
(* Proofs about the core sleeve.                                              *)
(*                                                                            *)
(* SleeveCycle, for every set of coins and of overlapping passes, every number  *)
(* of votes and any number of crashes and faults: a failed exit keeps its       *)
(* retry, a leg is sold on its own vote only, and a sold coin is bought back on *)
(* a proof only.                                                               *)
(*                                                                            *)
(* SleeveLadder, for every ladder, every deposit, withdrawal and price: no      *)
(* cycle takes a rung under the one the best finished day has earned.           *)
EXTENDS SleeveCycle, SleeveLadder, FoldLemmas, TLAPS

-------------------------------------------------------------------------------
(* The values the variables take.                                            *)

Awaits == {"opening", "closing"}

CycleType ==
  [at : {"idle", "status", "plan", "act"} \cup Awaits, held : SUBSET Markets, open : SUBSET Markets,
   close : SUBSET Markets, now : Markets \cup {NoMarket}, rested : BOOLEAN]

PassType ==
  [at : {"idle", "loop", "closing"}, todo : SUBSET Markets, now : Markets \cup {NoMarket}, rests : BOOLEAN]

\* What the bot holds in memory and on disk, and the history variables.
CoinSets ==
  /\ held \subseteq Markets /\ failed \subseteq Markets
  /\ gate \subseteq Markets /\ paused \subseteq Markets
  /\ file \in [gate : SUBSET Markets, paused : SUBSET Markets]
  /\ wants \subseteq Markets /\ waiting \subseteq Markets /\ missed \subseteq Markets

\* A suspended order is on a coin.
Processes ==
  /\ cycle \in CycleType /\ (cycle.at \in Awaits => cycle.now \in Markets)
  /\ pass \in [Passes -> PassType]
  /\ \A p \in Passes : pass[p].at = "closing" => pass[p].now \in Markets

SleeveTypeOK == CoinSets /\ Processes

-------------------------------------------------------------------------------
(* What a step may do, whichever part of the program takes it.                *)

\* A close of m sells the leg, or a part of it.
LEMMA SoldEffect ==
  ASSUME NEW m, Sold(m)
  PROVE  /\ m \in held
         /\ gate' = gate \cup {m} /\ paused' = paused \cup {m}
         /\ file' = [gate |-> gate', paused |-> paused'] \/ ("save" \in Faults /\ file' = file)
         /\ \/ /\ held' = held \ {m} /\ wants' = wants \ {m}
               /\ waiting' = waiting \cup {m} /\ missed' = missed
            \/ /\ held' = held /\ wants' = wants /\ waiting' = waiting
               /\ missed' = missed \cup {m}
  BY DEF Sold, NoteExit, Persist, Fault

LEMMA NotSoldEffect ==
  ASSUME NotSold
  PROVE  UNCHANGED <<held, gate, paused, file, wants, waiting, missed>>
  BY DEF NotSold, memory, history

LEMMA SoldType ==
  ASSUME CoinSets, NEW m \in Markets, Sold(m), failed' \subseteq Markets
  PROVE  CoinSets'
  BY SoldEffect DEF CoinSets

\* The steps by what they do.
LEMMA StepCases ==
  ASSUME [Next]_vars
  PROVE  \/ StartCycle \/ SkipCycle \/ ReadStatus \/ PlanCycle \/ Open \/ Close \/ EndCycle
         \/ \E m \in Markets : ActOpen(m) \/ ActClose(m)
         \/ \E p \in Passes : BeginPass(p) \/ RetrySells(p) \/ RetryFails(p) \/ EndPass(p)
         \/ \E p \in Passes, m \in Markets : PassOver(p, m) \/ Retry(p, m)
         \/ \E m \in Markets : PauseEnds(m)
         \/ Crash
         \/ UNCHANGED vars
  BY DEF Next, Cycle, Pass

LEMMA FreshType ==
  /\ NoCycle \in CycleType /\ NoCycle.at = "idle"
  /\ [NoCycle EXCEPT !.at = "status"] \in CycleType /\ [NoCycle EXCEPT !.at = "status"].at = "status"
  /\ NoPass \in PassType /\ NoPass.at = "idle"
  BY DEF NoCycle, NoPass, CycleType, PassType, Awaits

LEMMA TypeInit == Init => SleeveTypeOK
  <1> SUFFICES ASSUME Init PROVE SleeveTypeOK
    OBVIOUS
  <1> QED BY FreshType DEF Init, SleeveTypeOK, CoinSets, Processes, Awaits

LEMMA TypeStep == SleeveTypeOK /\ [Next]_vars => SleeveTypeOK'
  <1> SUFFICES ASSUME SleeveTypeOK, [Next]_vars PROVE SleeveTypeOK'
    OBVIOUS
  <1> USE DEF SleeveTypeOK
  <1>c. CASE StartCycle \/ SkipCycle \/ ReadStatus \/ EndCycle
    <2>1. CoinSets' /\ UNCHANGED pass
      BY <1>c DEF StartCycle, SkipCycle, ReadStatus, EndCycle, CoinSets, memory, history
    <2>2. CASE ReadStatus
      BY <2>1, <2>2 DEF ReadStatus, Processes, CoinSets, CycleType, Awaits
    <2>3. CASE StartCycle \/ SkipCycle \/ EndCycle
      BY <2>1, <2>3, FreshType DEF StartCycle, SkipCycle, EndCycle, Processes, Awaits
    <2> QED BY <1>c, <2>1, <2>2, <2>3
  <1>p. CASE PlanCycle
    <2>1. PICK seen \in SUBSET Markets, vote \in [Markets -> 0 .. Votes], proof \in SUBSET Markets :
            /\ gate' = Gates(seen, vote, proof) /\ UNCHANGED paused
            /\ Persist \/ UNCHANGED file
            /\ cycle' = [cycle EXCEPT !.at = "act", !.open = Opens(seen, vote, gate'), !.close = Closes(seen, vote)]
            /\ wants' = (wants \ seen) \cup Closes(seen, vote)
            /\ waiting' = waiting \ {m \in seen : vote[m] < Majority \/ m \in proof}
            /\ missed' = Markets \ seen
      BY <1>p DEF PlanCycle
    <2>2. Gates(seen, vote, proof) \subseteq Markets /\ Opens(seen, vote, gate') \subseteq Markets
          /\ Closes(seen, vote) \subseteq Markets
      BY DEF Gates, Opens, Closes, CoinSets
    <2>3. CoinSets'
      BY <1>p, <2>1, <2>2 DEF PlanCycle, CoinSets, Persist
    <2>4. Processes'
      BY <1>p, <2>1, <2>2 DEF PlanCycle, Processes, CycleType, Awaits
    <2> QED BY <2>3, <2>4
  <1>o. CASE Open
    BY <1>o DEF Open, Acted, CoinSets, Processes, CycleType, Awaits, memory
  <1>x. CASE Close
    <2>0. cycle.now \in Markets /\ Acted /\ UNCHANGED pass
      BY <1>x DEF Close, Processes, Awaits
    <2>1. Processes' /\ cycle.now \in Markets
      BY <2>0 DEF Acted, Processes, CycleType, Awaits
    <2>2. CASE Sold(cycle.now) /\ UNCHANGED failed
      BY <2>1, <2>2, SoldType DEF CoinSets
    <2>3. CASE NotSold /\ failed' = failed \cup {cycle.now}
      BY <2>1, <2>3, NotSoldEffect DEF CoinSets
    <2> QED BY <1>x, <2>1, <2>2, <2>3 DEF Close
  <1>a. ASSUME NEW m \in Markets, ActOpen(m) \/ ActClose(m) PROVE SleeveTypeOK'
    <2>1. CoinSets' /\ UNCHANGED pass
      BY <1>a DEF ActOpen, ActClose, CoinSets, memory, history
    <2>2. CASE ActOpen(m)
      <3>1. \/ cycle' = [cycle EXCEPT !.open = @ \ {m}]
            \/ cycle' = [cycle EXCEPT !.at = "opening", !.now = m, !.open = @ \ {m}]
        BY <2>2 DEF ActOpen
      <3> QED BY <2>1, <3>1 DEF Processes, CycleType, Awaits
    <2>3. CASE ActClose(m)
      <3>1. \/ cycle' = [cycle EXCEPT !.close = @ \ {m}]
            \/ cycle' = [cycle EXCEPT !.at = "closing", !.now = m, !.close = @ \ {m}]
        BY <2>3 DEF ActClose
      <3> QED BY <2>1, <3>1 DEF Processes, CycleType, Awaits
    <2> QED BY <1>a, <2>2, <2>3
  <1>b. ASSUME NEW p \in Passes, BeginPass(p) \/ EndPass(p) PROVE SleeveTypeOK'
    <2>1. CoinSets'
      BY <1>b DEF BeginPass, EndPass, CoinSets, memory, history
    <2>2. CASE BeginPass(p)
      BY <2>1, <2>2 DEF BeginPass, CoinSets, Processes, PassType, NoPass
    <2>3. CASE EndPass(p)
      BY <2>1, <2>3, FreshType DEF EndPass, Processes, CycleType
    <2> QED BY <1>b, <2>2, <2>3
  <1>r. ASSUME NEW p \in Passes, RetrySells(p) \/ RetryFails(p) PROVE SleeveTypeOK'
    <2>0. pass[p].now \in Markets /\ Retried(p) /\ UNCHANGED cycle
      BY <1>r DEF RetrySells, RetryFails, Processes
    <2>1. Processes' /\ pass[p].now \in Markets
      BY <2>0 DEF Retried, Processes, PassType
    <2>2. CASE RetrySells(p)
      <3>1. Sold(pass[p].now) /\ failed' \subseteq Markets
        BY <2>2 DEF RetrySells, CoinSets
      <3> QED BY <2>1, <3>1, SoldType
    <2>3. CASE RetryFails(p)
      <3>1. NotSold /\ UNCHANGED failed
        BY <2>3 DEF RetryFails
      <3> QED BY <2>1, <3>1, NotSoldEffect DEF CoinSets
    <2> QED BY <1>r, <2>2, <2>3
  <1>l. ASSUME NEW p \in Passes, NEW m \in Markets, PassOver(p, m) \/ Retry(p, m) PROVE SleeveTypeOK'
    BY <1>l DEF PassOver, Retry, CoinSets, Processes, PassType, memory, history
  <1>e. ASSUME NEW m \in Markets, PauseEnds(m) PROVE SleeveTypeOK'
    BY <1>e DEF PauseEnds, CoinSets, Processes, history
  <1>d. CASE Crash
    BY <1>d, FreshType DEF Crash, CoinSets, Processes, Awaits, history
  <1>u. CASE UNCHANGED vars
    BY <1>u DEF vars, CoinSets, Processes
  <1> QED BY StepCases, <1>c, <1>p, <1>o, <1>x, <1>a, <1>b, <1>r, <1>l, <1>e, <1>d, <1>u

(* Every variable of the sleeve keeps to its values, and a suspended order is on a coin.  *)
THEOREM SleeveTypeCorrect == Spec => []SleeveTypeOK
  BY TypeInit, TypeStep, PTL DEF Spec

-------------------------------------------------------------------------------
(* Failed exits.                                                             *)

\* Coins that a step of the cycle still has to close.
ToClose == cycle.close \cup (IF cycle.at = "closing" THEN {cycle.now} ELSE {})
ToOpen  == cycle.open \cup (IF cycle.at = "opening" THEN {cycle.now} ELSE {})

Planned == {"act"} \cup Awaits

\* A leg to sell is still to be closed by the cycle or flagged for the risk loop, and the
\* cycle buys no coin it decided to sell.
RetryInv ==
  /\ SleeveTypeOK
  /\ ToOpen \cap wants = {}
  /\ cycle.at \in {"idle"} \cup Planned => (wants \cap held) \ missed \subseteq failed \cup ToClose
  /\ cycle.at = "idle" => ToClose = {}

LEMMA RetryInit == Init => RetryInv
  <1> SUFFICES ASSUME Init PROVE RetryInv
    OBVIOUS
  <1>1. cycle.at = "status" /\ wants = {}
    BY FreshType DEF Init
  <1> QED BY <1>1, TypeInit DEF RetryInv, Planned, Awaits

\* A cycle that starts, or is over, has nothing to open or to close.
LEMMA FreshPlan ==
  ASSUME cycle' = NoCycle \/ cycle' = [NoCycle EXCEPT !.at = "status"]
  PROVE  ToOpen' = {} /\ ToClose' = {} /\ cycle'.at \in {"idle", "status"}
         /\ (cycle' = NoCycle => cycle'.at = "idle")
  BY DEF ToOpen, ToClose, NoCycle

LEMMA RetryStep == RetryInv /\ [Next]_vars => RetryInv'
  <1> SUFFICES ASSUME RetryInv, [Next]_vars PROVE RetryInv'
    OBVIOUS
  <1>t. SleeveTypeOK /\ SleeveTypeOK'
    BY TypeStep DEF RetryInv
  <1>c. CASE StartCycle \/ SkipCycle \/ EndCycle
    <2>1. ToOpen' = {} /\ ToClose' = {} /\ cycle'.at \in {"idle", "status"}
      BY <1>c, FreshPlan DEF StartCycle, SkipCycle, EndCycle
    <2>2. CASE StartCycle
      BY <1>t, <2>1, <2>2 DEF StartCycle, RetryInv, Planned, Awaits
    <2>3. CASE SkipCycle
      BY <1>t, <2>1, <2>3 DEF SkipCycle, RetryInv, SleeveTypeOK, CoinSets
    <2>4. CASE EndCycle
      BY <1>t, <2>1, <2>4 DEF EndCycle, RetryInv, history, Planned, ToClose
    <2> QED BY <1>c, <2>2, <2>3, <2>4
  <1>s. CASE ReadStatus
    BY <1>t, <1>s DEF ReadStatus, RetryInv, ToOpen, ToClose, Planned, Awaits, history, SleeveTypeOK,
       Processes, CycleType
  <1>p. CASE PlanCycle
    <2>1. PICK seen \in SUBSET Markets, vote \in [Markets -> 0 .. Votes] :
            /\ cycle' = [cycle EXCEPT !.at = "act", !.open = Opens(seen, vote, gate'), !.close = Closes(seen, vote)]
            /\ wants' = (wants \ seen) \cup Closes(seen, vote)
            /\ missed' = Markets \ seen
      BY <1>p DEF PlanCycle
    <2>2. cycle'.at = "act" /\ ToOpen' = Opens(seen, vote, gate') /\ ToClose' = Closes(seen, vote)
      BY <1>t, <2>1 DEF ToOpen, ToClose, SleeveTypeOK, Processes, CycleType
    <2>3. Opens(seen, vote, gate') \cap wants' = {}
      BY <2>1 DEF Opens, Closes
    <2>4. (wants' \cap held) \ missed' \subseteq Closes(seen, vote)
      BY <1>t, <2>1 DEF SleeveTypeOK, CoinSets
    <2> QED BY <1>p, <1>t, <2>2, <2>3, <2>4 DEF RetryInv, PlanCycle
  <1>o. CASE Open
    <2>1. cycle'.at = "act" /\ ToOpen' \subseteq ToOpen /\ ToClose' = ToClose /\ cycle.now \notin wants
      BY <1>t, <1>o DEF Open, Acted, ToOpen, ToClose, RetryInv, SleeveTypeOK, Processes, CycleType
    <2> QED BY <1>o, <1>t, <2>1 DEF Open, RetryInv, Planned, Awaits
  <1>x. CASE Close
    <2>1. /\ cycle'.at = "act" /\ ToOpen' = ToOpen
          /\ ToClose = ToClose' \cup {cycle.now} /\ cycle.at \in Planned
      BY <1>t, <1>x DEF Close, Acted, ToOpen, ToClose, SleeveTypeOK, Processes, CycleType, Planned, Awaits
    <2>2. CASE Sold(cycle.now) /\ UNCHANGED failed
      BY <1>t, <2>1, <2>2, SoldEffect DEF RetryInv
    <2>3. CASE NotSold /\ failed' = failed \cup {cycle.now}
      BY <1>t, <2>1, <2>3, NotSoldEffect DEF RetryInv
    <2> QED BY <1>x, <2>2, <2>3 DEF Close
  <1>a. ASSUME NEW m \in Markets, ActOpen(m) \/ ActClose(m) PROVE RetryInv'
    <2>1. /\ cycle'.at \in Planned /\ cycle.at = "act" /\ ToOpen' \subseteq ToOpen
          /\ failed \cup ToClose \subseteq failed' \cup ToClose'
          /\ UNCHANGED <<held, history>>
      <3>1. CASE ActOpen(m)
        BY <1>t, <3>1 DEF ActOpen, ToOpen, ToClose, SleeveTypeOK, Processes, CycleType, Planned, Awaits
      <3>2. CASE ActClose(m)
        BY <1>t, <3>2 DEF ActClose, ToOpen, ToClose, SleeveTypeOK, Processes, CycleType, Planned, Awaits
      <3> QED BY <1>a, <3>1, <3>2
    <2> QED BY <1>t, <2>1 DEF RetryInv, Planned, Awaits, history
  <1>b. ASSUME NEW p \in Passes, BeginPass(p) \/ EndPass(p) PROVE RetryInv'
    <2>1. cycle'.at = cycle.at /\ ToOpen' = ToOpen /\ ToClose' = ToClose /\ UNCHANGED <<held, failed, history>>
      BY <1>t, <1>b DEF BeginPass, EndPass, ToOpen, ToClose, SleeveTypeOK, Processes, CycleType
    <2> QED BY <1>t, <2>1 DEF RetryInv, history
  <1>r. ASSUME NEW p \in Passes, RetrySells(p) \/ RetryFails(p) PROVE RetryInv'
    <2>1. UNCHANGED cycle
      BY <1>r DEF RetrySells, RetryFails
    <2>2. CASE RetrySells(p)
      <3>1. Sold(pass[p].now) /\ failed' = failed \ {pass[p].now}
        BY <2>2 DEF RetrySells
      <3> QED BY <1>t, <2>1, <3>1, SoldEffect DEF RetryInv, ToOpen, ToClose
    <2>3. CASE RetryFails(p)
      <3>1. NotSold /\ UNCHANGED failed
        BY <2>3 DEF RetryFails
      <3> QED BY <1>t, <2>1, <3>1, NotSoldEffect DEF RetryInv, ToOpen, ToClose
    <2> QED BY <1>r, <2>2, <2>3
  <1>l. ASSUME NEW p \in Passes, NEW m \in Markets, PassOver(p, m) \/ Retry(p, m) PROVE RetryInv'
    BY <1>t, <1>l DEF PassOver, Retry, RetryInv, ToOpen, ToClose, history
  <1>e. ASSUME NEW m \in Markets, PauseEnds(m) PROVE RetryInv'
    BY <1>t, <1>e DEF PauseEnds, RetryInv, ToOpen, ToClose, history
  <1>d. CASE Crash
    <2>1. ToOpen' = {} /\ cycle'.at = "status"
      BY <1>d, FreshPlan, FreshType DEF Crash
    <2> QED BY <1>t, <1>d, <2>1 DEF RetryInv, Planned, Awaits
  <1>u. CASE UNCHANGED vars
    BY <1>t, <1>u DEF vars, RetryInv, ToOpen, ToClose
  <1> QED BY StepCases, <1>c, <1>s, <1>p, <1>o, <1>x, <1>a, <1>b, <1>r, <1>l, <1>e, <1>d, <1>u

(* The risk loop's retries stand in for the 12 hours of the next cycle: whatever the     *)
(* faults, a leg that was voted out and not sold is flagged when the cycle is over.       *)
THEOREM ExitsAreFlagged == Spec => []StuckExitIsRetried
  <1>1. RetryInv => StuckExitIsRetried
    BY DEF RetryInv, StuckExitIsRetried
  <1> QED BY RetryInit, RetryStep, <1>1, PTL DEF Spec

-------------------------------------------------------------------------------
(* What is sold.                                                             *)

\* The coins of an order in flight are the cycle's or one pass's.
OrdersApart ==
  /\ cycle.at \in Awaits => \A p \in Passes : pass[p].at = "closing" => pass[p].now # cycle.now
  /\ cycle.at = "opening" => cycle.now \notin cycle.open

\* A cycle plans on the legs it has read, and no retry runs between the read and the plan.
PlanFresh ==
  /\ cycle.at \in {"status", "plan"} => failed = {}
  /\ cycle.at = "plan" => cycle.held = held /\ \A p \in Passes : pass[p].at # "closing"
  /\ cycle.at \notin Planned => ToOpen = {} /\ ToClose = {}

\* It closes coins it has read as held and opens others, and a flag is on one of the former.
PlanSplits ==
  /\ ToClose \subseteq cycle.held /\ ToOpen \cap cycle.held = {}
  /\ ToOpen \cap held = {}
  /\ cycle.at \in Planned => failed \subseteq cycle.held

\* Whatever may still be sold was voted out.
VotedOut ==
  /\ ToClose \cap held \subseteq wants
  /\ failed \cap held \subseteq wants
  /\ \A p \in Passes : pass[p].at = "closing" /\ pass[p].now \in held => pass[p].now \in wants

VoteInv == SleeveTypeOK /\ OrdersApart /\ PlanFresh /\ PlanSplits /\ VotedOut

LEMMA VoteInit == Init => VoteInv
  <1> SUFFICES ASSUME Init PROVE VoteInv
    OBVIOUS
  <1>1. /\ cycle.at = "status" /\ cycle.open = {} /\ cycle.close = {} /\ failed = {} /\ held = {}
        /\ \A p \in Passes : pass[p].at = "idle"
    BY DEF Init, NoCycle, NoPass
  <1> QED BY <1>1, TypeInit DEF VoteInv, OrdersApart, PlanFresh, PlanSplits, VotedOut, ToOpen, ToClose,
             Planned, Awaits

\* The cycle stays where it is, no flag is added and no retry begins, and a coin sold on the
\* way stops being wanted.
LEMMA VoteKept ==
  ASSUME VoteInv, SleeveTypeOK', failed' \subseteq failed,
         cycle'.at = cycle.at, cycle'.now = cycle.now, cycle'.open = cycle.open,
         cycle'.close = cycle.close, cycle'.held = cycle.held,
         \A p \in Passes : pass'[p].at = "closing" => pass[p].at = "closing" /\ pass'[p].now = pass[p].now,
         cycle.at = "plan" => held' = held,
         \/ held' = held /\ wants' = wants
         \/ \E m \in Markets : held' = held \ {m} /\ wants' = wants \ {m}
  PROVE  VoteInv'
  <1>1. OrdersApart' /\ PlanFresh'
    BY DEF VoteInv, OrdersApart, PlanFresh, ToOpen, ToClose
  <1>2. PlanSplits' /\ VotedOut'
    BY DEF VoteInv, PlanSplits, VotedOut, ToOpen, ToClose
  <1> QED BY <1>1, <1>2 DEF VoteInv

LEMMA VoteStep ==
  ASSUME "race" \notin Faults, VoteInv, [Next]_vars
  PROVE  VoteInv'
  <1>t. SleeveTypeOK /\ SleeveTypeOK'
    BY TypeStep DEF VoteInv
  <1>c. CASE StartCycle \/ SkipCycle \/ EndCycle
    <2>1. /\ ToOpen' = {} /\ ToClose' = {} /\ cycle'.at \in {"idle", "status"}
          /\ cycle'.at = "idle" \/ failed' = {}
          /\ UNCHANGED <<held, pass, wants>> /\ failed' \subseteq failed
      BY <1>c, FreshPlan DEF StartCycle, SkipCycle, EndCycle, history
    <2>2. cycle'.at \notin Planned /\ cycle'.at \notin Awaits /\ cycle'.at # "plan"
      BY <2>1 DEF Planned, Awaits
    <2> QED BY <1>t, <2>1, <2>2 DEF VoteInv, OrdersApart, PlanFresh, PlanSplits, VotedOut, Awaits
  <1>s. CASE ReadStatus
    <2>1. /\ cycle'.at = "plan" /\ cycle'.held = held
          /\ UNCHANGED <<held, failed, pass, wants>>
          /\ \A p \in Passes : pass[p].at # "closing"
          /\ ToOpen' = {} /\ ToClose' = {} /\ failed = {}
      BY <1>t, <1>s DEF ReadStatus, VoteInv, PlanFresh, SleeveTypeOK, Processes, CycleType, history,
         ToOpen, ToClose, Planned, Awaits
    <2> QED BY <1>t, <2>1 DEF VoteInv, OrdersApart, PlanFresh, PlanSplits, VotedOut, Planned, Awaits
  <1>p. CASE PlanCycle
    <2>1. PICK seen \in SUBSET Markets, vote \in [Markets -> 0 .. Votes] :
            /\ cycle' = [cycle EXCEPT !.at = "act", !.open = Opens(seen, vote, gate'), !.close = Closes(seen, vote)]
            /\ wants' = (wants \ seen) \cup Closes(seen, vote)
      BY <1>p DEF PlanCycle
    <2>2. /\ cycle'.at = "act" /\ cycle'.held = cycle.held /\ cycle.held = held
          /\ ToOpen' = Opens(seen, vote, gate') /\ ToClose' = Closes(seen, vote)
          /\ UNCHANGED <<held, failed, pass>> /\ failed = {}
          /\ \A p \in Passes : pass[p].at # "closing"
      BY <1>t, <1>p, <2>1 DEF PlanCycle, ToOpen, ToClose, SleeveTypeOK, Processes, CycleType, VoteInv, PlanFresh
    <2>3. Opens(seen, vote, gate') \cap held = {} /\ Closes(seen, vote) \subseteq held
          /\ Closes(seen, vote) \subseteq wants'
      BY <2>1, <2>2 DEF Opens, Closes
    <2> QED BY <1>t, <2>2, <2>3 DEF VoteInv, OrdersApart, PlanFresh, PlanSplits, VotedOut, Planned, Awaits
  <1>o. CASE Open
    <2>1. /\ cycle.at = "opening" /\ cycle'.at = "act" /\ cycle'.held = cycle.held
          /\ ToClose' = ToClose /\ ToOpen' = ToOpen \ {cycle.now} /\ cycle.now \in ToOpen
          /\ held' \subseteq held \cup {cycle.now}
          /\ UNCHANGED <<failed, pass, wants>>
      BY <1>t, <1>o DEF Open, Acted, ToOpen, ToClose, SleeveTypeOK, Processes, CycleType, VoteInv, OrdersApart
    <2>2. cycle.now \notin failed \cup ToClose
          /\ \A p \in Passes : pass[p].at = "closing" => pass[p].now # cycle.now
      BY <2>1 DEF VoteInv, OrdersApart, PlanSplits, Planned, Awaits
    <2>3. VotedOut'
      BY <2>1, <2>2 DEF VoteInv, VotedOut
    <2> QED BY <1>t, <2>1, <2>3 DEF VoteInv, OrdersApart, PlanFresh, PlanSplits, Planned, Awaits
  <1>x. CASE Close
    <2>1. /\ cycle.at = "closing" /\ cycle'.at = "act" /\ cycle'.held = cycle.held
          /\ ToOpen' = ToOpen /\ ToClose' \subseteq ToClose /\ cycle.now \in ToClose
          /\ UNCHANGED pass
      BY <1>t, <1>x DEF Close, Acted, ToOpen, ToClose, SleeveTypeOK, Processes, CycleType
    <2>2. \/ held' = held /\ wants' = wants /\ failed' \subseteq failed \cup {cycle.now}
          \/ held' = held \ {cycle.now} /\ wants' = wants \ {cycle.now} /\ failed' = failed
      BY <1>x, SoldEffect, NotSoldEffect DEF Close
    <2>3. PlanSplits' /\ VotedOut'
      BY <2>1, <2>2 DEF VoteInv, PlanSplits, VotedOut, Planned, Awaits
    <2> QED BY <1>t, <2>1, <2>3 DEF VoteInv, OrdersApart, PlanFresh, Planned, Awaits
  <1>a. ASSUME NEW m \in Markets, ActOpen(m) PROVE VoteInv'
    <2>1. /\ cycle.at = "act" /\ cycle'.at \in {"act", "opening"} /\ cycle'.held = cycle.held
          /\ ToOpen' \subseteq ToOpen /\ ToClose' = ToClose
          /\ cycle'.at = "opening" => ~Busy(m) /\ cycle'.now = m /\ m \notin cycle'.open
          /\ UNCHANGED <<held, failed, pass, wants>>
      BY <1>t, <1>a DEF ActOpen, ToOpen, ToClose, SleeveTypeOK, Processes, CycleType, history
    <2> QED BY <1>t, <2>1 DEF VoteInv, OrdersApart, PlanFresh, PlanSplits, VotedOut, Planned, Awaits, Busy
  <1>f. ASSUME NEW m \in Markets, ActClose(m) PROVE VoteInv'
    <2>1. /\ cycle.at = "act" /\ cycle'.at \in {"act", "closing"} /\ cycle'.held = cycle.held
          /\ ToOpen' = ToOpen /\ ToClose' \subseteq ToClose
          /\ cycle'.at = "closing" => ~Busy(m) /\ cycle'.now = m
          /\ failed' \subseteq failed \cup {m} /\ m \in ToClose
          /\ UNCHANGED <<held, pass, wants>>
      BY <1>t, <1>f DEF ActClose, ToOpen, ToClose, SleeveTypeOK, Processes, CycleType, history
    <2> QED BY <1>t, <2>1 DEF VoteInv, OrdersApart, PlanFresh, PlanSplits, VotedOut, Planned, Awaits, Busy
  <1>b. ASSUME NEW p \in Passes, BeginPass(p) \/ EndPass(p) PROVE VoteInv'
    <2>1. /\ UNCHANGED <<held, failed, wants>>
          /\ cycle'.at = cycle.at /\ cycle'.now = cycle.now /\ cycle'.open = cycle.open
          /\ cycle'.close = cycle.close /\ cycle'.held = cycle.held
      BY <1>t, <1>b DEF BeginPass, EndPass, history, SleeveTypeOK, Processes, CycleType
    <2>2. \A q \in Passes : pass'[q].at = "closing" => pass[q].at = "closing" /\ pass'[q].now = pass[q].now
      <3>1. CASE BeginPass(p)
        <4>1. pass'[p].at = "loop" /\ \A q \in Passes : q # p => pass'[q] = pass[q]
          BY <1>t, <3>1 DEF BeginPass, NoPass, SleeveTypeOK, Processes
        <4> QED BY <4>1
      <3>2. CASE EndPass(p)
        BY <1>t, <3>2, FreshType DEF EndPass, SleeveTypeOK, Processes
      <3> QED BY <1>b, <3>1, <3>2
    <2> QED BY <1>t, <2>1, <2>2, VoteKept
  <1>r. ASSUME NEW p \in Passes, RetrySells(p) \/ RetryFails(p) PROVE VoteInv'
    <2>0. pass[p].at = "closing" /\ pass[p].now \in Markets /\ UNCHANGED cycle
          /\ (cycle.at = "plan" => FALSE)
      BY <1>t, <1>r DEF RetrySells, RetryFails, VoteInv, PlanFresh, SleeveTypeOK, Processes
    <2>1. \/ held' = held /\ wants' = wants
          \/ held' = held \ {pass[p].now} /\ wants' = wants \ {pass[p].now}
      BY <1>r, SoldEffect, NotSoldEffect DEF RetrySells, RetryFails
    <2>2. failed' \subseteq failed
      BY <1>r DEF RetrySells, RetryFails
    <2>3. \A q \in Passes : pass'[q].at = "closing" => pass[q].at = "closing" /\ pass'[q].now = pass[q].now
      BY <1>t, <1>r DEF RetrySells, RetryFails, Retried, SleeveTypeOK, Processes, PassType
    <2> QED BY <1>t, <2>0, <2>1, <2>2, <2>3, VoteKept
  <1>l. ASSUME NEW p \in Passes, NEW m \in Markets, PassOver(p, m) PROVE VoteInv'
    <2>1. \A q \in Passes : pass'[q].at = "closing" => pass[q].at = "closing" /\ pass'[q].now = pass[q].now
      BY <1>t, <1>l DEF PassOver, SleeveTypeOK, Processes, PassType
    <2>2. UNCHANGED <<held, failed, wants, cycle>>
      BY <1>l DEF PassOver, history
    <2> QED BY <1>t, <2>1, <2>2, VoteKept
  <1>y. ASSUME NEW p \in Passes, NEW m \in Markets, Retry(p, m) PROVE VoteInv'
    <2>1. /\ UNCHANGED <<held, failed, wants, cycle>> /\ m \in failed /\ ~Busy(m)
          /\ pass'[p].at = "closing" /\ pass'[p].now = m
          /\ \A q \in Passes : q # p => pass'[q] = pass[q]
      BY <1>t, <1>y DEF Retry, history, SleeveTypeOK, Processes, PassType
    <2>2. cycle.at # "plan"
      BY <2>1 DEF VoteInv, PlanFresh
    <2>3. OrdersApart'
      BY <2>1 DEF VoteInv, OrdersApart, Busy, Awaits
    <2>4. PlanFresh' /\ PlanSplits'
      BY <2>1, <2>2 DEF VoteInv, PlanFresh, PlanSplits, ToOpen, ToClose
    <2>5. VotedOut'
      BY <2>1 DEF VoteInv, VotedOut, ToClose
    <2> QED BY <1>t, <2>3, <2>4, <2>5 DEF VoteInv
  <1>e. ASSUME NEW m \in Markets, PauseEnds(m) PROVE VoteInv'
    BY <1>t, <1>e, VoteKept DEF PauseEnds, history
  <1>d. CASE Crash
    <2>1. /\ ToOpen' = {} /\ ToClose' = {} /\ cycle'.at = "status" /\ failed' = {}
          /\ \A p \in Passes : pass'[p].at = "idle"
      BY <1>d, FreshPlan, FreshType DEF Crash
    <2> QED BY <1>t, <2>1 DEF VoteInv, OrdersApart, PlanFresh, PlanSplits, VotedOut, Planned, Awaits
  <1>u. CASE UNCHANGED vars
    BY <1>t, <1>u, VoteKept DEF vars
  <1> QED BY StepCases, <1>c, <1>s, <1>p, <1>o, <1>x, <1>a, <1>f, <1>b, <1>r, <1>l, <1>y, <1>e, <1>d, <1>u

(* A retry flag that outlives its vote sells nothing: while no retried close is in flight  *)
(* when a cycle reads the status, every coin that is sold was voted out by the last vote on  *)
(* it.                                                                                     *)
THEOREM SoldOnItsVote ==
  ASSUME "race" \notin Faults
  PROVE  Spec => SoldByItsVote
  <1>1. VoteInv /\ [Next]_vars => VoteInv'
    BY VoteStep
  <1>2. VoteInv /\ [Next]_vars => [held \ held' \subseteq wants]_vars
    <2> SUFFICES ASSUME VoteInv, [Next]_vars, NEW m \in held, m \notin held' PROVE m \in wants
      OBVIOUS
    <2>1. CASE \E p \in Passes : RetrySells(p)
      <3>1. PICK p \in Passes : RetrySells(p)
        BY <2>1
      <3>2. Sold(pass[p].now) /\ pass[p].at = "closing"
        BY <3>1 DEF RetrySells
      <3>3. m = pass[p].now
        BY <3>2, SoldEffect
      <3> QED BY <3>2, <3>3 DEF VoteInv, VotedOut
    <2>2. CASE Close
      <3>1. m = cycle.now /\ cycle.at = "closing"
        BY <2>2, SoldEffect, NotSoldEffect DEF Close
      <3> QED BY <3>1 DEF VoteInv, VotedOut, ToClose
    <2>3. CASE UNCHANGED held
      BY <2>3
    <2>4. CASE Open
      BY <2>4 DEF Open
    <2>5. (\E p \in Passes : RetrySells(p)) \/ Close \/ Open \/ UNCHANGED held
      BY StepCases, NotSoldEffect DEF StartCycle, SkipCycle, ReadStatus, PlanCycle, EndCycle, ActOpen, ActClose,
         BeginPass, RetryFails, EndPass, PassOver, Retry, PauseEnds, Crash, vars
    <2> QED BY <2>1, <2>2, <2>3, <2>4, <2>5
  <1> QED BY VoteInit, <1>1, <1>2, PTL DEF Spec, SoldByItsVote

-------------------------------------------------------------------------------
(* What is bought back.                                                      *)

\* A coin that waits for its proof is gated, in memory and on disk, is not held and not
\* about to be bought.
GateInv ==
  /\ VoteInv
  /\ file = [gate |-> gate, paused |-> paused]
  /\ waiting \subseteq gate
  /\ waiting \cap (held \cup ToOpen) = {}

LEMMA GateInit == Init => GateInv
  <1> SUFFICES ASSUME Init PROVE GateInv
    OBVIOUS
  <1> QED BY VoteInit DEF Init, GateInv

LEMMA GateStep ==
  ASSUME "race" \notin Faults, "save" \notin Faults, GateInv, [Next]_vars
  PROVE  GateInv'
  <1>v. VoteInv /\ VoteInv'
    BY VoteStep DEF GateInv
  <1>t. SleeveTypeOK /\ SleeveTypeOK'
    BY <1>v DEF VoteInv
  <1>n. ASSUME UNCHANGED <<held, gate, paused, file, waiting>>, ToOpen' \subseteq ToOpen
        PROVE  GateInv'
    BY <1>v, <1>n DEF GateInv
  <1>x. ASSUME NEW m, Sold(m), ToOpen' = ToOpen PROVE GateInv'
    <2>1. /\ m \in held /\ gate' = gate \cup {m} /\ file' = [gate |-> gate', paused |-> paused']
          /\ \/ held' = held \ {m} /\ waiting' = waiting \cup {m}
             \/ held' = held /\ waiting' = waiting
      BY <1>x, SoldEffect
    <2>2. ToOpen \cap held = {}
      BY <1>v DEF VoteInv, PlanSplits
    <2> QED BY <1>v, <1>x, <2>1, <2>2 DEF GateInv
  <1>1. CASE StartCycle \/ SkipCycle \/ EndCycle
    BY <1>1, <1>n, FreshPlan DEF StartCycle, SkipCycle, EndCycle, memory, history
  <1>2. CASE ReadStatus
    <2>1. ToOpen' = ToOpen
      BY <1>t, <1>2 DEF ReadStatus, ToOpen, SleeveTypeOK, Processes, CycleType
    <2> QED BY <1>2, <1>n, <2>1 DEF ReadStatus, memory, history
  <1>3. CASE PlanCycle
    <2>1. PICK seen \in SUBSET Markets, vote \in [Markets -> 0 .. Votes], proof \in SUBSET Markets :
            /\ gate' = Gates(seen, vote, proof) /\ UNCHANGED paused
            /\ cycle' = [cycle EXCEPT !.at = "act", !.open = Opens(seen, vote, gate'), !.close = Closes(seen, vote)]
            /\ \A m \in waiting' : m \in waiting /\ (m \in seen => ~(vote[m] < Majority \/ m \in proof))
      BY <1>3 DEF PlanCycle
    <2>2. cycle.held = held /\ held' = held /\ waiting \cap held = {} /\ waiting \subseteq gate
      BY <1>v, <1>3 DEF PlanCycle, VoteInv, PlanFresh, GateInv
    <2>3. file' = [gate |-> gate', paused |-> paused']
      <3>0. IF gate' # file.gate \/ paused # file.paused THEN Persist ELSE UNCHANGED file
        BY <1>3 DEF PlanCycle
      <3>1. CASE gate' # file.gate \/ paused # file.paused
        BY <3>0, <3>1 DEF Persist
      <3>2. CASE gate' = file.gate /\ paused = file.paused
        BY <2>1, <3>0, <3>2 DEF GateInv
      <3> QED BY <3>1, <3>2
    <2>4. waiting' \subseteq gate'
      BY <2>1, <2>2 DEF Gates
    <2>5. ToOpen' = Opens(seen, vote, gate')
      BY <1>t, <2>1 DEF ToOpen, SleeveTypeOK, Processes, CycleType
    <2>6. waiting' \cap (held' \cup ToOpen') = {}
      BY <2>1, <2>2, <2>4, <2>5 DEF Opens
    <2> QED BY <1>v, <2>3, <2>4, <2>6 DEF GateInv
  <1>4. CASE Open
    <2>1. ToOpen' \subseteq ToOpen /\ cycle.now \in ToOpen /\ cycle.now \notin ToOpen'
      BY <1>t, <1>v, <1>4 DEF Open, Acted, ToOpen, SleeveTypeOK, Processes, CycleType, VoteInv, OrdersApart
    <2>2. /\ \/ held' = held \cup {cycle.now} /\ waiting' = waiting \ {cycle.now}
             \/ UNCHANGED <<held, waiting>>
          /\ UNCHANGED <<gate, paused, file>>
      BY <1>4 DEF Open, memory
    <2> QED BY <1>v, <2>1, <2>2 DEF GateInv
  <1>5. CASE Close
    <2>1. ToOpen' = ToOpen
      BY <1>t, <1>5 DEF Close, Acted, ToOpen, SleeveTypeOK, Processes, CycleType
    <2> QED BY <1>5, <2>1, <1>x, <1>n, NotSoldEffect DEF Close
  <1>6. ASSUME NEW m \in Markets, ActOpen(m) \/ ActClose(m) PROVE GateInv'
    <2>1. ToOpen' \subseteq ToOpen
      BY <1>t, <1>6 DEF ActOpen, ActClose, ToOpen, SleeveTypeOK, Processes, CycleType
    <2> QED BY <1>6, <1>n, <2>1 DEF ActOpen, ActClose, memory, history
  <1>7. ASSUME NEW p \in Passes, BeginPass(p) \/ EndPass(p) PROVE GateInv'
    <2>1. ToOpen' = ToOpen
      BY <1>t, <1>7 DEF BeginPass, EndPass, ToOpen, SleeveTypeOK, Processes, CycleType
    <2> QED BY <1>7, <1>n, <2>1 DEF BeginPass, EndPass, memory, history
  <1>8. ASSUME NEW p \in Passes, RetrySells(p) \/ RetryFails(p) PROVE GateInv'
    <2>1. ToOpen' = ToOpen /\ (Sold(pass[p].now) \/ NotSold)
      BY <1>8 DEF RetrySells, RetryFails, ToOpen
    <2> QED BY <2>1, <1>x, <1>n, NotSoldEffect
  <1>9. ASSUME NEW p \in Passes, NEW m \in Markets, PassOver(p, m) \/ Retry(p, m) PROVE GateInv'
    BY <1>9, <1>n DEF PassOver, Retry, ToOpen, memory, history
  <1>10. ASSUME NEW m \in Markets, PauseEnds(m) PROVE GateInv'
    <2>1. file' = [gate |-> gate', paused |-> paused']
      BY <1>10 DEF PauseEnds, GateInv
    <2>2. ToOpen' = ToOpen /\ UNCHANGED <<held, waiting, gate>>
      BY <1>10 DEF PauseEnds, ToOpen, history
    <2> QED BY <1>v, <2>1, <2>2 DEF GateInv
  <1>11. CASE Crash
    <2>1. ToOpen' = {}
      BY <1>11, FreshPlan DEF Crash
    <2> QED BY <1>v, <1>11, <2>1 DEF Crash, GateInv, history
  <1>12. CASE UNCHANGED vars
    BY <1>12, <1>n DEF vars, ToOpen
  <1> QED BY StepCases, <1>1, <1>2, <1>3, <1>4, <1>5, <1>6, <1>7, <1>8, <1>9, <1>10, <1>11, <1>12

(* The buy-back gate holds over failed sells, retries and restarts: while the state file  *)
(* can be written and no retry is in flight when a cycle reads the status, no coin that     *)
(* was sold is bought again before its trend broke or its price closed above its high.       *)
THEOREM NoBuyBackUnproven ==
  ASSUME "race" \notin Faults, "save" \notin Faults
  PROVE  Spec => BoughtBackOnProof
  <1>1. GateInv /\ [Next]_vars => GateInv'
    BY GateStep
  <1>2. GateInv /\ [Next]_vars => [\A m \in held' \ held : m \notin waiting]_vars
    <2> SUFFICES ASSUME GateInv, [Next]_vars, NEW m \in held' \ held PROVE m \notin waiting
      OBVIOUS
    <2>1. CASE Open
      <3>1. m = cycle.now /\ cycle.at = "opening"
        BY <2>1 DEF Open
      <3> QED BY <3>1 DEF GateInv, ToOpen
    <2>2. Open \/ held' \subseteq held
      BY StepCases, SoldEffect, NotSoldEffect DEF StartCycle, SkipCycle, ReadStatus, PlanCycle, EndCycle, ActOpen,
         ActClose, Close, BeginPass, RetrySells, RetryFails, EndPass, PassOver, Retry, PauseEnds, Crash, vars
    <2> QED BY <2>1, <2>2
  <1> QED BY GateInit, <1>1, <1>2, PTL DEF Spec, BoughtBackOnProof

-------------------------------------------------------------------------------
(* How much the sleeve holds.                                                *)

Account == [cash : Int, legs : [SleeveCoins -> Int]]

Money == balance \in Int /\ slots \in [SleeveCoins -> Int]

LadderTypeOK ==
  /\ Money /\ points \in Seq(Int) /\ ended \in Nat /\ rung \in Nat
  /\ today \in BOOLEAN /\ (today => points # <<>>)

\* The points that no longer change: those of the days that are over.
Finished == IF today THEN Len(points) - 1 ELSE Len(points)

\* The best finished day since the file was lost is one of them.
BestDayKept == ended > 0 => \E i \in 1 .. Finished : ended <= points[i]

LadderInv == LadderTypeOK /\ BestDayKept /\ (fresh => 1 <= rung) /\ RungRatchets

\* What a rung is.
LEMMA RungFields ==
  /\ Len(Ladder) \in Nat /\ DOMAIN Ladder = 1 .. Len(Ladder) /\ 1 \in DOMAIN Ladder
  /\ \A i \in DOMAIN Ladder :
       /\ Ladder[i].min \in Nat /\ Ladder[i].pct \in Nat
       /\ Ladder[i].symbols \in Seq(SleeveCoins) /\ Ladder[i].symbols # <<>>
  <1> DEFINE Q == Seq(SleeveCoins)
             P == 1 .. 100
             R == [min : Nat, symbols : Q, pct : P]
  <1>1. Ladder \in Seq(R) /\ Ladder # <<>> /\ \A i \in DOMAIN Ladder : Ladder[i].symbols # <<>>
    BY LadderAssumption
  <1>2. \A x \in R : x.min \in Nat /\ x.symbols \in Seq(SleeveCoins) /\ x.pct \in Nat
    <2>1. \A k \in P : k \in Nat
      OBVIOUS
    <2> HIDE DEF P
    <2>2. \A x \in R : x.min \in Nat /\ x.symbols \in Q /\ x.pct \in P
      <3> HIDE DEF Q
      <3> QED OBVIOUS
    <2> QED BY <2>1, <2>2
  <1> HIDE DEF R
  <1>3. \A i \in DOMAIN Ladder : Ladder[i] \in R
    BY <1>1
  <1>4. Len(Ladder) \in Nat /\ DOMAIN Ladder = 1 .. Len(Ladder) /\ 1 \in DOMAIN Ladder
    BY <1>1
  <1> QED BY <1>1, <1>2, <1>3, <1>4

\* The coins of all the rungs are finitely many.
LEMMA FewCoins == IsFiniteSet(SleeveCoins)
  <1> DEFINE f == [i \in DOMAIN Ladder |-> Range(Ladder[i].symbols)]
             T == {f[i] : i \in DOMAIN Ladder}
  <1>1. IsFiniteSet(DOMAIN Ladder)
    <2>1. Len(Ladder) \in Nat /\ DOMAIN Ladder = 1 .. Len(Ladder)
      BY RungFields
    <2> QED BY <2>1, FS_Interval
  <1>2. IsFiniteSet(T)
    <2> HIDE DEF f
    <2> QED BY <1>1, FewValues
  <1>3. ASSUME NEW i \in DOMAIN Ladder PROVE IsFiniteSet(f[i])
    <2> DEFINE s == Ladder[i].symbols
    <2>1. s \in Seq(SleeveCoins)
      BY RungFields
    <2> HIDE DEF s
    <2>2. Len(s) \in Nat /\ DOMAIN s = 1 .. Len(s)
      BY <2>1
    <2>3. IsFiniteSet(DOMAIN s)
      BY <2>2, FS_Interval
    <2>4. IsFiniteSet({s[k] : k \in DOMAIN s})
      BY <2>3, FewValues
    <2> QED BY <2>4 DEF s, Range
  <1>4. IsFiniteSet(UNION T)
    <2>1. \A S \in T : IsFiniteSet(S)
      BY <1>3
    <2> HIDE DEF T
    <2> QED BY <1>2, <2>1, FS_UNION
  <1>5. SleeveCoins = UNION T
    BY DEF SleeveCoins
  <1> QED BY <1>4, <1>5

LEMMA WorthIsMoney ==
  ASSUME Money
  PROVE  Worth \in Int
  <1>1. DOMAIN slots = SleeveCoins /\ \A s \in SleeveCoins : slots[s] \in Int
    BY DEF Money
  <1>2. Summable(slots, SleeveCoins)
    BY <1>1, FewCoins DEF Summable
  <1>3. SumFunctionOnSet(slots, SleeveCoins) \in Int
    BY <1>2, SumIsInt
  <1> QED BY <1>1, <1>3 DEF Worth, SumFunction, Money

\* The highest value there is a record of is at least each recorded one.
LEMMA HighWaterIsHigh ==
  ASSUME Money, points \in Seq(Int)
  PROVE  /\ HighWater \in Int
         /\ \A i \in DOMAIN points : points[i] <= HighWater
  <1> DEFINE S == {Worth} \cup Range(points)
  <1>1. Worth \in Int
    BY WorthIsMoney
  <1>2. Range(points) \subseteq Int /\ \A i \in DOMAIN points : points[i] \in Range(points)
    BY DEF Range
  <1>3. IsFiniteSet(S)
    <2>1. Len(points) \in Nat /\ DOMAIN points = 1 .. Len(points)
      OBVIOUS
    <2>2. IsFiniteSet(DOMAIN points)
      BY <2>1, FS_Interval
    <2>3. IsFiniteSet(Range(points))
      BY <2>2, FewValues DEF Range
    <2>4. IsFiniteSet({Worth})
      BY FS_Singleton
    <2> QED BY <2>3, <2>4, FS_Union
  <1>4. S \in SUBSET Int /\ S # {}
    BY <1>1, <1>2
  <1>5. HighWater = Max(S)
    BY DEF HighWater
  <1>6. \A i \in DOMAIN points : points[i] \in S
    BY <1>2
  <1> HIDE DEF S
  <1>7. Max(S) \in S /\ \A x \in S : x <= Max(S)
    BY <1>3, <1>4, MaxIsGreatest
  <1> QED BY <1>4, <1>5, <1>6, <1>7

\* The rungs whose threshold is crossed.
Crossed(equity) == {i \in DOMAIN Ladder : Ladder[i].min <= equity \/ i = 1}

LEMMA RungIsCrossed ==
  ASSUME NEW x
  PROVE  /\ RungOf(x) \in Crossed(x) /\ RungOf(x) \in DOMAIN Ladder /\ RungOf(x) \in Nat /\ 1 <= RungOf(x)
         /\ \A i \in Crossed(x) : i <= RungOf(x)
  <1>1. Len(Ladder) \in Nat /\ DOMAIN Ladder = 1 .. Len(Ladder) /\ 1 \in DOMAIN Ladder
    BY RungFields
  <1>2. Crossed(x) \in SUBSET Int /\ Crossed(x) \subseteq DOMAIN Ladder /\ Crossed(x) # {}
    BY <1>1 DEF Crossed
  <1>3. IsFiniteSet(Crossed(x))
    <2>1. IsFiniteSet(DOMAIN Ladder)
      BY <1>1, FS_Interval
    <2> QED BY <1>2, <2>1, FS_Subset
  <1>4. RungOf(x) = Max(Crossed(x))
    BY DEF RungOf, Crossed
  <1>5. Max(Crossed(x)) \in Crossed(x) /\ \A i \in Crossed(x) : i <= Max(Crossed(x))
    BY <1>2, <1>3, MaxIsGreatest
  <1>6. RungOf(x) \in DOMAIN Ladder
    BY <1>2, <1>4, <1>5
  <1>7. RungOf(x) \in Nat /\ 1 <= RungOf(x)
    BY <1>1, <1>6
  <1> QED BY <1>4, <1>5, <1>6, <1>7

\* A higher value is on the same rung or on a higher one.
LEMMA RungGrows ==
  ASSUME NEW x \in Int, NEW y \in Int, x <= y
  PROVE  RungOf(x) <= RungOf(y)
  <1>1. \A i \in DOMAIN Ladder : Ladder[i].min \in Int
    BY RungFields
  <1>2. Crossed(x) \subseteq Crossed(y)
    BY <1>1 DEF Crossed
  <1> QED BY <1>2, RungIsCrossed

LEMMA RungOfNothing == RungOf(0) = 1
  <1>1. Len(Ladder) \in Nat /\ DOMAIN Ladder = 1 .. Len(Ladder) /\ 1 \in DOMAIN Ladder
    BY RungFields
  <1>2. ASSUME NEW i \in Crossed(0) PROVE i = 1
    <2>1. i \in 1 .. Len(Ladder)
      BY <1>1, <1>2 DEF Crossed
    <2>2. CASE 1 < i
      <3>1. Ladder[1].min < Ladder[i].min /\ Ladder[1].min = 0
        BY <1>1, <2>1, <2>2, LadderAssumption
      <3>2. Ladder[i].min \in Nat
        BY <1>1, <2>1, RungFields
      <3> QED BY <1>2, <2>2, <3>1, <3>2 DEF Crossed
    <2> QED BY <1>1, <2>1, <2>2
  <1> QED BY <1>2, RungIsCrossed

-------------------------------------------------------------------------------
(* The orders of a cycle keep an account an account.                         *)

LEMMA BuyKeeps ==
  ASSUME NEW a \in Account, NEW s \in SleeveCoins, NEW usd \in Int
  PROVE  Buy(a, s, usd) \in Account
  <1> DEFINE spend == Min({usd, a.cash})
  <1>1. a.cash \in Int /\ a.legs \in [SleeveCoins -> Int]
    BY DEF Account
  <1>2. spend \in Int
    <2> DEFINE c == a.cash
    <2>1. c \in Int
      BY <1>1
    <2> HIDE DEF c
    <2>2. \E x \in {usd, c} : \A y \in {usd, c} : x <= y
      BY <2>1
    <2>3. Min({usd, c}) \in {usd, c}
      BY <2>2 DEF Min
    <2> QED BY <2>1, <2>3 DEF c
  <1> HIDE DEF spend
  <1>3. Buy(a, s, usd) = IF spend < MinNotional THEN a
                         ELSE [cash |-> a.cash - spend, legs |-> [a.legs EXCEPT ![s] = @ + spend]]
    BY DEF Buy, spend
  <1>4. [a.legs EXCEPT ![s] = @ + spend] \in [SleeveCoins -> Int]
    BY <1>1, <1>2
  <1>5. a.cash - spend \in Int
    BY <1>1, <1>2
  <1> QED BY <1>3, <1>4, <1>5 DEF Account

LEMMA SellKeeps ==
  ASSUME NEW a \in Account, NEW s \in SleeveCoins, NEW usd \in Int
  PROVE  SellOff(a, s, usd) \in Account
  <1>1. a.cash \in Int /\ a.legs \in [SleeveCoins -> Int]
    BY DEF Account
  <1>2. [a.legs EXCEPT ![s] = @ - usd] \in [SleeveCoins -> Int]
    BY <1>1
  <1>3. a.cash + usd \in Int
    BY <1>1
  <1> QED BY <1>2, <1>3 DEF SellOff, Account

LEMMA ActKeeps ==
  ASSUME Money, NEW a \in Account, NEW s \in SleeveCoins, NEW vote, NEW want \in Int
  PROVE  Act(a, s, vote, want) \in Account
  <1>1. slots[s] \in Int
    BY DEF Money
  <1>2. Buy(a, s, want) \in Account /\ SellOff(a, s, slots[s]) \in Account
    BY <1>1, BuyKeeps, SellKeeps
  <1> QED BY <1>2 DEF Act

LEMMA ResizeKeeps ==
  ASSUME NEW a \in Account, NEW s \in SleeveCoins, NEW vote, NEW delta \in Int
  PROVE  Resize(a, s, vote, delta) \in Account
  <1>1. -delta \in Int
    OBVIOUS
  <1>2. Buy(a, s, delta) \in Account /\ SellOff(a, s, -delta) \in Account
    BY <1>1, BuyKeeps, SellKeeps
  <1> QED BY <1>2 DEF Resize

\* The sizes a rung gives are whole dollars.
LEMMA SizesAreMoney ==
  ASSUME NEW i \in DOMAIN Ladder, NEW equity \in Int, NEW f \in Fractions
  PROVE  /\ Ladder[i].symbols \in Seq(SleeveCoins)
         /\ PerSlot(Ladder[i], equity) \in Int
         /\ Desired(Ladder[i], equity, f) \in Int
  <1> DEFINE r == Ladder[i]
             n == Len(r.symbols)
             slot == PerSlot(r, equity)
  <1>1. r.symbols \in Seq(SleeveCoins) /\ r.symbols # <<>> /\ r.pct \in Nat
    BY RungFields
  <1>2. n \in Nat /\ n > 0
    BY <1>1
  <1>3. slot \in Int
    <2> DEFINE num == equity * r.pct
               den == 100 * n
    <2>1. num \in Int /\ den \in Int /\ den > 0
      <3> DEFINE p == r.pct
      <3>1. p \in Int
        BY <1>1
      <3> HIDE DEF n, p
      <3>2. equity * p \in Int
        BY <3>1
      <3>3. den \in Int /\ den > 0
        BY <1>2
      <3> QED BY <3>2, <3>3 DEF p
    <2> HIDE DEF num, den
    <2>2. num \div den \in Int
      BY <2>1
    <2> QED BY <2>2 DEF num, den, PerSlot
  <1> HIDE DEF slot
  <1>4. (slot * f) \div 100 \in Int
    <2> DEFINE num == slot * f
    <2>1. f \in Int
      BY LadderAssumption
    <2>2. num \in Int
      BY <1>3, <2>1
    <2> HIDE DEF num
    <2>3. num \div 100 \in Int
      BY <2>2
    <2> QED BY <2>3 DEF num
  <1> QED BY <1>1, <1>3, <1>4 DEF slot, Desired

LEMMA DeltaIsMoney ==
  ASSUME NEW want \in Int, NEW value \in Int, NEW perSlot \in Int
  PROVE  ResizeDelta(want, value, perSlot) \in Int
  BY DEF ResizeDelta

ActsOver(base, syms, votes, want) == FoldLeft(LAMBDA a, s : Act(a, s, votes[s], want), base, syms)

ResizesOver(base, syms, votes, want, perSlot) ==
  FoldLeft(LAMBDA a, s : Resize(a, s, votes[s], ResizeDelta(want, slots[s], perSlot)), base, syms)

\* The entries and exits of a cycle, over the coins of the rung.
LEMMA ActsKeep ==
  ASSUME Money, NEW syms \in Seq(SleeveCoins), NEW votes, NEW want \in Int, NEW base \in Account
  PROVE  ActsOver(base, syms, votes, want) \in Account
  <1> DEFINE D == SUBSET (1 .. Len(syms))
             Step(g, S) == Act(g[S \ {Max(S)}], syms[Max(S)], votes[syms[Max(S)]], want)
             Folds(g) == g = [S \in D |-> IF S = {} THEN base ELSE Step(g, S)]
             f == [p \in Account \X SleeveCoins |-> Act(p[1], p[2], votes[p[2]], want)]
             h == CHOOSE g : Folds(g)
             t == ActsOver(base, syms, votes, want)
  <1>0. Len(syms) \in Nat /\ Len(syms) <= Len(syms) /\ DOMAIN syms = 1 .. Len(syms)
    OBVIOUS
  <1>1. t = h[1 .. Len(syms)]
    BY <1>0 DEF ActsOver, FoldLeft, MapThenFoldSet
  <1> HIDE DEF t
  <1>2. \E g : Folds(g)
    <2>1. f \in [Account \X SleeveCoins -> Account]
      BY ActKeeps
    <2>2. PICK g : IsFold(g, Account, f, base, syms, Len(syms))
      <3> HIDE DEF f
      <3> QED BY <1>0, <2>1, FoldExists
    <2>3. ASSUME NEW S \in D, S # {} PROVE f[g[S \ {Max(S)}], syms[Max(S)]] = Step(g, S)
      <3>1. Max(S) \in S
        BY <1>0, <2>3, LastPosition
      <3>2. S \ {Max(S)} \in D /\ Max(S) \in 1 .. Len(syms)
        BY <3>1
      <3>3. g[S \ {Max(S)}] \in Account
        BY <2>2, <3>2 DEF IsFold
      <3>4. syms[Max(S)] \in SleeveCoins
        <4> DEFINE last == Max(S)
        <4>1. last \in 1 .. Len(syms)
          BY <3>2
        <4> HIDE DEF last
        <4>2. syms[last] \in SleeveCoins
          BY <1>0, <4>1
        <4> QED BY <4>2 DEF last
      <3> QED BY <3>3, <3>4
    <2>4. \A S \in D : g[S] = IF S = {} THEN base ELSE Step(g, S)
      <3> HIDE DEF f, Step
      <3> QED BY <2>2, <2>3 DEF IsFold
    <2>5. g = [S \in D |-> g[S]]
      BY <2>2 DEF IsFold
    <2>6. Folds(g)
      <3> HIDE DEF Step
      <3> QED BY <2>4, <2>5
    <2> QED BY <2>6
  <1>3. Folds(h)
    <2> HIDE DEF Folds
    <2> QED BY <1>2
  <1>4. h[{}] \in Account
    BY <1>3
  <1>5. ASSUME NEW S \in D, S # {}, h[S \ {Max(S)}] \in Account PROVE h[S] \in Account
    <2> HIDE DEF h
    <2>1. Max(S) \in S
      BY <1>0, <1>5, LastPosition
    <2>2. syms[Max(S)] \in SleeveCoins
      <3> DEFINE last == Max(S)
      <3>1. last \in 1 .. Len(syms)
        BY <2>1
      <3> HIDE DEF last
      <3>2. syms[last] \in SleeveCoins
        BY <1>0, <3>1
      <3> QED BY <3>2 DEF last
    <2>3. Step(h, S) \in Account
      BY <1>5, <2>2, ActKeeps
    <2>4. h[S] = Step(h, S)
      <3> HIDE DEF Step
      <3> QED BY <1>3, <1>5
    <2> QED BY <2>3, <2>4
  <1> HIDE DEF h
  <1>6. h[1 .. Len(syms)] \in Account
    BY <1>0, <1>4, <1>5, FoldStays
  <1> QED BY <1>1, <1>6 DEF t
\* The resizes of a cycle, over the coins of the rung.
LEMMA ResizesKeep ==
  ASSUME Money, NEW syms \in Seq(SleeveCoins), NEW votes, NEW want \in Int, NEW perSlot \in Int, NEW base \in Account
  PROVE  ResizesOver(base, syms, votes, want, perSlot) \in Account
  <1> DEFINE D == SUBSET (1 .. Len(syms))
             Step(g, S) == Resize(g[S \ {Max(S)}], syms[Max(S)], votes[syms[Max(S)]],
                                 ResizeDelta(want, slots[syms[Max(S)]], perSlot))
             Folds(g) == g = [S \in D |-> IF S = {} THEN base ELSE Step(g, S)]
             f == [p \in Account \X SleeveCoins |-> Resize(p[1], p[2], votes[p[2]], ResizeDelta(want, slots[p[2]], perSlot))]
             h == CHOOSE g : Folds(g)
             t == ResizesOver(base, syms, votes, want, perSlot)
  <1>0. Len(syms) \in Nat /\ Len(syms) <= Len(syms) /\ DOMAIN syms = 1 .. Len(syms)
    OBVIOUS
  <1>1. t = h[1 .. Len(syms)]
    BY <1>0 DEF ResizesOver, FoldLeft, MapThenFoldSet
  <1> HIDE DEF t
  <1>2. \E g : Folds(g)
    <2>1. f \in [Account \X SleeveCoins -> Account]
      <3>1. \A s \in SleeveCoins : ResizeDelta(want, slots[s], perSlot) \in Int
        BY DeltaIsMoney DEF Money
      <3> QED BY <3>1, ResizeKeeps
    <2>2. PICK g : IsFold(g, Account, f, base, syms, Len(syms))
      <3> HIDE DEF f
      <3> QED BY <1>0, <2>1, FoldExists
    <2>3. ASSUME NEW S \in D, S # {} PROVE f[g[S \ {Max(S)}], syms[Max(S)]] = Step(g, S)
      <3>1. Max(S) \in S
        BY <1>0, <2>3, LastPosition
      <3>2. S \ {Max(S)} \in D /\ Max(S) \in 1 .. Len(syms)
        BY <3>1
      <3>3. g[S \ {Max(S)}] \in Account
        BY <2>2, <3>2 DEF IsFold
      <3>4. syms[Max(S)] \in SleeveCoins
        <4> DEFINE last == Max(S)
        <4>1. last \in 1 .. Len(syms)
          BY <3>2
        <4> HIDE DEF last
        <4>2. syms[last] \in SleeveCoins
          BY <1>0, <4>1
        <4> QED BY <4>2 DEF last
      <3> QED BY <3>3, <3>4
    <2>4. \A S \in D : g[S] = IF S = {} THEN base ELSE Step(g, S)
      <3> HIDE DEF f, Step
      <3> QED BY <2>2, <2>3 DEF IsFold
    <2>5. g = [S \in D |-> g[S]]
      BY <2>2 DEF IsFold
    <2>6. Folds(g)
      <3> HIDE DEF Step
      <3> QED BY <2>4, <2>5
    <2> QED BY <2>6
  <1>3. Folds(h)
    <2> HIDE DEF Folds
    <2> QED BY <1>2
  <1>4. h[{}] \in Account
    BY <1>3
  <1>5. ASSUME NEW S \in D, S # {}, h[S \ {Max(S)}] \in Account PROVE h[S] \in Account
    <2> HIDE DEF h
    <2>1. Max(S) \in S
      BY <1>0, <1>5, LastPosition
    <2>2. syms[Max(S)] \in SleeveCoins
      <3> DEFINE last == Max(S)
      <3>1. last \in 1 .. Len(syms)
        BY <2>1
      <3> HIDE DEF last
      <3>2. syms[last] \in SleeveCoins
        BY <1>0, <3>1
      <3> QED BY <3>2 DEF last
    <2>3. Step(h, S) \in Account
      <3>1. ResizeDelta(want, slots[syms[Max(S)]], perSlot) \in Int
        BY <2>2, DeltaIsMoney DEF Money
      <3> QED BY <1>5, <2>2, <3>1, ResizeKeeps
    <2>4. h[S] = Step(h, S)
      <3> HIDE DEF Step
      <3> QED BY <1>3, <1>5
    <2> QED BY <2>3, <2>4
  <1> HIDE DEF h
  <1>6. h[1 .. Len(syms)] \in Account
    BY <1>0, <1>4, <1>5, FoldStays
  <1> QED BY <1>1, <1>6 DEF t
LEMMA TradedKeeps ==
  ASSUME Money, NEW i \in DOMAIN Ladder, NEW votes, NEW f \in Fractions
  PROVE  Traded(Ladder[i], votes, f) \in Account
  <1> DEFINE r == Ladder[i]
             equity == Worth
             want == Desired(r, equity, f)
             slot == PerSlot(r, equity)
             start == [cash |-> balance, legs |-> slots]
             syms == r.symbols
             acted == ActsOver(start, syms, votes, want)
             done == ResizesOver(acted, syms, votes, want, slot)
  <1>1. equity \in Int
    BY WorthIsMoney
  <1>2. want \in Int /\ slot \in Int /\ syms \in Seq(SleeveCoins)
    <2> HIDE DEF equity
    <2> QED BY <1>1, SizesAreMoney
  <1>3. start \in Account
    BY DEF Account, Money
  <1>4. Traded(r, votes, f) = done
    BY DEF Traded, ActsOver, ResizesOver
  <1> HIDE DEF want, slot, start, syms
  <1>5. acted \in Account
    BY <1>2, <1>3, ActsKeep
  <1> HIDE DEF acted
  <1>6. done \in Account
    BY <1>2, <1>5, ResizesKeep
  <1> QED BY <1>4, <1>6

-------------------------------------------------------------------------------
(* The steps.                                                                *)

LEMMA LadderStarts ==
  ASSUME LadderInit
  PROVE  LadderInv
  <1>1. Money
    BY LadderAssumption DEF LadderInit, Money
  <1>2. LadderTypeOK
    <2>1. today = FALSE /\ points = <<>> /\ ended = 0 /\ rung = 0
      BY DEF LadderInit
    <2>2. points \in Seq(Int) /\ ended \in Nat /\ rung \in Nat
      BY <2>1
    <2> QED BY <1>1, <2>1, <2>2 DEF LadderTypeOK
  <1> QED BY <1>2 DEF LadderInit, LadderInv, BestDayKept, RungRatchets

\* A snapshot keeps the best finished day.
LEMMA SnapshotKeeps ==
  ASSUME LadderTypeOK, BestDayKept, points' = Recorded(Worth), today' = (today \/ Worth > 0), ended' = ended
  PROVE  points' \in Seq(Int) /\ today' \in BOOLEAN /\ (today' => points' # <<>>) /\ BestDayKept'
  <1> DEFINE worth == Worth
             n == Len(points)
  <1>1. worth \in Int /\ points \in Seq(Int) /\ today \in BOOLEAN /\ (today => points # <<>>) /\ ended \in Nat
    BY WorthIsMoney DEF LadderTypeOK
  <1>2. points' = IF worth <= 0 THEN points
                  ELSE IF today THEN [points EXCEPT ![n] = worth] ELSE Append(points, worth)
    BY DEF Recorded
  <1>3. today' = (today \/ worth > 0) /\ n \in Nat
    BY <1>1
  <1> HIDE DEF worth
  <1>4. CASE worth <= 0
    <2>1. points' = points
      BY <1>2, <1>4
    <2>2. ~(worth > 0)
      BY <1>1, <1>4
    <2>3. today' = today
      BY <1>1, <1>3, <2>2
    <2>4. Finished' = Finished
      BY <2>1, <2>3 DEF Finished
    <2>5. BestDayKept'
      BY <2>1, <2>4 DEF BestDayKept
    <2> QED BY <1>1, <2>1, <2>3, <2>5
  <1>5. CASE worth > 0
    <2>0. ~(worth <= 0)
      BY <1>1, <1>5
    <2>1. today' = TRUE
      BY <1>3, <1>5
    <2>2. CASE today
      <3>1. points' = [points EXCEPT ![n] = worth]
        BY <1>2, <2>0, <2>2
      <3>2. points' \in Seq(Int) /\ Len(points') = n /\ points' # <<>>
             /\ \A i \in 1 .. n : i # n => points'[i] = points[i]
        BY <1>1, <2>2, <3>1
      <3>3. Finished = n - 1 /\ Finished' = n - 1
        BY <2>1, <2>2, <3>2 DEF Finished
      <3>4. \A i \in 1 .. n - 1 : points'[i] = points[i]
        BY <1>3, <3>2
      <3>5. BestDayKept'
        BY <1>1, <3>3, <3>4 DEF BestDayKept
      <3> QED BY <2>1, <3>2, <3>5
    <2>3. CASE ~today
      <3>1. points' = Append(points, worth)
        BY <1>2, <2>0, <2>3
      <3>2. points' \in Seq(Int) /\ Len(points') = n + 1 /\ points' # <<>>
             /\ \A i \in 1 .. n : points'[i] = points[i]
        BY <1>1, <3>1
      <3>3. Finished = n /\ Finished' = n
        BY <1>3, <2>1, <2>3, <3>2 DEF Finished
      <3>4. BestDayKept'
        BY <1>1, <3>2, <3>3 DEF BestDayKept
      <3> QED BY <2>1, <3>2, <3>4
    <2> QED BY <2>2, <2>3
  <1> QED BY <1>1, <1>4, <1>5

\* What is unchanged where the points and their day are.
LEMMA BestDayStays ==
  ASSUME BestDayKept, UNCHANGED <<points, today, ended>>
  PROVE  BestDayKept'
  <1>1. points' = points /\ today' = today /\ ended' = ended
    OBVIOUS
  <1>2. Finished' = Finished
    BY <1>1 DEF Finished
  <1> QED BY <1>1, <1>2 DEF BestDayKept

LEMMA TypeStays ==
  ASSUME LadderTypeOK, Money', UNCHANGED <<points, today, ended, rung>>
  PROVE  LadderTypeOK'
  <1>1. points' = points /\ today' = today /\ ended' = ended /\ rung' = rung
    OBVIOUS
  <1> QED BY <1>1 DEF LadderTypeOK

LEMMA DayKeeps ==
  ASSUME LadderInv, NextDay
  PROVE  LadderInv'
  <1> DEFINE last == points[Len(points)]
  <1>1. LadderTypeOK /\ BestDayKept
    BY DEF LadderInv
  <1>2. /\ today' = FALSE /\ fresh' = FALSE
        /\ ended' = IF today THEN Max({ended, last}) ELSE ended
        /\ UNCHANGED <<balance, slots, points, rung>>
    BY DEF NextDay
  <1>3. points \in Seq(Int) /\ ended \in Nat /\ Len(points) \in Nat /\ DOMAIN points = 1 .. Len(points)
    BY <1>1 DEF LadderTypeOK
  <1>4. CASE today
    <2>1. Len(points) \in DOMAIN points /\ last \in Int
      BY <1>1, <1>3, <1>4 DEF LadderTypeOK
    <2> HIDE DEF last
    <2>2. Max({ended, last}) = IF ended <= last THEN last ELSE ended
      <3> DEFINE S == {ended, last}
      <3>1. S \in SUBSET Int /\ S # {}
        BY <1>3, <2>1
      <3>2. IsFiniteSet(S)
        <4>1. IsFiniteSet({ended}) /\ IsFiniteSet({last})
          BY FS_Singleton
        <4>2. S = {ended} \cup {last}
          OBVIOUS
        <4> QED BY <4>1, <4>2, FS_Union
      <3>3. ended \in S /\ last \in S /\ \A x \in S : x = ended \/ x = last
        OBVIOUS
      <3> HIDE DEF S
      <3>4. Max(S) \in S /\ \A x \in S : x <= Max(S)
        BY <3>1, <3>2, MaxIsGreatest
      <3>5. Max(S) = IF ended <= last THEN last ELSE ended
        <4> DEFINE m == Max(S)
        <4>1. (m = ended \/ m = last) /\ ended <= m /\ last <= m
          BY <3>3, <3>4
        <4> HIDE DEF m
        <4>2. m = IF ended <= last THEN last ELSE ended
          BY <1>3, <2>1, <4>1
        <4> QED BY <4>2 DEF m
      <3> QED BY <3>5 DEF S
    <2>3. ended' = IF ended <= last THEN last ELSE ended
      BY <1>2, <1>4, <2>2
    <2>4. ended' \in Nat
      BY <1>3, <2>1, <2>3
    <2>5. Finished' = Len(points)
      BY <1>2 DEF Finished
    <2>6. \E i \in 1 .. Len(points) : ended' > 0 => ended' <= points[i]
      <3>1. CASE ended <= last
        BY <1>3, <2>1, <2>3, <3>1 DEF last
      <3>2. CASE ~(ended <= last)
        <4>1. ended' = ended
          BY <2>3, <3>2
        <4>2. Finished = Len(points) - 1
          BY <1>4 DEF Finished
        <4>3. CASE ended > 0
          <5>1. PICK i \in 1 .. Len(points) - 1 : ended <= points[i]
            BY <1>1, <4>2, <4>3 DEF BestDayKept
          <5>2. i \in 1 .. Len(points)
            BY <1>3
          <5> QED BY <4>1, <5>1, <5>2
        <4>4. CASE ~(ended > 0)
          BY <1>3, <2>1, <4>1, <4>4
        <4> QED BY <4>3, <4>4
      <3> QED BY <3>1, <3>2
    <2>7. BestDayKept'
      BY <1>2, <2>5, <2>6 DEF BestDayKept
    <2>8. LadderTypeOK'
      <3>1. Money'
        BY <1>1, <1>2 DEF LadderTypeOK, Money
      <3>2. rung' \in Nat /\ points' \in Seq(Int)
        BY <1>1, <1>2 DEF LadderTypeOK
      <3> QED BY <1>2, <2>4, <3>1, <3>2 DEF LadderTypeOK
    <2> QED BY <1>2, <2>7, <2>8 DEF LadderInv, RungRatchets
  <1>5. CASE ~today
    <2>1. ended' = ended /\ today' = today
      BY <1>1, <1>2, <1>5 DEF LadderTypeOK
    <2>2. Money'
      BY <1>1, <1>2 DEF LadderTypeOK, Money
    <2>3. LadderTypeOK' /\ BestDayKept'
      BY <1>1, <1>2, <2>1, <2>2, TypeStays, BestDayStays
    <2> QED BY <1>2, <2>3 DEF LadderInv, RungRatchets
  <1> QED BY <1>4, <1>5

LEMMA RunKeeps ==
  ASSUME LadderInv, NEW votes, NEW f \in Fractions, SleeveRuns(votes, f)
  PROVE  LadderInv'
  <1> DEFINE high == HighWater
             n == RungOf(high)
             done == Traded(Ladder[n], votes, f)
  <1>1. LadderTypeOK /\ BestDayKept /\ Money
    BY DEF LadderInv, LadderTypeOK
  <1>2. /\ rung' = n /\ balance' = done.cash /\ slots' = done.legs
        /\ points' = Recorded(Worth) /\ today' = (today \/ Worth > 0) /\ ended' = ended
    BY DEF SleeveRuns
  <1>3. points \in Seq(Int) /\ ended \in Nat
    BY <1>1 DEF LadderTypeOK
  <1>4. high \in Int /\ \A i \in DOMAIN points : points[i] <= high
    BY <1>1, <1>3, HighWaterIsHigh
  <1> HIDE DEF high
  <1>5. n \in DOMAIN Ladder /\ n \in Nat /\ 1 <= n
    BY RungIsCrossed
  <1>6. done \in Account
    <2> HIDE DEF n
    <2> QED BY <1>1, <1>5, TradedKeeps
  <1>7. Money'
    <2> HIDE DEF done
    <2>1. done.cash \in Int /\ done.legs \in [SleeveCoins -> Int]
      BY <1>6 DEF Account
    <2> QED BY <1>2, <2>1 DEF Money
  <1>8. points' \in Seq(Int) /\ today' \in BOOLEAN /\ (today' => points' # <<>>) /\ BestDayKept'
    BY <1>1, <1>2, SnapshotKeeps
  <1>9. RungOf(ended) <= n
    <2>1. CASE ended = 0
      BY <1>5, <2>1, RungOfNothing
    <2>2. CASE ended > 0
      <3>1. PICK i \in DOMAIN points : ended <= points[i]
        <4>1. PICK i \in 1 .. Finished : ended <= points[i]
          BY <1>1, <2>2 DEF BestDayKept
        <4>2. i \in DOMAIN points
          BY <1>3, <4>1 DEF Finished
        <4> QED BY <4>1, <4>2
      <3>2. points[i] \in Int /\ points[i] <= high
        BY <1>3, <1>4
      <3>3. ended \in Int /\ ended <= high
        BY <1>3, <1>4, <3>1, <3>2
      <3> QED BY <1>4, <3>3, RungGrows
    <2> QED BY <1>3, <2>1, <2>2
  <1>10. RungOf(ended)' = RungOf(ended)
    BY <1>2 DEF RungOf
  <1>11. LadderTypeOK'
    <2> HIDE DEF n
    <2> QED BY <1>2, <1>3, <1>5, <1>7, <1>8 DEF LadderTypeOK
  <1>12. RungRatchets' /\ (fresh' => 1 <= rung')
    <2>1. RungOf(ended) \in Nat
      BY RungIsCrossed
    <2> HIDE DEF n
    <2> QED BY <1>2, <1>5, <1>9, <1>10, <2>1 DEF RungRatchets
  <1> QED BY <1>8, <1>11, <1>12 DEF LadderInv

LEMMA LadderSteps ==
  ASSUME LadderInv, [LadderNext]_ladderVars
  PROVE  LadderInv'
  <1>1. LadderTypeOK /\ BestDayKept /\ Money /\ RungRatchets
    BY DEF LadderInv, LadderTypeOK
  <1>2. CASE UNCHANGED ladderVars
    <2>1. UNCHANGED <<balance, slots, points, today, rung, ended, fresh>>
      BY <1>2 DEF ladderVars
    <2>2. RungOf(ended)' = RungOf(ended)
      BY <2>1 DEF RungOf
    <2>3. Money'
      BY <1>1, <2>1 DEF Money
    <2>4. LadderTypeOK' /\ BestDayKept'
      BY <1>1, <2>1, <2>3, TypeStays, BestDayStays
    <2>5. RungRatchets' /\ (fresh' => 1 <= rung')
      <3>1. fresh' = fresh /\ rung' = rung
        BY <2>1
      <3> QED BY <1>1, <2>2, <3>1 DEF RungRatchets, LadderInv
    <2> QED BY <2>4, <2>5 DEF LadderInv
  <1>3. CASE Snapshot
    <2>1. /\ points' = Recorded(Worth) /\ today' = (today \/ Worth > 0)
          /\ UNCHANGED <<balance, slots, rung, ended, fresh>>
      BY <1>3 DEF Snapshot
    <2>2. RungOf(ended)' = RungOf(ended)
      BY <2>1 DEF RungOf
    <2>3. points' \in Seq(Int) /\ today' \in BOOLEAN /\ (today' => points' # <<>>) /\ BestDayKept'
      BY <1>1, <2>1, SnapshotKeeps
    <2>4. LadderTypeOK'
      <3>1. Money'
        BY <1>1, <2>1 DEF Money
      <3>2. ended' \in Nat /\ rung' \in Nat
        BY <1>1, <2>1 DEF LadderTypeOK
      <3> QED BY <2>3, <3>1, <3>2 DEF LadderTypeOK
    <2>5. RungRatchets' /\ (fresh' => 1 <= rung')
      <3>1. fresh' = fresh /\ rung' = rung
        BY <2>1
      <3> QED BY <1>1, <2>2, <3>1 DEF RungRatchets, LadderInv
    <2> QED BY <2>3, <2>4, <2>5 DEF LadderInv
  <1>4. CASE NextDay
    BY <1>4, DayKeeps
  <1>5. CASE LoseHistory
    <2>1. points' = <<>> /\ today' = FALSE /\ ended' = 0 /\ UNCHANGED <<balance, slots, rung, fresh>>
      BY <1>5 DEF LoseHistory
    <2>2. RungOf(ended)' = 1
      <3>1. RungOf(ended)' = RungOf(0)
        BY <2>1 DEF RungOf
      <3> QED BY <3>1, RungOfNothing
    <2>3. LadderTypeOK'
      <3>1. Money'
        BY <1>1, <2>1 DEF Money
      <3>2. points' \in Seq(Int) /\ ended' \in Nat /\ rung' \in Nat
        BY <1>1, <2>1 DEF LadderTypeOK
      <3> QED BY <2>1, <3>1, <3>2 DEF LadderTypeOK
    <2>4. BestDayKept'
      BY <2>1 DEF BestDayKept
    <2>5. RungRatchets' /\ (fresh' => 1 <= rung')
      <3>1. fresh' = fresh /\ rung' = rung
        BY <2>1
      <3> QED BY <1>1, <2>2, <3>1 DEF RungRatchets, LadderInv
    <2> QED BY <2>3, <2>4, <2>5 DEF LadderInv
  <1>6. ASSUME NEW d \in Deposits, Pays(d) PROVE LadderInv'
    <2>1. /\ balance' = balance + d /\ fresh' = FALSE
          /\ UNCHANGED <<slots, points, today, ended, rung>>
      BY <1>6 DEF Pays, History
    <2>2. d \in Int
      BY LadderAssumption
    <2>3. Money'
      BY <1>1, <2>1, <2>2 DEF Money
    <2>4. LadderTypeOK' /\ BestDayKept'
      BY <1>1, <2>1, <2>3, TypeStays, BestDayStays
    <2> QED BY <2>1, <2>4 DEF LadderInv, RungRatchets
  <1>7. ASSUME NEW d \in Deposits, NEW s \in SleeveCoins, Moves(s, d) PROVE LadderInv'
    <2>1. /\ slots' = [slots EXCEPT ![s] = @ + d] /\ fresh' = FALSE
          /\ UNCHANGED <<balance, points, today, ended, rung>>
      BY <1>7 DEF Moves, History
    <2>2. d \in Int
      BY LadderAssumption
    <2>3. Money'
      BY <1>1, <2>1, <2>2 DEF Money
    <2>4. LadderTypeOK' /\ BestDayKept'
      BY <1>1, <2>1, <2>3, TypeStays, BestDayStays
    <2> QED BY <2>1, <2>4 DEF LadderInv, RungRatchets
  <1>8. ASSUME NEW votes \in [SleeveCoins -> {"enter", "stay", "leave", "stale"}], NEW f \in Fractions,
               SleeveRuns(votes, f)
        PROVE  LadderInv'
    BY <1>8, RunKeeps
  <1> QED BY <1>2, <1>3, <1>4, <1>5, <1>6, <1>7, <1>8 DEF LadderNext

\* A cycle's rung is never under the one that the best finished day since the history was last
\* lost has earned, for every ladder, every deposit and every price: selectSleeveRung reads the
\* highest of the points, and a day's point is final when the day is over.
THEOREM RungsAreKept == LadderSpec => []RungRatchets
  <1>1. LadderInv => RungRatchets
    BY DEF LadderInv
  <1> QED BY <1>1, LadderStarts, LadderSteps, PTL DEF LadderSpec
===============================================================================
