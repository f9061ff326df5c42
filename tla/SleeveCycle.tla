------------------------------ MODULE SleeveCycle ------------------------------
(***************************************************************************)
(* The TSM core sleeve between cycles: runTsmCoreCycle (src/src/core/engine.js)  *)
(* votes each coin in or out, the risk loop (src/src/main.js) retries the exits   *)
(* that failed, and a coin that was sold waits for a pause and for a proof        *)
(* before it is bought back (src/src/engine/tsmCore.js), over restarts            *)
(* (src/src/data/sleeveStateStore.js). The orders are LiveTrader's.               *)
(***************************************************************************)
EXTENDS Naturals

CONSTANTS
  Markets,
  NoMarket,
  Passes,      \* risk passes that may overlap: the interval has no guard
  Votes,       \* lookbacks that vote
  EnterVotes,  \* positive votes that open a leg
  StayVotes,   \* positive votes that keep it
  MaxCrashes,  \* bound on the crashes
  MaxFaults,   \* bound on the faults
  Faults       \* a subset of AllFaults

\* stale: the balance is unknown when a cycle asks for the status.
\* series: the candle series of a coin is stale, so it has no vote this cycle.
\* partial: a close fills in part and leaves a rest an order could still sell.
\* race:  a retried close may be in flight when a cycle reads the status.
\* save:  a write of tsm_sleeve_state.json may fail.
AllFaults == {"stale", "series", "partial", "race", "save"}

ASSUME SleeveAssumption ==
  /\ NoMarket \notin Markets
  /\ Votes \in Nat \ {0} /\ EnterVotes \in 1 .. Votes /\ StayVotes \in 1 .. EnterVotes
  /\ MaxCrashes \in Nat /\ MaxFaults \in Nat
  /\ Faults \subseteq AllFaults

VARIABLES
  held,     \* coins with a core leg
  failed,   \* state.tsmCoreFailedCloses
  gate,     \* state.tsmRebuyGate
  paused,   \* coins whose state.tsmLastExitAt is less than reentryPauseHours old
  file,     \* tsm_sleeve_state.json
  cycle,    \* the 12h cycle
  pass,     \* the risk passes
  crashes,  \* crashes so far
  faults,   \* faults so far
  wants,    \* auxiliary: coins the last vote on them decided to sell, not sold since
  waiting,  \* auxiliary: coins sold, with no broken trend and no proof since
  missed    \* auxiliary: coins whose retry a fault has dropped since the last vote on them

vars == <<held, failed, gate, paused, file, cycle, pass, crashes, faults, wants, waiting, missed>>

NoCycle == [at |-> "idle", held |-> {}, open |-> {}, close |-> {}, now |-> NoMarket, rested |-> FALSE]
NoPass  == [at |-> "idle", todo |-> {}, now |-> NoMarket, rests |-> FALSE]

Init ==
  /\ held = {} /\ failed = {} /\ gate = {} /\ paused = {}
  /\ file = [gate |-> {}, paused |-> {}]
  /\ cycle = [NoCycle EXCEPT !.at = "status"]
  /\ pass = [p \in Passes |-> NoPass]
  /\ crashes = 0 /\ faults = 0
  /\ wants = {} /\ waiting = {} /\ missed = {}

memory == <<gate, paused, file>>
history == <<wants, waiting, missed>>

\* One more fault of a kind.
Fault(kind) == kind \in Faults /\ faults < MaxFaults /\ faults' = faults + 1

\* #withMarketLock: an order on the coin is in flight.
Busy(m) ==
  \/ cycle.at \in {"opening", "closing"} /\ cycle.now = m
  \/ \E p \in Passes : pass[p].at = "closing" /\ pass[p].now = m

\* persistSleeveState writes what the memory now holds; a failed write leaves the file.
Persist ==
  \/ file' = [gate |-> gate', paused |-> paused']
  \/ "save" \in Faults /\ UNCHANGED file

\* noteCoreExit: the coin waits for its pause and its proof.
NoteExit(m) ==
  /\ gate' = gate \cup {m} /\ paused' = paused \cup {m}
  /\ Persist

-------------------------------------------------------------------------------
(* A close, by the cycle or by a retry.                                      *)

\* It sells the leg, or a part of it; both are a result, and noted as an exit.
Sold(m) ==
  /\ m \in held
  /\ \/ held' = held \ {m} /\ wants' = wants \ {m} /\ waiting' = waiting \cup {m} /\ UNCHANGED <<faults, missed>>
     \/ Fault("partial") /\ missed' = missed \cup {m} /\ UNCHANGED <<held, wants, waiting>>
  /\ NoteExit(m)

\* It returns null: nothing filled, the order failed, or there is no leg.
NotSold == UNCHANGED <<held, faults, history, memory>>

-------------------------------------------------------------------------------
(* The cycle.                                                                *)

\* Mutant of StartCycle: the retries of the cycle before are kept.
StartKeepingRetries ==
  /\ cycle.at = "idle" /\ cycle.rested
  /\ cycle' = [NoCycle EXCEPT !.at = "status"]
  /\ UNCHANGED <<held, failed, memory, pass, crashes, faults, history>>

\* Every 12 hours, so at least one pass of the 2-minute risk loop ran since the last one.
StartCycle ==
  /\ cycle.at = "idle" /\ cycle.rested
  /\ failed' = {}
  /\ cycle' = [NoCycle EXCEPT !.at = "status"]
  /\ UNCHANGED <<held, memory, pass, crashes, faults, history>>

\* The balance is unknown: the cycle is skipped.
SkipCycle ==
  /\ cycle.at = "status" /\ Fault("stale")
  /\ cycle' = NoCycle /\ missed' = Markets
  /\ UNCHANGED <<held, failed, memory, pass, crashes, wants, waiting>>

ReadStatus ==
  /\ cycle.at = "status"
  /\ "race" \in Faults \/ \A p \in Passes : pass[p].at # "closing"
  /\ cycle' = [cycle EXCEPT !.at = "plan", !.held = held]
  /\ UNCHANGED <<held, failed, memory, pass, crashes, faults, history>>

Majority == Votes \div 2 + 1

\* Coins still waiting for a proof: not held, and neither a broken trend nor the proof yet.
Gates(seen, vote, proof) ==
  (gate \ cycle.held) \ {m \in seen : vote[m] < Majority \/ m \in proof}

Opens(seen, vote, gates) ==
  {m \in seen \ cycle.held : vote[m] >= EnterVotes} \ (paused \cup gates)

Closes(seen, vote) == {m \in seen \cap cycle.held : vote[m] < StayVotes}

\* planCoreActions, filterPausedEntries and applyRebuyGate, on the coins with a fresh series.
PlanCycle ==
  /\ cycle.at = "plan"
  /\ \E seen \in SUBSET Markets,
        vote \in [Markets -> 0 .. Votes], proof \in SUBSET Markets :
       /\ IF seen = Markets THEN UNCHANGED faults ELSE Fault("series")
       /\ gate' = Gates(seen, vote, proof) /\ UNCHANGED paused
       /\ IF gate' # file.gate \/ paused # file.paused THEN Persist ELSE UNCHANGED file
       /\ cycle' = [cycle EXCEPT !.at = "act", !.open = Opens(seen, vote, gate'), !.close = Closes(seen, vote)]
       /\ wants' = (wants \ seen) \cup Closes(seen, vote)
       /\ waiting' = waiting \ {m \in seen : vote[m] < Majority \/ m \in proof}
       /\ missed' = Markets \ seen
  /\ UNCHANGED <<held, failed, pass, crashes>>

\* The next action of the plan, unless the coin is locked: then it is skipped like a failure.
ActOpen(m) ==
  /\ cycle.at = "act" /\ m \in cycle.open
  /\ cycle' = IF Busy(m) THEN [cycle EXCEPT !.open = @ \ {m}]
              ELSE [cycle EXCEPT !.at = "opening", !.now = m, !.open = @ \ {m}]
  /\ UNCHANGED <<held, failed, memory, pass, crashes, faults, history>>

ActClose(m) ==
  /\ cycle.at = "act" /\ m \in cycle.close
  /\ cycle' = IF Busy(m) THEN [cycle EXCEPT !.close = @ \ {m}]
              ELSE [cycle EXCEPT !.at = "closing", !.now = m, !.close = @ \ {m}]
  /\ failed' = IF Busy(m) THEN failed \cup {m} ELSE failed
  /\ UNCHANGED <<held, memory, pass, crashes, faults, history>>

Acted == cycle' = [cycle EXCEPT !.at = "act", !.now = NoMarket]

\* The buy fills, unless it does not.
Open ==
  /\ cycle.at = "opening" /\ Acted
  /\ \/ held' = held \cup {cycle.now} /\ waiting' = waiting \ {cycle.now}
     \/ UNCHANGED <<held, waiting>>
  /\ UNCHANGED <<failed, memory, pass, crashes, faults, wants, missed>>

\* Mutant of Close: a failed close waits for the next cycle.
CloseUnrecorded ==
  /\ cycle.at = "closing" /\ Acted
  /\ Sold(cycle.now) \/ NotSold
  /\ UNCHANGED <<failed, pass, crashes>>

\* The exit, or its retry by the risk loop.
Close ==
  /\ cycle.at = "closing" /\ Acted
  /\ \/ Sold(cycle.now) /\ UNCHANGED failed
     \/ NotSold /\ failed' = failed \cup {cycle.now}
  /\ UNCHANGED <<pass, crashes>>

EndCycle ==
  /\ cycle.at = "act" /\ cycle.open \cup cycle.close = {}
  /\ cycle' = NoCycle
  /\ UNCHANGED <<held, failed, memory, pass, crashes, faults, history>>

-------------------------------------------------------------------------------
(* The risk loop.                                                            *)

BeginPass(p) ==
  /\ pass[p].at = "idle"
  /\ pass' = [pass EXCEPT ![p] = [NoPass EXCEPT !.at = "loop", !.todo = held, !.rests = cycle.at = "idle"]]
  /\ UNCHANGED <<held, failed, memory, cycle, crashes, faults, history>>

\* The ticker fails, no exit failed, or the coin is locked: on to the next position.
PassOver(p, m) ==
  /\ pass[p].at = "loop" /\ m \in pass[p].todo
  /\ pass' = [pass EXCEPT ![p].todo = @ \ {m}]
  /\ UNCHANGED <<held, failed, memory, cycle, crashes, faults, history>>

\* Mutant of Retry: the flag of a coin is not read.
RetryNothing(p, m) == FALSE /\ UNCHANGED vars

\* closeCorePosition, for a coin whose exit failed.
Retry(p, m) ==
  /\ pass[p].at = "loop" /\ m \in pass[p].todo \cap failed /\ ~Busy(m)
  /\ pass' = [pass EXCEPT ![p].at = "closing", ![p].now = m, ![p].todo = @ \ {m}]
  /\ UNCHANGED <<held, failed, memory, cycle, crashes, faults, history>>

Retried(p) == pass' = [pass EXCEPT ![p].at = "loop", ![p].now = NoMarket]

RetrySells(p) ==
  /\ pass[p].at = "closing" /\ Retried(p)
  /\ Sold(pass[p].now) /\ failed' = failed \ {pass[p].now}
  /\ UNCHANGED <<cycle, crashes>>

RetryFails(p) ==
  /\ pass[p].at = "closing" /\ Retried(p)
  /\ NotSold
  /\ UNCHANGED <<failed, cycle, crashes>>

EndPass(p) ==
  /\ pass[p].at = "loop" /\ pass[p].todo = {}
  /\ pass' = [pass EXCEPT ![p] = NoPass]
  /\ cycle' = IF cycle.at = "idle" /\ pass[p].rests THEN [cycle EXCEPT !.rested = TRUE] ELSE cycle
  /\ UNCHANGED <<held, failed, memory, crashes, faults, history>>

-------------------------------------------------------------------------------
(* Time, crash and restart.                                                  *)

\* The pause after an exit is over; the file holds the same instant.
PauseEnds(m) ==
  /\ m \in paused \cup file.paused
  /\ paused' = paused \ {m} /\ file' = [file EXCEPT !.paused = @ \ {m}]
  /\ UNCHANGED <<held, failed, gate, cycle, pass, crashes, faults, history>>

\* Mutant of Crash: the buy-back gate lives in memory.
CrashForgetting ==
  /\ crashes < MaxCrashes /\ crashes' = crashes + 1
  /\ failed' = {} /\ gate' = {} /\ paused' = file.paused
  /\ cycle' = [NoCycle EXCEPT !.at = "status"]
  /\ pass' = [p \in Passes |-> NoPass]
  /\ UNCHANGED <<held, file, faults, history>>

\* The process dies and boots: the legs and the file are restored, and a cycle runs at once.
Crash ==
  /\ crashes < MaxCrashes /\ crashes' = crashes + 1
  /\ failed' = {} /\ gate' = file.gate /\ paused' = file.paused
  /\ cycle' = [NoCycle EXCEPT !.at = "status"]
  /\ pass' = [p \in Passes |-> NoPass]
  /\ UNCHANGED <<held, file, faults, history>>

Cycle == StartCycle \/ SkipCycle \/ ReadStatus \/ PlanCycle \/ Open \/ Close \/ EndCycle
         \/ \E m \in Markets : ActOpen(m) \/ ActClose(m)

Pass(p) == BeginPass(p) \/ RetrySells(p) \/ RetryFails(p) \/ EndPass(p)
           \/ \E m \in Markets : PassOver(p, m) \/ Retry(p, m)

Next == Cycle \/ (\E p \in Passes : Pass(p)) \/ (\E m \in Markets : PauseEnds(m)) \/ Crash

Spec == Init /\ [][Next]_vars

\* The timers keep firing and every request settles; a risk pass does not miss the ticker
\* of a coin for ever, and a retried close does not fail for ever.
FairSpec ==
  /\ Spec
  /\ WF_vars(Cycle)
  /\ \A p \in Passes :
       /\ WF_vars(Pass(p))
       /\ \A m \in Markets : SF_vars(Retry(p, m)) /\ SF_vars(RetrySells(p) /\ pass[p].now = m)

-------------------------------------------------------------------------------
(* Properties.                                                               *)

(* "Vote-flip exits that fail on the exchange are ... retried by the fast risk loop  *)
(* (live) instead of waiting 12h" (runTsmCoreCycle): between cycles, a leg its last    *)
(* vote decided to sell is sold or is in tsmCoreFailedCloses, over crashes and         *)
(* overlapping passes; but not a leg whose close filled in part, or whose coin or      *)
(* cycle had no vote this time.                                                        *)
StuckExitIsRetried == cycle.at = "idle" => (wants \cap held) \ missed \subseteq failed

(* Sections L and M of tsmCore.js: over failed sells, retries and restarts, a coin that   *)
(* was sold is bought back only after a broken trend or a close above its recent high.     *)
BoughtBackOnProof == [][\A m \in held' \ held : m \notin waiting]_vars

(* A leg is sold only on its own vote: a retry never sells a coin whose last vote kept it  *)
(* ("stale retry flags would otherwise outlive a vote that flipped back on").              *)
SoldByItsVote == [][held \ held' \subseteq wants]_vars

(* An exit that was decided is carried out, or taken back by a later vote.                 *)
ExitHappens == \A m \in Markets : m \in wants ~> m \notin wants

===============================================================================
