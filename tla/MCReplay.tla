------------------------------ MODULE MCReplay ------------------------------
(***************************************************************************)
(* One run over the tests on past bars: the two replays on one account       *)
(* ("replays"), and the walk-forward folds on a growing tape ("folds").       *)
(***************************************************************************)
EXTENDS PortfolioReplay, WalkForward

VARIABLES subject    \* what the behaviour is about

mcScalpers == {"A", "B"}
mcOverridden == {"A"}
mcCores == {"A#core"}
mcSatellites == {"A#bo"}
mcCoin == [k \in {"A", "B", "A#core", "A#bo"} |-> IF k = "B" THEN "B" ELSE "A"]
mcCosts == {[fee |-> 0, slip |-> 0], [fee |-> 10, slip |-> 10]}
mcPrices == {900, 1000, 1150, 1300}
\* Flat, under the stop and back, up through the first stage, through all, a gap down.
mcBars == {[open |-> 1000, low |-> 1000, high |-> 1000, close |-> 1000],
           [open |-> 1000, low |-> 900, high |-> 1350, close |-> 1000],
           [open |-> 1000, low |-> 1000, high |-> 1250, close |-> 1150],
           [open |-> 900, low |-> 900, high |-> 900, close |-> 900]}
mcAtrs == {0}
mcAllocations == {2800}
mcAmounts == {1000}
mcSignals == {}
mcBreakouts == {[ref |-> 1000, stop |-> 930, want |-> 3000]}

mcLevels == {0, 2}
mcLookbacks == {2}

mcVars == <<subject, pairVars, walkVars>>

MCInit ==
  /\ subject \in {"replays", "folds"}
  /\ PairInit /\ WalkInit
  /\ subject = "folds" => ~sleeves

MCNext ==
  \/ subject = "replays" /\ PairNext /\ UNCHANGED <<subject, walkVars>>
  \/ subject = "folds" /\ WalkNext /\ UNCHANGED <<subject, pairVars>>

MCSpec == MCInit /\ [][MCNext]_mcVars
===============================================================================
