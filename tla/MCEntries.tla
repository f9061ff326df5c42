----------------------------- MODULE MCEntries -----------------------------
(***************************************************************************)
(* One run over what lets an entry through: the gates of a cycle, and the    *)
(* loss brakes over days.  A behaviour is about one of the two.              *)
(***************************************************************************)
EXTENDS EngineCycle, RiskBrake

VARIABLES subject    \* what the behaviour is about

mcSymbols == {"A", "B", "C"}
mcOrder == [s \in mcSymbols |-> CASE s = "A" -> 1 [] s = "B" -> 2 [] s = "C" -> 3]
mcCorrelated == {{"A", "B"}}
mcLabels == {"BULL", "BEAR"}
mcBears == {"BEAR"}
mcLeaving == {"C"}
mcConfidences == {1, 2}

mcCoins == {"A"}
mcEquities == {0, 50, 100}
mcGains == {-6, 5}
mcKinds == {"engine", "core"}

MCInit == subject \in {"cycle", "brakes"} /\ CycleInit /\ BrakeInit

MCNext ==
  \/ subject = "cycle" /\ CycleNext /\ UNCHANGED <<subject, brakeVars>>
  \/ subject = "brakes" /\ BrakeNext /\ UNCHANGED <<subject, cycleVars>>

MCSpec == MCInit /\ [][MCNext]_<<subject, cycleVars, brakeVars>>
=============================================================================
