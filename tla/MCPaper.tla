------------------------------- MODULE MCPaper -------------------------------
(***************************************************************************)
(* One run over what the bot writes down of its trades and finds again: the  *)
(* paper account ("account") or the live bot's log and page ("log").          *)
(***************************************************************************)
EXTENDS PaperRestart, TradeLog

VARIABLES subject    \* what the behaviour is about

mcScalpers == {"A"}
mcCores == {"A#core"}
mcSatellites == {"A#bo"}
mcPrices == {900, 1000, 1150}
mcAtrs == {0}
mcAllocations == {2000}
mcSignals == {[limit |-> 1000, stop |-> 900, size |-> 2000]}

mcLogCoins == {"A", "B"}

mcVars == <<subject, paperVars, logVars>>

MCInit ==
  /\ subject \in {"account", "log"}
  /\ PaperInit /\ LogInit
  /\ subject = "account" => scene = "page"

MCNext ==
  \/ subject = "account" /\ PaperNext /\ UNCHANGED <<subject, logVars>>
  \/ subject = "log" /\ LogNext /\ UNCHANGED <<subject, paperVars>>

\* A step of the log.
Logs(step) == subject = "log" /\ step /\ UNCHANGED <<subject, paperVars>>

\* The fairness of TradeLog!LogFairSpec.
MCSpec ==
  /\ MCInit /\ [][MCNext]_mcVars
  /\ WF_mcVars(Logs(Boot)) /\ WF_mcVars(Logs(Booted \/ \E c \in LogCoins : Adopt(c)))
  /\ WF_mcVars(Logs(Connect)) /\ WF_mcVars(Logs(Deliver)) /\ WF_mcVars(Logs(Heartbeat))
==============================================================================
