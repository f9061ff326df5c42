------------------------------ MODULE MCSleeve ------------------------------
(***************************************************************************)
(* One run over the sleeve: when its cycles run, what it sells and buys      *)
(* back, and how much it holds.  A behaviour is about one of the three.      *)
(***************************************************************************)
EXTENDS SleeveCycle, CycleClock, MCSleeveLadder

CONSTANTS btc, none, p1, p2

VARIABLES subject    \* what the behaviour is about

mcSleeps == {3}
mcVars == <<subject, vars, clockVars, ladderVars>>

\* A clock that is stopped, for the behaviours that are not about it.
Stopped ==
  /\ phase = 0 /\ main = Unarmed /\ sat = Unarmed /\ gap = 0 /\ watch = WatchEvery
  /\ alerted = FALSE /\ stopped = TRUE /\ reported = FALSE
  /\ slept = FALSE

MCInit ==
  /\ subject \in {"retries", "clock", "sizes"}
  /\ Init /\ LadderInit
  /\ IF subject = "clock" THEN ClockInit ELSE Stopped

MCNext ==
  \/ subject = "retries" /\ Next /\ UNCHANGED <<subject, clockVars, ladderVars>>
  \/ subject = "clock" /\ ClockNext /\ UNCHANGED <<subject, vars, ladderVars>>
  \/ subject = "sizes" /\ LadderNext /\ UNCHANGED <<subject, vars, clockVars>>

\* A step of the part the behaviour is about.
Retries(step) == subject = "retries" /\ step /\ UNCHANGED <<subject, clockVars, ladderVars>>
Clock(step)   == subject = "clock" /\ step /\ UNCHANGED <<subject, vars, ladderVars>>

\* The fairness of SleeveCycle!FairSpec and of CycleClock!ClockSpec.
MCSpec ==
  /\ MCInit /\ [][MCNext]_mcVars
  /\ WF_mcVars(Retries(Cycle))
  /\ \A p \in Passes :
       /\ WF_mcVars(Retries(Pass(p)))
       /\ \A m \in Markets :
            SF_mcVars(Retries(Retry(p, m))) /\ SF_mcVars(Retries(RetrySells(p) /\ pass[p].now = m))
  /\ WF_mcVars(Clock(Tick)) /\ WF_mcVars(Clock(Timers))
  /\ WF_mcVars(Clock(Completes \/ Fails)) /\ WF_mcVars(Clock(EndSat))
=============================================================================
