----------------------------- MODULE CycleClock -----------------------------
(***************************************************************************)
(* When cycles run: the candle-aligned schedulers of the 12h cycle and of   *)
(* the satellites' breakout cycle (src/src/core/cycleScheduler.js, main.js), *)
(* and the watchdog over them (src/src/monitor/cycleWatchdog.js).            *)
(*                                                                          *)
(* A timer counts the time the process lives; the close it was set for is    *)
(* read off the clock.  The two part when the host is suspended.  The clock  *)
(* is its place in the 12h bar, so the behaviours here go on for ever.       *)
(***************************************************************************)
EXTENDS Integers, FiniteSetsExt

CONSTANTS
  Period, SatPeriod,     \* ticks of a 12h and of a 4h bar
  Buffer, SatBuffer,     \* from a close to the fire: 3 s and a minute
  MaxWait,               \* how long the breakout cycle waits for the 12h cycle: 15 minutes
  Threshold,             \* a gap over this is a stall: 1.15 bars
  WatchEvery,            \* the watchdog's interval: 30 minutes
  Sleeps                 \* the lengths of a host suspend

ASSUME ClockAssumption ==
  /\ SatPeriod \in Nat \ {0} /\ Period \in Nat \ {0} /\ Period % SatPeriod = 0
  /\ Buffer \in 1 .. SatPeriod - 1 /\ SatBuffer \in Buffer + 1 .. SatPeriod - 1
  /\ MaxWait \in Nat /\ Threshold \in Nat /\ WatchEvery \in 1 .. Threshold
  /\ Sleeps \subseteq Nat \ {0}

VARIABLES
  phase,     \* the clock, as ticks into the 12h bar
  main,     \* the 12h scheduler: its state and the time left on its timer
  sat,       \* the breakout scheduler, the same; and how long it has waited
  gap,       \* now - lastCycleAt, Threshold + 1 standing for all above
  watch,     \* the time left to the watchdog's next check
  alerted,   \* watchdogLatch.alerted
  stopped,   \* shuttingDown
  slept,     \* auxiliary: a suspend since the last check
  reported   \* auxiliary: an alert went out since the last completed cycle

clockVars == <<phase, main, sat, gap, watch, alerted, stopped, slept, reported>>

Unarmed == [state |-> "off", left |-> 0, waited |-> 0]
Later(time, ticks) == Min({time + ticks, Threshold + 1})

\* nextCandleClose, less now.
NextClose(period, buffer) == ((phase + period - 1) \div period) * period + buffer - phase

\* schedule(), unless the bot is shutting down.
Armed(period, buffer) ==
  IF stopped THEN Unarmed ELSE [Unarmed EXCEPT !.state = "armed", !.left = NextClose(period, buffer)]

\* The boot's own cycle is awaited before any timer exists.
ClockInit ==
  /\ phase \in 0 .. Period - 1
  /\ main = [Unarmed EXCEPT !.state = "boot"] /\ sat = Unarmed
  /\ gap = 0 /\ watch = WatchEvery /\ alerted = FALSE /\ stopped = FALSE
  /\ slept = FALSE /\ reported = FALSE

Running(s) == s.state \in {"boot", "running", "hung"}

-----------------------------------------------------------------------------
(* Time. *)

Waits == sat.state = "waiting" /\ Running(main) /\ sat.waited < MaxWait

\* Timers that have run down fire before time goes on.
Quiet ==
  /\ main.state = "armed" => main.left > 0
  /\ sat.state = "armed" => sat.left > 0
  /\ sat.state = "waiting" => Waits
  /\ main.state # "boot" => watch > 0

Tick ==
  /\ Quiet
  /\ phase' = (phase + 1) % Period
  /\ main' = IF main.state = "armed" THEN [main EXCEPT !.left = @ - 1] ELSE main
  /\ sat' = CASE sat.state = "armed"   -> [sat EXCEPT !.left = @ - 1]
              [] sat.state = "waiting" -> [sat EXCEPT !.waited = @ + 1]
              [] OTHER                 -> sat
  /\ gap' = Later(gap, 1)
  /\ watch' = IF main.state = "boot" THEN watch ELSE watch - 1
  /\ UNCHANGED <<alerted, stopped, slept, reported>>

\* The host sleeps: the clock goes on, the timers do not.  Bound: once between two checks.
Suspend(ticks) ==
  /\ Quiet /\ ~slept
  /\ phase' = (phase + ticks) % Period /\ gap' = Later(gap, ticks)
  /\ slept' = TRUE
  /\ UNCHANGED <<main, sat, watch, alerted, stopped, reported>>

-----------------------------------------------------------------------------
(* The 12h scheduler. *)

FireCycle ==
  /\ main.state = "armed" /\ main.left = 0
  /\ main' = [main EXCEPT !.state = "running"]
  /\ UNCHANGED <<phase, sat, gap, watch, alerted, stopped, slept, reported>>

\* The next close is read off the clock, however long the cycle took.
Reschedule == main' = Armed(Period, Buffer)

\* A cycle completes and sets the heartbeat.  The boot's starts the other timers.
Completes ==
  /\ main.state \in {"boot", "running"}
  /\ gap' = 0 /\ reported' = FALSE /\ Reschedule
  /\ sat' = IF main.state = "boot" THEN Armed(SatPeriod, SatBuffer) ELSE sat
  /\ UNCHANGED <<phase, watch, alerted, stopped, slept>>

\* Mutant of Fails: an error ends the chain of timers.
FailsForGood ==
  /\ main.state = "running"
  /\ main' = Unarmed
  /\ UNCHANGED <<phase, sat, gap, watch, alerted, stopped, slept, reported>>

\* A cycle throws: onError, then the next one is scheduled all the same.
Fails ==
  /\ main.state = "running" /\ Reschedule
  /\ UNCHANGED <<phase, sat, gap, watch, alerted, stopped, slept, reported>>

\* It never settles.
Hangs ==
  /\ main.state = "running"
  /\ main' = [main EXCEPT !.state = "hung"]
  /\ UNCHANGED <<phase, sat, gap, watch, alerted, stopped, slept, reported>>

-----------------------------------------------------------------------------
(* The breakout scheduler. *)

FireSat ==
  /\ sat.state = "armed" /\ sat.left = 0
  /\ sat' = [sat EXCEPT !.state = "waiting"]
  /\ UNCHANGED <<phase, main, gap, watch, alerted, stopped, slept, reported>>

\* It waits for a 12h cycle under way, so long.
StartSat ==
  /\ sat.state = "waiting" /\ ~Waits
  /\ sat' = [sat EXCEPT !.state = "running"]
  /\ UNCHANGED <<phase, main, gap, watch, alerted, stopped, slept, reported>>

EndSat ==
  /\ sat.state = "running"
  /\ sat' = Armed(SatPeriod, SatBuffer)
  /\ UNCHANGED <<phase, main, gap, watch, alerted, stopped, slept, reported>>

-----------------------------------------------------------------------------
(* The watchdog, and the end. *)

\* Mutant of Latched: the latch never opens again.
LatchedForGood(stale) == [alert |-> stale /\ ~alerted, latch |-> alerted \/ stale]

\* updateWatchdogLatch.
Latched(stale) == [alert |-> stale /\ ~alerted, latch |-> stale]

Watch ==
  /\ main.state # "boot" /\ watch = 0
  /\ watch' = WatchEvery
  /\ LET answer == Latched(gap > Threshold)
     IN alerted' = answer.latch /\ reported' = (reported \/ answer.alert)
  /\ slept' = FALSE
  /\ UNCHANGED <<phase, main, sat, gap, stopped>>

\* SIGINT: both timers are cleared; what runs runs to its end.
Stop ==
  /\ ~stopped /\ main.state # "boot"
  /\ stopped' = TRUE
  /\ main' = IF main.state = "armed" THEN Unarmed ELSE main
  /\ sat' = IF sat.state = "armed" THEN Unarmed ELSE sat
  /\ UNCHANGED <<phase, gap, watch, alerted, slept, reported>>

Timers == FireCycle \/ FireSat \/ StartSat \/ Watch
ClockNext ==
  \/ Tick \/ Timers \/ Completes \/ Fails \/ Hangs \/ EndSat \/ Stop
  \/ \E ticks \in Sleeps : Suspend(ticks)

\* Time goes on and timers fire; a cycle that does not hang completes or throws.
ClockSpec ==
  /\ ClockInit /\ [][ClockNext]_clockVars
  /\ WF_clockVars(Tick) /\ WF_clockVars(Timers)
  /\ WF_clockVars(Completes \/ Fails) /\ WF_clockVars(EndSat)

-----------------------------------------------------------------------------
(* Properties. *)

\* Cycles go on for ever, over errors and suspends, unless one hangs or the bot is stopped.
\* (The finally of the timer's callback.)
CyclesGoOn == []<>(main.state \in {"running", "hung"}) \/ <>stopped

\* A cycle that hangs is reported, also after earlier stalls that were reported and ended.
\* (checkCycleGap, updateWatchdogLatch: "re-arm when a cycle completes again (so the NEXT
\* stall alerts too)".)
HangIsReported == <>[](main.state = "hung") => <>[]reported
=============================================================================
