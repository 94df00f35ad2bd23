----------------------------- MODULE TickHealth -----------------------------
(***************************************************************************)
(* What the scheduler's tick knows of its own health                       *)
(* (agents/runtime/scheduler.py, circuit_breaker.py, heartbeat.py,         *)
(* watchdog.py): the circuit breaker that skips work after failures, the   *)
(* heartbeat that counts successes and failures, and the watchdog that is  *)
(* asked at the end of every tick.  All of it is in memory: a process that *)
(* starts has a closed circuit and no heartbeat.                           *)
(***************************************************************************)
EXTENDS Naturals, FiniteSetsExt

CONSTANTS Threshold,   \* RUNTIME_CIRCUIT_BREAKER failure_threshold
          Recovery,    \* recovery_seconds, in units of time
          StaleAfter,  \* cycle interval times WATCHDOG_STALE_MULTIPLIER
          MaxFailures  \* bound: counters stop there

VARIABLES tick,        \* asleep, or what the tick in flight does
          breaker,     \* the circuit: state, consecutive_failures, time since it opened
          beat,        \* the heartbeat: consecutive_failures, time since the last success
          watch,       \* the watchdog: is_stale
          stopped      \* the emergency stop

health == <<tick, breaker, beat, watch, stopped>>

\* No success yet: last_successful_cycle is None.
Never == 1 + Max({Recovery, StaleAfter + 1})

TypeOK ==
    /\ tick \in {"asleep", "working", "skipped", "done", "failed"}
    /\ breaker \in [state : {"closed", "open", "half_open"}, failures : 0..MaxFailures, age : 0..Never]
    /\ beat \in [failures : 0..MaxFailures, age : 0..Never]
    /\ watch \in BOOLEAN /\ stopped \in BOOLEAN

Fresh == /\ tick = "asleep"
         /\ breaker = [state |-> "closed", failures |-> 0, age |-> 0]
         /\ beat = [failures |-> 0, age |-> Never]
         /\ watch = FALSE
Init == Fresh /\ stopped = FALSE

-----------------------------------------------------------------------------
More(n) == Min({n + 1, MaxFailures})

\* Mutant: a tick in the cooldown starts it again.
BeginExtends ==
    /\ tick = "asleep"
    /\ \/ /\ stopped \/ (breaker.state = "open" /\ breaker.age < Recovery)
          /\ tick' = "skipped" /\ breaker' = [breaker EXCEPT !.age = 0]
       \/ /\ ~stopped /\ (breaker.state = "open" => breaker.age >= Recovery)
          /\ tick' = "working"
          /\ breaker' = IF breaker.state = "open" THEN [breaker EXCEPT !.state = "half_open"] ELSE breaker
    /\ UNCHANGED <<beat, watch, stopped>>

\* is_emergency_stop, then should_allow_execution.
Begin ==
    /\ tick = "asleep"
    /\ \/ /\ stopped \/ (breaker.state = "open" /\ breaker.age < Recovery)
          /\ tick' = "skipped" /\ breaker' = breaker
       \/ /\ ~stopped /\ breaker.state = "open" /\ breaker.age >= Recovery
          /\ tick' = "working" /\ breaker' = [breaker EXCEPT !.state = "half_open"]
       \/ /\ ~stopped /\ breaker.state # "open"
          /\ tick' = "working" /\ breaker' = breaker
    /\ UNCHANGED <<beat, watch, stopped>>

Succeed ==
    /\ tick = "working" /\ tick' = "done"
    /\ breaker' = [state |-> "closed", failures |-> 0, age |-> 0]
    /\ UNCHANGED <<beat, watch, stopped>>

\* A probe that fails reopens the circuit, and its timer starts again.
Fail ==
    /\ tick = "working" /\ tick' = "failed"
    /\ LET failures == More(breaker.failures) IN
       breaker' = IF breaker.state = "half_open" \/ failures >= Threshold
                  THEN [state |-> "open", failures |-> failures, age |-> 0]
                  ELSE [breaker EXCEPT !.failures = failures]
    /\ UNCHANGED <<beat, watch, stopped>>

\* Stale is a long time since the last success, as the heartbeat has it.
Stale(age) == age # Never /\ age > StaleAfter

\* Mutant: only a failed tick asks the watchdog.
EndAsksLess ==
    /\ tick \in {"skipped", "done", "failed"}
    /\ tick' = "asleep"
    /\ beat' = IF tick = "failed" THEN [beat EXCEPT !.failures = More(@)] ELSE [failures |-> 0, age |-> 0]
    /\ watch' = IF tick = "failed" THEN Stale(beat'.age) ELSE watch
    /\ UNCHANGED <<breaker, stopped>>

\* The heartbeat counts a skipped tick as a success; the watchdog is asked after it.
End ==
    /\ tick \in {"skipped", "done", "failed"}
    /\ tick' = "asleep"
    /\ beat' = IF tick = "failed" THEN [beat EXCEPT !.failures = More(@)] ELSE [failures |-> 0, age |-> 0]
    /\ watch' = Stale(beat'.age)
    /\ UNCHANGED <<breaker, stopped>>

-----------------------------------------------------------------------------
\* Time passes between ticks and during one.
Older(age) == IF age >= Never - 1 THEN age ELSE age + 1
Elapse ==
    /\ breaker' = [breaker EXCEPT !.age = IF breaker.state = "open" THEN Older(@) ELSE @]
    /\ beat' = [beat EXCEPT !.age = Older(@)]
    /\ UNCHANGED <<tick, watch, stopped>>

EmergencyStop == stopped' = ~stopped /\ UNCHANGED <<tick, breaker, beat, watch>>

\* The process dies, and another begins.
Restarted ==
    /\ tick' = "asleep"
    /\ breaker' = [state |-> "closed", failures |-> 0, age |-> 0]
    /\ beat' = [failures |-> 0, age |-> Never]
    /\ watch' = FALSE
    /\ UNCHANGED stopped

Tick == Begin \/ Succeed \/ Fail \/ End
Next == Tick \/ Elapse \/ EmergencyStop \/ Restarted

\* run_forever ticks again and again, and the clock runs.
Fairness == WF_health(Tick) /\ WF_health(Elapse)

Spec == Init /\ [][Next]_health /\ Fairness

-----------------------------------------------------------------------------
\* The circuit is open because enough ticks in a row failed, closed because they did not, and
\* half open only while its probe is in flight: a tick that is skipped, a stop or a restart in
\* between leaves no half-open circuit behind.
BreakerTellsTheTruth ==
    /\ breaker.state = "open" => breaker.failures >= Threshold
    /\ breaker.state = "closed" => breaker.failures < Threshold
    /\ breaker.state = "half_open" => tick = "working"

\* The watchdog says stale only after a tick that failed, and takes it back at the first tick
\* that is not a failure: it recommends no restart of a scheduler that works or waits.
StaleMeansFailing == watch => beat.failures > 0

\* An open circuit is tried again, unless the emergency stop keeps the ticks from it.
CircuitIsTried == breaker.state = "open" ~> breaker.state # "open" \/ stopped
=============================================================================
