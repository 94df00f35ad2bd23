----------------------------- MODULE AgentStatus -----------------------------
(***************************************************************************)
(* The agents' cycles and the agent_status row: which agents a tick finds   *)
(* due (runtime/scheduler.py, scheduling_control.py), one cycle of each    *)
(* (runtime/agent_runtime.py), and the read-merge-write of the row         *)
(* (sys_admin/sysadmin_store.py, orchestrator.py, self_healing.py,         *)
(* admin_agent.py).  Whether a tick may begin is TickHealth's part.        *)
(*                                                                         *)
(* The loop runs beside operators who change rows from other processes.    *)
(* Time is a set of ages that grow together up to the limits that the code *)
(* compares them with.  What an agent's cycle finds is left out; whether   *)
(* it raises is a free choice.                                             *)
(***************************************************************************)
EXTENDS Naturals, Sequences, SequencesExt

CONSTANTS
    Agents,       \* RUNTIME_AGENT_NAMES
    Orchestrated, \* orchestrator.AGENT_NAMES: those with an enabled and a crashed flag
    Gated,        \* those that run in market sessions only
    Never,        \* NEVER_SCHEDULABLE_AGENTS
    SysAdmin,     \* the agent whose cycle heals crashed agents
    NoAgent,
    Operators,    \* processes of people who change a row
    Cadence,      \* seconds between two cycles of an agent
    Limit,        \* failed cycles in a row before escalation
    FullHealth,   \* the best health_score, in tens
    MaxFailures,  \* bound on an agent's failed cycles in a row
    MaxFaults,    \* bound on database errors in the bookkeeping and deaths of the process
    MaxChanges    \* bound on operators' changes

VARIABLES
    row,      \* agent_status
    job,      \* job[t]: the row change that thread t has read for and will write
    loop,     \* where the scheduler's thread is, with which agents still due
    escalated,\* history: agents escalated in their present run of failures
    orphaned, \* history: agents whose last cycle ended without its bookkeeping
    spent     \* the faults and changes so far

vars == <<row, job, loop, escalated, orphaned, spent>>

Loop     == "loop"
Threads  == {Loop} \cup Operators
\* A disabled and a dry_run agent are held alike: the latter is only named in the log.
Modes    == {"enabled", "held"}
Ages(n)  == 0..n

\* An agent that never ran is due, as one that ran long ago.
NoRow == [there |-> FALSE, enabled |-> TRUE, crashed |-> FALSE, mode |-> "enabled", running |-> FALSE,
          age |-> Cadence, failures |-> 0, score |-> FullHealth]
Row   == [there : BOOLEAN, enabled : BOOLEAN, crashed : BOOLEAN, mode : Modes, running : BOOLEAN,
          age : Ages(Cadence), failures : 0..MaxFailures, score : 0..FullHealth]
Changes == [enabled : BOOLEAN] \cup [crashed : BOOLEAN] \cup [mode : Modes] \cup [running : {TRUE}]
            \cup [heartbeat : {TRUE}]
NoJob == [agent |-> NoAgent]
Rest  == [at |-> "out", agent |-> NoAgent, due |-> <<>>, heals |-> {}, ok |-> TRUE]

Marking == {"mark", "beat"}                     \* before the try of run_agent_cycle
Failing == {"emit", "crash", "heal", "escalate"} \* its except block
Cycle   == Marking \cup {"work", "record"} \cup Failing
Places  == Cycle \cup {"out", "pick", "drain", "dead"}

TypeOK ==
    /\ row \in [Agents -> Row]
    /\ \A t \in Threads : job[t] = NoJob \/ /\ job[t].agent \in Agents /\ job[t].seen \in Row
                                            /\ job[t].change \in Changes
    /\ loop.at \in Places /\ loop.agent \in Agents \cup {NoAgent} /\ loop.ok \in BOOLEAN
    /\ loop.due \in Seq(Agents) /\ loop.heals \subseteq Orchestrated
    /\ (loop.at \in Cycle) = (loop.agent # NoAgent)
    /\ escalated \subseteq Agents /\ orphaned \subseteq Agents
    /\ spent \in [faults : 0..MaxFaults, changes : 0..MaxChanges]

\* RuntimeScheduler.__init__; rows of earlier runs are those of agents that have run and rest.
Init ==
    /\ row = [a \in Agents |-> NoRow]
    /\ job = [t \in Threads |-> NoJob]
    /\ loop = Rest
    /\ escalated = {} /\ orphaned = {}
    /\ spent = [faults |-> 0, changes |-> 0]

-----------------------------------------------------------------------------
(* Rows: SELECT, merge in Python, INSERT or UPDATE.                        *)

Reads(t, a, change) ==
    /\ job[t] = NoJob
    /\ job' = [job EXCEPT ![t] = [agent |-> a, change |-> change, seen |-> row[a]]]

\* The columns that upsert_agent_status writes: as they were read, but for the change.
Merged(old, seen, change) ==
    [old EXCEPT !.there = TRUE,
                !.enabled = IF "enabled" \in DOMAIN change THEN change.enabled ELSE seen.enabled,
                !.crashed = IF "crashed" \in DOMAIN change THEN change.crashed ELSE seen.crashed,
                !.mode = IF "mode" \in DOMAIN change THEN change.mode ELSE seen.mode]

\* set_currently_running writes one column only.
Written(old, seen, change) ==
    IF "running" \in DOMAIN change THEN [old EXCEPT !.there = TRUE, !.running = TRUE]
    ELSE Merged(old, seen, change)

\* Two INSERTs of one agent: the second breaks the primary key.
Collides(t) == ~job[t].seen.there /\ row[job[t].agent].there

Writes(t) ==
    LET j == job[t] IN
    /\ j # NoJob /\ ~Collides(t)
    /\ row' = [row EXCEPT ![j.agent] = Written(@, j.seen, j.change)]
    /\ job' = [job EXCEPT ![t] = NoJob]

-----------------------------------------------------------------------------
(* The start of a tick.                                                    *)

\* _due_agents: is_schedulable, get_mode with its default, the session, the cadence.
Due(a, open) ==
    /\ a \notin Never
    /\ a \in Gated => open
    /\ row[a].mode = "enabled"
    /\ row[a].age >= Cadence

BeginTick ==
    /\ loop.at = "out"
    /\ \E open \in BOOLEAN :
        loop' = [Rest EXCEPT !.at = "pick", !.due = SetToSeq({a \in Agents : Due(a, open)})]
    /\ UNCHANGED <<row, job, escalated, orphaned, spent>>

-----------------------------------------------------------------------------
(* One agent's cycle.                                                      *)

Moves(to) == loop' = [loop EXCEPT !.at = to]

\* The enabled flag is read anew; the mode was read for the whole list.
PickAgent ==
    LET a == Head(loop.due)
        enabled == a \notin Orchestrated \/ row[a].enabled IN
    /\ loop.at = "pick" /\ loop.due # <<>>
    /\ IF enabled THEN Reads(Loop, a, [running |-> TRUE]) ELSE UNCHANGED job
    /\ loop' = [loop EXCEPT !.due = Tail(@), !.ok = TRUE,
                            !.agent = IF enabled THEN a ELSE @, !.at = IF enabled THEN "mark" ELSE @]
    /\ UNCHANGED <<row, escalated, orphaned, spent>>

\* Mutant: sys_admin looks and heals nobody.
SnapshotNobody(a) == {}

\* What the agent's own cycle will heal: sys_admin's snapshot of the crashed rows.
Snapshot(a) == IF a = SysAdmin THEN {b \in Orchestrated : row[b].crashed} ELSE {}

MarkRunning ==
    /\ loop.at = "mark"
    /\ Writes(Loop)
    /\ loop' = [loop EXCEPT !.at = IF loop.agent \in Orchestrated THEN "beat" ELSE "work",
                            !.heals = Snapshot(loop.agent)]
    /\ UNCHANGED <<escalated, orphaned, spent>>

\* The loop's upserts: a heartbeat, a recorded crash, a healed one.
LoopReads ==
    /\ \/ loop.at = "beat" /\ Reads(Loop, loop.agent, [heartbeat |-> TRUE])
       \/ loop.at = "crash" /\ Reads(Loop, loop.agent, [crashed |-> TRUE])
       \/ loop.at = "heal" /\ Reads(Loop, loop.agent, [crashed |-> FALSE])
       \/ loop.at = "work" /\ \E b \in loop.heals : Reads(Loop, b, [crashed |-> FALSE])
    /\ UNCHANGED <<row, loop, escalated, orphaned, spent>>

LoopWrites ==
    /\ loop.at \in {"beat", "crash", "heal", "work"}
    /\ Writes(Loop)
    /\ loop' = CASE loop.at = "beat" -> [loop EXCEPT !.at = "work"]
                 [] loop.at = "crash" -> [loop EXCEPT !.at = "heal"]
                 [] loop.at = "heal" -> [loop EXCEPT !.at = "escalate"]
                 [] loop.at = "work" -> [loop EXCEPT !.heals = @ \ {job[Loop].agent}]
    /\ UNCHANGED <<escalated, orphaned, spent>>

\* The agent's function returns, when sys_admin has healed all, or raises, at any point.
Work ==
    /\ loop.at = "work" /\ job[Loop] = NoJob
    /\ \/ loop.heals = {} /\ loop' = [loop EXCEPT !.at = "record"]
       \/ /\ row[loop.agent].failures < MaxFailures
          /\ loop' = [loop EXCEPT !.at = "record", !.ok = FALSE, !.heals = {}]
    /\ UNCHANGED <<row, job, escalated, orphaned, spent>>

\* Mutant: a failure forgets to clear currently_running.
RecordedRunning(r, ok) ==
    [r EXCEPT !.there = TRUE, !.running = @ /\ ~ok, !.age = 0, !.failures = IF ok THEN 0 ELSE @ + 1,
              !.score = IF ok THEN (IF @ < FullHealth THEN @ + 1 ELSE @) ELSE (IF @ > 2 THEN @ - 2 ELSE 0)]

\* record_execution: ten points up to a hundred, twenty down to none.
Recorded(r, ok) ==
    [r EXCEPT !.there = TRUE, !.running = FALSE, !.age = 0,
              !.failures = IF ok THEN 0 ELSE @ + 1,
              !.score = IF ok THEN (IF @ < FullHealth THEN @ + 1 ELSE @)
                        ELSE (IF @ > 2 THEN @ - 2 ELSE 0)]

RecordExecution ==
    /\ loop.at = "record"
    /\ row' = [row EXCEPT ![loop.agent] = Recorded(@, loop.ok)]
    /\ orphaned' = orphaned \ {loop.agent}
    /\ IF loop.ok
       THEN /\ loop' = [loop EXCEPT !.at = "pick", !.agent = NoAgent]
            /\ escalated' = escalated \ {loop.agent}
       ELSE Moves("emit") /\ UNCHANGED escalated
    /\ UNCHANGED <<job, spent>>

EmitFailure ==
    /\ loop.at = "emit"
    /\ Moves(IF loop.agent \in Orchestrated THEN "crash" ELSE "escalate")
    /\ UNCHANGED <<row, job, escalated, orphaned, spent>>

Escalate ==
    /\ loop.at = "escalate"
    /\ escalated' = IF row[loop.agent].failures >= Limit THEN escalated \cup {loop.agent} ELSE escalated
    /\ loop' = [loop EXCEPT !.at = "pick", !.agent = NoAgent]
    /\ UNCHANGED <<row, job, orphaned, spent>>

-----------------------------------------------------------------------------
(* The end of a tick.                                                      *)

\* All agents done: tasks and workflows come next.
Drain ==
    /\ loop.at = "pick" /\ loop.due = <<>>
    /\ Moves("drain")
    /\ UNCHANGED <<row, job, escalated, orphaned, spent>>

EndTick ==
    /\ loop.at = "drain"
    /\ loop' = Rest
    /\ UNCHANGED <<row, job, escalated, orphaned, spent>>

\* An exception anywhere but in the agent's own function leaves the whole tick.  One in
\* recording a success is caught and recorded as a failure first.
TickRaises ==
    /\ \/ job[Loop] # NoJob /\ Collides(Loop) /\ UNCHANGED spent
       \/ /\ spent.faults < MaxFaults
          /\ spent' = [spent EXCEPT !.faults = @ + 1]
          /\ loop.at \in Marking \cup Failing \cup {"pick", "drain"} \/ (loop.at = "record" /\ ~loop.ok)
    /\ loop' = Rest
    /\ job' = [job EXCEPT ![Loop] = NoJob]
    /\ orphaned' = orphaned \cup ({loop.agent} \ {NoAgent})
    /\ UNCHANGED <<row, escalated>>

RecordRaises ==
    /\ loop.at = "record" /\ loop.ok /\ row[loop.agent].failures < MaxFailures
    /\ spent.faults < MaxFaults
    /\ spent' = [spent EXCEPT !.faults = @ + 1]
    /\ loop' = [loop EXCEPT !.ok = FALSE]
    /\ UNCHANGED <<row, job, escalated, orphaned>>

-----------------------------------------------------------------------------
(* Operators, deaths and time.                                             *)

\* set_mode, enable_agent, disable_agent and restart_agent.
OperatorReads(o) ==
    /\ spent.changes < MaxChanges
    /\ spent' = [spent EXCEPT !.changes = @ + 1]
    /\ \/ \E a \in Agents \ Never, m \in Modes : Reads(o, a, [mode |-> m])
       \/ \E a \in Orchestrated, e \in BOOLEAN : Reads(o, a, [enabled |-> e])
       \/ \E a \in Orchestrated : Reads(o, a, [crashed |-> FALSE])
    /\ UNCHANGED <<row, loop, escalated, orphaned>>

OperatorWrites(o) ==
    /\ \/ Writes(o)
       \/ /\ job[o] # NoJob /\ Collides(o)
          /\ job' = [job EXCEPT ![o] = NoJob]
          /\ UNCHANGED row
    /\ UNCHANGED <<loop, escalated, orphaned, spent>>

\* The rows are on disk.
Die ==
    /\ spent.faults < MaxFaults /\ loop.at # "dead"
    /\ spent' = [spent EXCEPT !.faults = @ + 1]
    /\ loop' = [Rest EXCEPT !.at = "dead"]
    /\ job' = [job EXCEPT ![Loop] = NoJob]
    /\ orphaned' = orphaned \cup ({loop.agent} \ {NoAgent})
    /\ UNCHANGED <<row, escalated>>

Boot ==
    /\ loop.at = "dead"
    /\ Moves("out")
    /\ UNCHANGED <<row, job, escalated, orphaned, spent>>

Older(age, most) == IF age < most THEN age + 1 ELSE age

\* Ages are read when a tick begins: the time it takes may as well pass before.
Elapse ==
    /\ loop.at = "out"
    /\ row' = [a \in Agents |-> [row[a] EXCEPT !.age = Older(@, Cadence)]]
    /\ UNCHANGED <<job, loop, escalated, orphaned, spent>>

Tick ==
    \/ BeginTick \/ PickAgent \/ MarkRunning \/ LoopReads \/ LoopWrites \/ Work
    \/ RecordExecution \/ EmitFailure \/ Escalate \/ Drain \/ EndTick \/ TickRaises \/ RecordRaises

Next ==
    \/ Tick \/ Die \/ Boot \/ Elapse
    \/ \E o \in Operators : OperatorReads(o) \/ OperatorWrites(o)

\* run_forever goes on for as long as the process lives, agents' functions return, and the
\* machine restarts a dead process.
Fairness == WF_vars(Tick) /\ SF_vars(Elapse) /\ WF_vars(Boot)

Spec == Init /\ [][Next]_vars /\ Fairness

-----------------------------------------------------------------------------
(* Properties.                                                             *)

\* A row says running only while the loop is in that agent's cycle, or when the bookkeeping
\* of its last cycle was cut short by an error or a death, whatever operators write meanwhile.
RunningIsHonest ==
    \A a \in Agents : row[a].running =>
        a \in orphaned \/ (loop.agent = a /\ loop.at \in {"beat", "work", "record"})

\* An agent that has failed Limit cycles in a row was escalated in this run of failures,
\* unless the failing cycle is still at it or was cut short.
EscalatedInTime ==
    \A a \in Agents : row[a].failures >= Limit =>
        a \in escalated \cup orphaned \/ (loop.agent = a /\ loop.at \in Cycle)

\* The health score is bounded by the failures in a row: no concurrent row write, restart or
\* late record can leave an agent that keeps failing with the score of a healthy one.
ScoreFollowsFailures ==
    \A a \in Agents : row[a].score + 2 * row[a].failures <= FullHealth \/ row[a].score = 0

\* A recorded crash is cleared in the end, by the cycle itself or by sys_admin's, unless
\* sys_admin is taken off the scheduler.
CrashIsHealed ==
    \A a \in Orchestrated :
        row[a].crashed ~> (~row[a].crashed \/ row[SysAdmin].mode # "enabled")
=============================================================================
