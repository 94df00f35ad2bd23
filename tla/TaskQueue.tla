----------------------------- MODULE TaskQueue -----------------------------
(***************************************************************************)
(* The runtime task queue: agents/runtime/runtime_store.py (the            *)
(* runtime_task_queue table), agents/runtime/task_queue.py (process_one    *)
(* and its thread pool) and the two places that drain the queue, the       *)
(* dev_agent cycle of agent_runtime.py and RuntimeScheduler.tick().        *)
(*                                                                         *)
(* A consumer is one scheduler loop in one process.  It runs process_one   *)
(* from one of two call sites, which pass different handler maps.  Every   *)
(* SQL statement is a step of its own: sqlite3 opens no transaction for    *)
(* the SELECT of claim_next_task, so another consumer can run between the  *)
(* SELECT of the candidate and the guarded UPDATE.                         *)
(*                                                                         *)
(* Time is abstracted to due[t], next_attempt_ts <= now.  Among due tasks  *)
(* of the best priority the model claims any one; the code's tie-break by  *)
(* next_attempt_ts selects one of them.                                    *)
(***************************************************************************)
EXTENDS Naturals, Sequences, FiniteSets

CONSTANTS Tasks,        \* ids of rows that may be enqueued
          Types,        \* task_type strings
          DevTrigger,   \* the task_type "dev_agent_trigger"
          Registered,   \* types given to RuntimeScheduler.register_task_handler
          Priorities,   \* ranks of PRIORITIES in use: 0 high, 1 medium, 2 low
          Consumers,    \* scheduler loops
          NoTask,       \* process_one holds no task
          MaxAttempts,  \* config.RUNTIME_TASK_MAX_ATTEMPTS
          PoolSize,     \* max_workers of _EXECUTOR
          MaxCrashes    \* bound on process crashes

ASSUME QueueAssumption ==
    /\ MaxAttempts \in Nat \ {0}
    /\ PoolSize \in Nat \ {0}
    /\ MaxCrashes \in Nat
    /\ NoTask \notin Tasks \cup Consumers
    /\ Priorities \subseteq 0..2
    /\ DevTrigger \in Types
    /\ Registered \subseteq Types

VARIABLES
    row,      \* row[t]: status, attempts, priority (0 is high) and type of a row
    due,      \* due[t]: next_attempt_ts <= now
    at,       \* at[c]: where the consumer is in process_one
    site,     \* site[c]: which caller's handler map it was given
    held,     \* held[c]: the candidate, then the claimed task
    result,   \* result[c]: what the awaited future has become
    pending,  \* pending[c]: futures submitted to the pool and not started
    busy,     \* busy[c]: jobs on the pool's threads
    ran,      \* history: jobs whose real handler started
    lost,     \* history: tasks whose consumer died holding them
    crashes   \* number of crashes so far

vars == <<row, due, at, site, held, result, pending, busy, ran, lost, crashes>>

Statuses == {"absent", "queued", "running", "retrying", "dead", "completed"}
Waiting  == {"queued", "retrying"}
Settled  == {"dead", "completed"}
Places   == {"idle", "selected", "claimed", "awaiting"}
Sites    == {"dev_agent_cycle", "tick"}
Jobs     == [task : Tasks, attempt : 1..MaxAttempts, real : BOOLEAN]

Row == [status : Statuses, attempts : 0..MaxAttempts, priority : 0..2, type : Types]

NoRow == [status |-> "absent", attempts |-> 0, priority |-> 0, type |-> DevTrigger]

TypeOK ==
    /\ row \in [Tasks -> Row]
    /\ due \in [Tasks -> BOOLEAN]
    /\ at \in [Consumers -> Places]
    /\ site \in [Consumers -> Sites]
    /\ held \in [Consumers -> Tasks \cup {NoTask}]
    /\ result \in [Consumers -> {"none", "ok", "raised"}]
    /\ pending \in [Consumers -> Seq(Jobs)]
    /\ busy \in [Consumers -> SUBSET Jobs]
    /\ ran \subseteq Jobs
    /\ lost \subseteq Tasks
    /\ crashes \in 0..MaxCrashes

Init ==
    /\ row = [t \in Tasks |-> NoRow]
    /\ due = [t \in Tasks |-> FALSE]
    /\ at = [c \in Consumers |-> "idle"]
    /\ site = [c \in Consumers |-> "dev_agent_cycle"]
    /\ held = [c \in Consumers |-> NoTask]
    /\ result = [c \in Consumers |-> "none"]
    /\ pending = [c \in Consumers |-> << >>]
    /\ busy = [c \in Consumers |-> {}]
    /\ ran = {}
    /\ lost = {}
    /\ crashes = 0

-----------------------------------------------------------------------------
(* The handler maps.  The dev_agent cycle knows dev_agent_trigger only;     *)
(* tick() maps it to a lambda that does nothing and adds the registered     *)
(* handlers, which may replace that lambda.                                 *)

Handled(s) == IF s = "dev_agent_cycle" THEN {DevTrigger} ELSE {DevTrigger} \cup Registered

IsReal(s, ty) == s = "dev_agent_cycle" \/ ty \in Registered

\* tick() drains the queue only when some handler was registered.
Drains(s) == s = "tick" => Registered # {}

Candidates == {t \in Tasks : row[t].status \in Waiting /\ due[t]}

BestCandidates == {t \in Candidates : \A u \in Candidates : row[t].priority <= row[u].priority}

Claimed(c) == at[c] \in {"claimed", "awaiting"}

CurrentJob(c) == [task |-> held[c], attempt |-> row[held[c]].attempts,
                  real |-> IsReal(site[c], row[held[c]].type)]

-----------------------------------------------------------------------------
\* task_queue.enqueue: INSERT with status queued, due at once.
Enqueue(t, ty, p) ==
    /\ row[t].status = "absent"
    /\ row' = [row EXCEPT ![t] = [status |-> "queued", attempts |-> 0, priority |-> p, type |-> ty]]
    /\ due' = [due EXCEPT ![t] = TRUE]
    /\ UNCHANGED <<at, site, held, result, pending, busy, ran, lost, crashes>>

\* claim_next_task, the SELECT: the candidate id is remembered outside any
\* transaction.  No candidate ends process_one with None.
SelectCandidate(c, s) ==
    /\ at[c] = "idle"
    /\ Drains(s)
    /\ \E t \in BestCandidates : held' = [held EXCEPT ![c] = t]
    /\ at' = [at EXCEPT ![c] = "selected"]
    /\ site' = [site EXCEPT ![c] = s]
    /\ UNCHANGED <<row, due, result, pending, busy, ran, lost, crashes>>

\* What the UPDATE of claim_next_task makes of a row.
AsClaimed(r) == [r EXCEPT !.status = "running", !.attempts = r.attempts + 1]

\* Mutant: the UPDATE of claim_next_task without AND status IN (...).
ClaimUpdateUnguarded(c) ==
    /\ at[c] = "selected"
    /\ row' = [row EXCEPT ![held[c]] = AsClaimed(row[held[c]])]
    /\ at' = [at EXCEPT ![c] = "claimed"]
    /\ UNCHANGED <<due, site, held, result, pending, busy, ran, lost, crashes>>

\* claim_next_task, the UPDATE guarded by status alone, when it changes the row.
ClaimUpdate(c) ==
    /\ at[c] = "selected"
    /\ row[held[c]].status \in Waiting
    /\ row' = [row EXCEPT ![held[c]] = AsClaimed(row[held[c]])]
    /\ at' = [at EXCEPT ![c] = "claimed"]
    /\ UNCHANGED <<due, site, held, result, pending, busy, ran, lost, crashes>>

\* rowcount = 0: another consumer won, process_one returns None.
ClaimMissed(c) ==
    /\ at[c] = "selected"
    /\ row[held[c]].status \notin Waiting
    /\ at' = [at EXCEPT ![c] = "idle"]
    /\ held' = [held EXCEPT ![c] = NoTask]
    /\ UNCHANGED <<row, due, site, result, pending, busy, ran, lost, crashes>>

\* Mutant: attempts > max_attempts in fail_task.
FailRowOneMore(t) ==
    IF row[t].attempts > MaxAttempts
    THEN row' = [row EXCEPT ![t].status = "dead"] /\ UNCHANGED due
    ELSE /\ row' = [row EXCEPT ![t].status = "retrying"]
         /\ due' = [due EXCEPT ![t] = FALSE]

\* fail_task: dead once the attempts are used up, else retrying after a backoff.
FailRow(t) ==
    IF row[t].attempts >= MaxAttempts
    THEN row' = [row EXCEPT ![t].status = "dead"] /\ UNCHANGED due
    ELSE /\ row' = [row EXCEPT ![t].status = "retrying"]
         /\ due' = [due EXCEPT ![t] = FALSE]

\* process_one is over: the consumer forgets the task and its future.
Leave(c) ==
    /\ at' = [at EXCEPT ![c] = "idle"]
    /\ held' = [held EXCEPT ![c] = NoTask]
    /\ result' = [result EXCEPT ![c] = "none"]
    /\ UNCHANGED site

\* Mutant: process_one returns without fail_task when there is no handler.
NoHandlerIgnored(c) ==
    /\ at[c] = "claimed"
    /\ row[held[c]].type \notin Handled(site[c])
    /\ Leave(c)
    /\ UNCHANGED <<row, due, pending, busy, ran, lost, crashes>>

\* No handler for this task_type in the caller's map: fail_task.
NoHandler(c) ==
    /\ at[c] = "claimed"
    /\ row[held[c]].type \notin Handled(site[c])
    /\ FailRow(held[c])
    /\ Leave(c)
    /\ UNCHANGED <<pending, busy, ran, lost, crashes>>

\* _EXECUTOR.submit: the future goes to the back of the process's pool queue.
SubmitJob(c) ==
    /\ at[c] = "claimed"
    /\ row[held[c]].type \in Handled(site[c])
    /\ pending' = [pending EXCEPT ![c] = Append(@, CurrentJob(c))]
    /\ at' = [at EXCEPT ![c] = "awaiting"]
    /\ UNCHANGED <<row, due, site, held, result, busy, ran, lost, crashes>>

\* A free pool thread takes the oldest future, abandoned or not.
StartJob(c) ==
    /\ pending[c] # << >>
    /\ Cardinality(busy[c]) < PoolSize
    /\ busy' = [busy EXCEPT ![c] = @ \cup {Head(pending[c])}]
    /\ pending' = [pending EXCEPT ![c] = Tail(@)]
    /\ ran' = IF Head(pending[c]).real THEN ran \cup {Head(pending[c])} ELSE ran
    /\ UNCHANGED <<row, due, at, site, held, result, lost, crashes>>

\* A handler returns or raises.  Only the future process_one is still
\* waiting for carries the result; an abandoned one is dropped.
FinishJob(c, j, r) ==
    /\ j \in busy[c]
    /\ busy' = [busy EXCEPT ![c] = @ \ {j}]
    /\ result' = IF at[c] = "awaiting" /\ j = CurrentJob(c)
                 THEN [result EXCEPT ![c] = r] ELSE result
    /\ UNCHANGED <<row, due, at, site, held, pending, ran, lost, crashes>>

\* future.result() returned: complete_task, an unconditional UPDATE.
Complete(c) ==
    /\ at[c] = "awaiting"
    /\ result[c] = "ok"
    /\ row' = [row EXCEPT ![held[c]].status = "completed"]
    /\ Leave(c)
    /\ UNCHANGED <<due, pending, busy, ran, lost, crashes>>

\* future.result() raised the handler's exception: fail_task.
Fail(c) ==
    /\ at[c] = "awaiting"
    /\ result[c] = "raised"
    /\ FailRow(held[c])
    /\ Leave(c)
    /\ UNCHANGED <<pending, busy, ran, lost, crashes>>

\* Mutants: a timeout that is logged and forgotten, and one that is taken for
\* a result.
TimeOutForgotten(c) ==
    /\ at[c] = "awaiting"
    /\ result[c] = "none"
    /\ Leave(c)
    /\ UNCHANGED <<row, due, pending, busy, ran, lost, crashes>>

TimeOutCompletes(c) ==
    /\ at[c] = "awaiting"
    /\ result[c] = "none"
    /\ row' = [row EXCEPT ![held[c]].status = "completed"]
    /\ Leave(c)
    /\ UNCHANGED <<due, pending, busy, ran, lost, crashes>>

\* future.result() timed out: fail_task.  The future is neither cancelled
\* nor killed: a queued one still starts later, a running one runs on.
TimeOut(c) ==
    /\ at[c] = "awaiting"
    /\ result[c] = "none"
    /\ FailRow(held[c])
    /\ Leave(c)
    /\ UNCHANGED <<pending, busy, ran, lost, crashes>>

\* The backoff of fail_task has passed.
BackoffElapses(t) ==
    /\ row[t].status = "retrying"
    /\ ~due[t]
    /\ due' = [due EXCEPT ![t] = TRUE]
    /\ UNCHANGED <<row, at, site, held, result, pending, busy, ran, lost, crashes>>

\* The process of a consumer dies and is started again: threads and futures
\* are gone, the row it was working on still says running.
Crash(c) ==
    /\ crashes < MaxCrashes
    /\ crashes' = crashes + 1
    /\ lost' = IF Claimed(c) THEN lost \cup {held[c]} ELSE lost
    /\ Leave(c)
    /\ pending' = [pending EXCEPT ![c] = << >>]
    /\ busy' = [busy EXCEPT ![c] = {}]
    /\ UNCHANGED <<row, due, ran>>

Step(c) == ClaimUpdate(c) \/ ClaimMissed(c) \/ NoHandler(c) \/ SubmitJob(c)
              \/ Complete(c) \/ Fail(c) \/ TimeOut(c)

Next ==
    \/ \E t \in Tasks, ty \in Types, p \in Priorities : Enqueue(t, ty, p)
    \/ \E t \in Tasks : BackoffElapses(t)
    \/ \E c \in Consumers :
          \/ \E s \in Sites : SelectCandidate(c, s)
          \/ Step(c)
          \/ StartJob(c)
          \/ \E j \in busy[c], r \in {"ok", "raised"} : FinishJob(c, j, r)
          \/ Crash(c)

Spec == Init /\ [][Next]_vars

\* A loop polls the dev_agent cycle again and again, leaves every wait of
\* process_one (future.result has a timeout), and clocks run.  Handlers may
\* hang for ever and nothing obliges a process to crash or a caller to enqueue.
Fairness ==
    /\ \A c \in Consumers : /\ WF_vars(SelectCandidate(c, "dev_agent_cycle"))
                            /\ WF_vars(Step(c))
    /\ \A t \in Tasks : WF_vars(BackoffElapses(t))

FairSpec == Spec /\ Fairness

-----------------------------------------------------------------------------
(* Properties                                                              *)

\* Two consumers never work on one row, and the row a consumer works on says
\* running: this is what makes the unguarded UPDATEs of complete_task and
\* fail_task safe (test_crash_recovery_and_stress.py only races the claim).
ExclusiveClaim ==
    \A c \in Consumers : Claimed(c) =>
        /\ held[c] \in Tasks
        /\ row[held[c]].status = "running"
        /\ \A d \in Consumers : Claimed(d) /\ held[d] = held[c] => d = c

\* A row says running only while a live consumer works on it or because the
\* consumer died: timeouts, late results and lost races never strand a row.
OnlyCrashesStrand ==
    \A t \in Tasks : row[t].status = "running" =>
        t \in lost \/ \E c \in Consumers : Claimed(c) /\ held[c] = t

\* A row is buried only after MaxAttempts claims, and every retrying row has
\* an attempt left: the claim's increment and fail_task's comparison agree.
DeadIsExhausted ==
    \A t \in Tasks : /\ row[t].status = "dead" => row[t].attempts = MaxAttempts
                     /\ row[t].status \in Waiting => row[t].attempts < MaxAttempts

\* A completed row of type ty had its real handler started in its last attempt.
CompletedRan(ty) ==
    \A t \in Tasks : row[t].status = "completed" /\ row[t].type = ty =>
        \E j \in ran : j.task = t /\ j.attempt = row[t].attempts

\* What completed means for a type with a registered handler: the handler ran.
RegisteredWorkRan == \A ty \in Registered \ {DevTrigger} : CompletedRan(ty)

\* completed and dead are terminal: no late timeout, result or claim revives
\* or changes such a row.
SettledIsFinal ==
    [][\A t \in Tasks : row[t].status \in Settled => row'[t] = row[t]]_vars

\* Every enqueued task is completed or dead in the end unless the process
\* that claimed it died, whatever its handler does (hang included).
EventuallySettled ==
    \A t \in Tasks : row[t].status = "queued" ~> row[t].status \in Settled \/ t \in lost

-----------------------------------------------------------------------------
(* Refinement: the queue implements TaskLifecycle, the holder of a task     *)
(* being the consumer that claimed it.                                      *)

WorkingOn(t) == {c \in Consumers : Claimed(c) /\ held[c] = t}

OneOf(S) == IF S = {} THEN NoTask ELSE CHOOSE c \in S : TRUE

HolderOf(t) == OneOf(WorkingOn(t))

Lifecycle == INSTANCE TaskLifecycle WITH
    Holders  <- Consumers,
    NoHolder <- NoTask,
    status   <- [t \in Tasks |-> row[t].status],
    attempts <- [t \in Tasks |-> row[t].attempts],
    holder   <- [t \in Tasks |-> HolderOf(t)]

ImplementsLifecycle == Lifecycle!Spec
=============================================================================
