------------------------------ MODULE Workflow ------------------------------
(***************************************************************************)
(* The restartable workflows of agents/runtime: workflow_engine.py, the    *)
(* runtime_workflow and runtime_workflow_history tables of                 *)
(* runtime_store.py, and the policy of policy_engine.py that gates them.   *)
(*                                                                         *)
(* A runner is a scheduler loop, whose tick() calls advance() on every     *)
(* running workflow; an operator is an approve_cli or dashboard process.   *)
(* Each update_workflow is a SELECT of the row and a later UPDATE that     *)
(* writes back what the SELECT saw in every column it was not given, so    *)
(* the two are steps of their own and any other thread may run between.    *)
(* Reading the policy and appending to the history commute with the other  *)
(* threads' steps up to the next row access, and share a step with the     *)
(* decision they follow.  state_json is abstracted: it travels with the    *)
(* stage.  The "paused" history line of an emergency stop is left out.     *)
(***************************************************************************)
EXTENDS Naturals, Sequences

CONSTANTS Workflows,    \* runtime_workflow ids
          Runners,      \* scheduler loops
          Operators,    \* processes that approve and reject
          NoWorkflow,   \* a thread works on no workflow
          Policies,     \* the policies an operator switches between
          MaxCalls,     \* bound on approve and reject calls
          MaxCrashes    \* bound on processes dying, or exceptions escaping

ASSUME WorkflowAssumption ==
    /\ MaxCalls \in Nat
    /\ MaxCrashes \in Nat
    /\ NoWorkflow \notin Workflows
    /\ Runners \cap Operators = {}
    /\ Policies \subseteq {"read_only", "recommendation_only", "simulation",
                           "paper_trading", "semi_auto", "full_auto", "emergency_stop"}

VARIABLES
    row,      \* row[w]: current_stage and status of runtime_workflow
    log,      \* log[w]: the statuses in runtime_workflow_history that matter here
    policy,   \* the active policy
    at,       \* at[p]: where a thread is in advance, approve or reject
    target,   \* target[p]: the workflow it works on
    loaded,   \* loaded[p]: the stage advance() read
    todo,     \* todo[p]: the update_workflow calls it has left
    seen,     \* seen[p]: the row its update's SELECT returned
    caught,   \* caught[p]: advance() is in its except block
    grants,   \* history: number of approvals, human or automatic, per workflow
    lessons,  \* history: number of records learned into the memory store
    calls, crashes

vars == <<row, log, policy, at, target, loaded, todo, seen, caught, grants, lessons, calls, crashes>>

Threads  == Runners \cup Operators
Stages   == {"market_data", "research", "human_approval", "execution", "learning", "memory_update"}
Terminal == {"completed", "failed", "cancelled"}
Statuses == {"absent", "running", "waiting_approval"} \cup Terminal
Events   == {"data", "researched", "stopped", "approved", "auto_approved", "rejected",
             "executed", "learned"}
Granting == {"approved", "auto_approved"}

Row     == [stage : Stages, status : Statuses]
Updates == [stage : Stages \cup {"keep"}, status : Statuses \cup {"keep"}]

TypeOK ==
    /\ row \in [Workflows -> Row]
    /\ log \in [Workflows -> SUBSET Events]
    /\ policy \in Policies
    /\ at \in [Threads -> {"idle", "stage", "auto", "read", "write", "emit"}]
    /\ target \in [Threads -> Workflows \cup {NoWorkflow}]
    /\ loaded \in [Threads -> Stages]
    /\ todo \in [Threads -> Seq(Updates)]
    /\ seen \in [Threads -> Row]
    /\ caught \in [Threads -> BOOLEAN]
    /\ grants \in [Workflows -> Nat]
    /\ lessons \in [Workflows -> Nat]
    /\ calls \in 0..MaxCalls
    /\ crashes \in 0..MaxCrashes

NoRow == [stage |-> "market_data", status |-> "absent"]

Init ==
    /\ row = [w \in Workflows |-> NoRow]
    /\ log = [w \in Workflows |-> {}]
    /\ policy \in Policies
    /\ at = [p \in Threads |-> "idle"]
    /\ target = [p \in Threads |-> NoWorkflow]
    /\ loaded = [p \in Threads |-> "market_data"]
    /\ todo = [p \in Threads |-> << >>]
    /\ seen = [p \in Threads |-> NoRow]
    /\ caught = [p \in Threads |-> FALSE]
    /\ grants = [w \in Workflows |-> 0]
    /\ lessons = [w \in Workflows |-> 0]
    /\ calls = 0
    /\ crashes = 0

-----------------------------------------------------------------------------
(* policy_engine._RULES                                                    *)

CanStart(p)         == p \notin {"read_only", "emergency_stop"}
ReachesExecution(p) == p \notin {"read_only", "recommendation_only", "emergency_stop"}
AutoApproves(p)     == p = "full_auto"

\* The arguments of one update_workflow call.
Set(stage, status) == [stage |-> stage, status |-> status]

\* What a stage other than human_approval may end in: the line it leaves in
\* the history and its update_workflow calls.
Outcome(event, updates) == [event |-> event, updates |-> updates]

Outcomes(s) ==
    CASE s = "market_data" ->
            {Outcome({"data"}, <<Set("research", "keep")>>),
             Outcome({}, <<Set("keep", "failed")>>)}            \* no candle archive
      [] s = "research" ->
            {Outcome({}, <<Set("keep", "keep"), Set("research", "completed")>>),  \* nothing validated
             Outcome({}, <<Set("keep", "keep"), Set("keep", "failed")>>),         \* REJECTED
             Outcome({"researched"}, <<Set("human_approval", "keep")>>)}
      [] s = "execution" -> {Outcome({"executed"}, <<Set("learning", "keep")>>)}
      [] s = "learning" -> {Outcome({"learned"}, <<Set("memory_update", "keep")>>)}
      [] OTHER -> {Outcome({}, <<Set("memory_update", "completed")>>)}

\* The updates that an event-bus write follows, which may raise.
Emits(u) == u.stage = "human_approval" \/ u.status \in {"completed", "waiting_approval", "failed"}

\* Mutant: update_workflow without the defaults from its SELECT.
Overwritten(u, r) == u

\* update_workflow writes back what its SELECT saw where it was given nothing.
Merged(u, r) == [stage  |-> IF u.stage = "keep" THEN r.stage ELSE u.stage,
                 status |-> IF u.status = "keep" THEN r.status ELSE u.status]

\* Thread p appends events to w's history and starts on its updates.
Decide(p, w, events, updates) ==
    /\ log' = [log EXCEPT ![w] = @ \cup events]
    /\ todo' = [todo EXCEPT ![p] = updates]
    /\ at' = [at EXCEPT ![p] = "read"]

-----------------------------------------------------------------------------
\* start(): refused by some policies, else the row and its first history line.
Start(w) ==
    /\ row[w].status = "absent"
    /\ CanStart(policy)
    /\ row' = [row EXCEPT ![w] = Set("market_data", "running")]
    /\ UNCHANGED <<log, policy, at, target, loaded, todo, seen, caught, grants, lessons, calls, crashes>>

\* set_policy(): an operator switches the policy, the kill switch included.
SetPolicy(p) ==
    /\ p # policy
    /\ policy' = p
    /\ UNCHANGED <<row, log, at, target, loaded, todo, seen, caught, grants, lessons, calls, crashes>>

\* Mutant: advance() without the check that the row is running.
AdvanceAny(r, w) ==
    /\ at[r] = "idle"
    /\ policy # "emergency_stop"
    /\ row[w].status # "absent"
    /\ at' = [at EXCEPT ![r] = "stage"]
    /\ target' = [target EXCEPT ![r] = w]
    /\ loaded' = [loaded EXCEPT ![r] = row[w].stage]
    /\ caught' = [caught EXCEPT ![r] = FALSE]
    /\ UNCHANGED <<row, log, policy, todo, seen, grants, lessons, calls, crashes>>

\* advance(): the emergency check, then the row is loaded.  One that is not
\* running is left alone.
Advance(r, w) ==
    /\ at[r] = "idle"
    /\ policy # "emergency_stop"
    /\ row[w].status = "running"
    /\ at' = [at EXCEPT ![r] = "stage"]
    /\ target' = [target EXCEPT ![r] = w]
    /\ loaded' = [loaded EXCEPT ![r] = row[w].stage]
    /\ caught' = [caught EXCEPT ![r] = FALSE]
    /\ UNCHANGED <<row, log, policy, todo, seen, grants, lessons, calls, crashes>>

\* The stages that do their work and do not look at the policy.
RunStage(r) ==
    /\ at[r] = "stage"
    /\ loaded[r] # "human_approval"
    /\ \E o \in Outcomes(loaded[r]) : Decide(r, target[r], o.event, o.updates)
    /\ lessons' = IF loaded[r] = "learning" THEN [lessons EXCEPT ![target[r]] = @ + 1] ELSE lessons
    /\ UNCHANGED <<row, policy, target, loaded, seen, caught, grants, calls, crashes>>

\* _advance_human_approval: can_reach_execution() says no, the workflow ends here.
ObserveOnly(r) ==
    /\ at[r] = "stage"
    /\ loaded[r] = "human_approval"
    /\ ~ReachesExecution(policy)
    /\ Decide(r, target[r], {"stopped"}, <<Set("human_approval", "completed")>>)
    /\ UNCHANGED <<row, policy, target, loaded, seen, caught, grants, lessons, calls, crashes>>

\* can_reach_execution() says yes; auto_approves() reads the policy again.
MayExecute(r) ==
    /\ at[r] = "stage"
    /\ loaded[r] = "human_approval"
    /\ ReachesExecution(policy)
    /\ at' = [at EXCEPT ![r] = "auto"]
    /\ UNCHANGED <<row, log, policy, target, loaded, todo, seen, caught, grants, lessons, calls, crashes>>

\* auto_approves() says yes: the workflow goes on without a human.
AutoApprove(r) ==
    /\ at[r] = "auto"
    /\ AutoApproves(policy)
    /\ Decide(r, target[r], {"auto_approved"}, <<Set("execution", "keep")>>)
    /\ grants' = [grants EXCEPT ![target[r]] = @ + 1]
    /\ UNCHANGED <<row, policy, target, loaded, seen, caught, lessons, calls, crashes>>

\* Mutant: the approval checkpoint leaves the workflow running.
AskHumanQuietly(r) ==
    /\ at[r] = "auto"
    /\ ~AutoApproves(policy)
    /\ Decide(r, target[r], {}, <<Set("keep", "keep")>>)
    /\ UNCHANGED <<row, policy, target, loaded, seen, caught, grants, lessons, calls, crashes>>

\* auto_approves() says no: the workflow waits for a human.
AskHuman(r) ==
    /\ at[r] = "auto"
    /\ ~AutoApproves(policy)
    /\ Decide(r, target[r], {}, <<Set("keep", "waiting_approval")>>)
    /\ UNCHANGED <<row, policy, target, loaded, seen, caught, grants, lessons, calls, crashes>>

\* Mutant: approve_workflow() of any existing row.
ApproveAny(o, w) ==
    /\ at[o] = "idle"
    /\ calls < MaxCalls
    /\ row[w].status # "absent"
    /\ target' = [target EXCEPT ![o] = w]
    /\ Decide(o, w, {"approved"}, <<Set("execution", "running")>>)
    /\ grants' = [grants EXCEPT ![w] = @ + 1]
    /\ calls' = calls + 1
    /\ UNCHANGED <<row, policy, loaded, seen, caught, lessons, crashes>>

\* approve_workflow(): only the row it loads first has to be waiting.
Approve(o, w) ==
    /\ at[o] = "idle"
    /\ calls < MaxCalls
    /\ row[w].status = "waiting_approval"
    /\ target' = [target EXCEPT ![o] = w]
    /\ Decide(o, w, {"approved"}, <<Set("execution", "running")>>)
    /\ grants' = [grants EXCEPT ![w] = @ + 1]
    /\ calls' = calls + 1
    /\ UNCHANGED <<row, policy, loaded, seen, caught, lessons, crashes>>

\* reject_workflow(): any existing row is cancelled.
Reject(o, w) ==
    /\ at[o] = "idle"
    /\ calls < MaxCalls
    /\ row[w].status # "absent"
    /\ target' = [target EXCEPT ![o] = w]
    /\ Decide(o, w, {"rejected"}, <<Set("keep", "cancelled")>>)
    /\ calls' = calls + 1
    /\ UNCHANGED <<row, policy, loaded, seen, caught, grants, lessons, crashes>>

\* update_workflow, the SELECT.
ReadRow(p) ==
    /\ at[p] = "read"
    /\ seen' = [seen EXCEPT ![p] = row[target[p]]]
    /\ at' = [at EXCEPT ![p] = "write"]
    /\ UNCHANGED <<row, log, policy, target, loaded, todo, caught, grants, lessons, calls, crashes>>

\* update_workflow, the UPDATE.  Inside advance()'s try the emit that
\* follows some updates can still raise.
WriteRow(p) ==
    /\ at[p] = "write"
    /\ row' = [row EXCEPT ![target[p]] = Merged(Head(todo[p]), seen[p])]
    /\ todo' = [todo EXCEPT ![p] = Tail(todo[p])]
    /\ seen' = [seen EXCEPT ![p] = NoRow]
    /\ at' = [at EXCEPT ![p] =
                IF Tail(todo[p]) # << >> THEN "read"
                ELSE IF p \in Runners /\ Emits(Head(todo[p])) /\ ~caught[p] THEN "emit"
                ELSE "idle"]
    /\ UNCHANGED <<log, policy, target, loaded, caught, grants, lessons, calls, crashes>>

\* The event is on the bus and advance() returns.
Emitted(r) ==
    /\ at[r] = "emit"
    /\ at' = [at EXCEPT ![r] = "idle"]
    /\ UNCHANGED <<row, log, policy, target, loaded, todo, seen, caught, grants, lessons, calls, crashes>>

\* An exception anywhere in the stage: advance() catches it and calls _fail.
Raise(r) ==
    /\ at[r] # "idle"
    /\ ~caught[r]
    /\ caught' = [caught EXCEPT ![r] = TRUE]
    /\ todo' = [todo EXCEPT ![r] = <<Set("keep", "failed")>>]
    /\ at' = [at EXCEPT ![r] = "read"]
    /\ UNCHANGED <<row, log, policy, target, loaded, seen, grants, lessons, calls, crashes>>

\* The process dies, or an exception leaves the except block or an
\* operator's call: the rest of the call is lost, the tables are not.
Crash(p) ==
    /\ crashes < MaxCrashes
    /\ at[p] # "idle"
    /\ crashes' = crashes + 1
    /\ at' = [at EXCEPT ![p] = "idle"]
    /\ todo' = [todo EXCEPT ![p] = << >>]
    /\ UNCHANGED <<row, log, policy, target, loaded, seen, caught, grants, lessons, calls>>

Work(r) == RunStage(r) \/ ObserveOnly(r) \/ MayExecute(r) \/ AutoApprove(r) \/ AskHuman(r)
              \/ Emitted(r) \/ ReadRow(r) \/ WriteRow(r)

Next ==
    \/ \E w \in Workflows : Start(w)
    \/ \E p \in Policies : SetPolicy(p)
    \/ \E r \in Runners : \/ \E w \in Workflows : Advance(r, w)
                          \/ Work(r)
                          \/ Raise(r)
    \/ \E o \in Operators : \/ \E w \in Workflows : Approve(o, w) \/ Reject(o, w)
                            \/ ReadRow(o) \/ WriteRow(o)
    \/ \E p \in Threads : Crash(p)

Spec == Init /\ [][Next]_vars

\* A loop ticks for ever and every tick visits all running workflows (up to
\* list_workflows' limit of 100), so a workflow that is runnable again and
\* again is advanced; a started stage is not abandoned.
Fairness == \A r \in Runners : /\ WF_vars(Work(r))
                               /\ \A w \in Workflows : SF_vars(Advance(r, w))

FairSpec == Spec /\ Fairness

-----------------------------------------------------------------------------
(* Properties                                                              *)

\* The history a stage has to show for itself: one event of each set.
Needs(s) ==
    CASE s = "market_data"    -> {}
      [] s = "research"       -> {{"data"}}
      [] s = "human_approval" -> {{"data"}, {"researched"}}
      [] s = "execution"      -> {{"data"}, {"researched"}, Granting}
      [] s = "learning"       -> {{"data"}, {"researched"}, Granting, {"executed"}}
      [] OTHER                -> {{"data"}, {"researched"}, Granting, {"executed"}, {"learned"}}

Earned(w, s) == \A E \in Needs(s) : E \cap log[w] # {}

\* No stage is ever skipped: whatever two writers, a crash or a resumed
\* workflow make of the row, its stage is backed by a recorded result of
\* every stage before it and, from execution on, by an approval.
StageWasEarned == \A w \in Workflows : Earned(w, row[w].stage)

\* One approval, or one crash of the loop, is worth at most one record in the
\* memory store: racing approvals and rejections do not make one loop learn a
\* run twice.  Stated for a single scheduler loop.
LessonsPerGrant == \A w \in Workflows : lessons[w] <= grants[w] + crashes

\* "emergency_stop pauses, never cancels": the kill switch is never the
\* reason for which a workflow is ended.
EmergencyStopPauses ==
    [][\A w \in Workflows : "stopped" \in log'[w] \ log[w] => policy # "emergency_stop"]_vars

\* Restartable: as long as the kill switch is not left on, a running workflow
\* ends or waits for a human, whatever crashes and stages do.
EventuallyParked ==
    \A w \in Workflows :
        <>[](policy # "emergency_stop") => (row[w].status = "running" ~> row[w].status # "running")
=============================================================================
