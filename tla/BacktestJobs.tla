---------------------------- MODULE BacktestJobs ----------------------------
(***************************************************************************)
(* The one backtest job of the dashboard: state["backtest_job"] of         *)
(* src/app.py, the page that starts a job, the thread that runs it and the *)
(* profile that is loaded into its form.  Requests and jobs are threads    *)
(* (async_mode "threading"): the page looks at the job and then updates    *)
(* it, and a job's thread looks at its token, builds the result and then   *)
(* stores it.                                                              *)
(***************************************************************************)
EXTENDS Naturals, FiniteSets

CONSTANTS Forms,   \* symbol and engine of a run
          Early,   \* those whose engine's branch clears "running" itself: every one but sr and old
          MaxJobs, \* threads in all
          NoForm

VARIABLES job,    \* the dict: running, stuck (running for over 300 s), token, form, result, error
          thread, \* the job threads, in the order of their start
          asked,  \* forms of the requests that have passed the page's check and not started yet
          twin,   \* two of them overlapped
          raced   \* two threads got one token, or a thread was overtaken after its look at the token

jobs == <<job, thread, asked, twin, raced>>

Ids    == 1..MaxJobs
Unborn == [at |-> "unborn", token |-> 0, form |-> NoForm]
Alive  == {"running", "current", "stored", "closing"}

TypeOK ==
    /\ job \in [running : BOOLEAN, stuck : BOOLEAN, token : 0..MaxJobs, form : Forms \cup {NoForm},
                result : Forms \cup {NoForm}, error : BOOLEAN]
    /\ thread \in [Ids -> [at : Alive \cup {"unborn", "ended"}, token : 0..MaxJobs, form : Forms \cup {NoForm}]]
    /\ asked \in [Forms -> 0..2] /\ twin \in BOOLEAN /\ raced \in BOOLEAN

Init ==
    /\ job = [running |-> FALSE, stuck |-> FALSE, token |-> 0, form |-> NoForm, result |-> NoForm, error |-> FALSE]
    /\ thread = [i \in Ids |-> Unborn]
    /\ asked = [f \in Forms |-> 0] /\ twin = FALSE /\ raced = FALSE

-----------------------------------------------------------------------------
\* backtest_page: a submission is ignored while a job runs, unless the job is stuck.
Waiting == {f \in Forms : asked[f] > 0}

Ask(f) ==
    /\ ~job.running \/ job.stuck
    /\ asked[f] < 2 /\ Cardinality(Waiting) < 2
    /\ asked' = [asked EXCEPT ![f] = @ + 1]
    /\ twin' = (twin \/ Waiting # {})
    /\ UNCHANGED <<job, thread, raced>>

Newest(i) == thread[i].at = "unborn" /\ \A k \in 1..(i - 1) : thread[k].at # "unborn"

\* job.update and the thread's start: the token is the next after the one of this moment.
Start(f, i) ==
    /\ asked[f] > 0 /\ Newest(i)
    /\ job' = [running |-> TRUE, stuck |-> FALSE, token |-> job.token + 1, form |-> f,
               result |-> NoForm, error |-> FALSE]
    /\ thread' = [thread EXCEPT ![i] = [at |-> "running", token |-> job.token + 1, form |-> f]]
    /\ asked' = [asked EXCEPT ![f] = @ - 1]
    /\ raced' = (raced \/ \E k \in Ids : thread[k].at \in {"current", "stored"})
    /\ UNCHANGED twin

\* Two requests that read the same token give it to both of their threads.
StartTwin(f, i) ==
    /\ asked[f] > 0 /\ twin /\ job.running /\ Newest(i)
    /\ job' = [job EXCEPT !.stuck = FALSE, !.form = f, !.result = NoForm, !.error = FALSE]
    /\ thread' = [thread EXCEPT ![i] = [at |-> "running", token |-> job.token, form |-> f]]
    /\ asked' = [asked EXCEPT ![f] = @ - 1]
    /\ raced' = TRUE /\ UNCHANGED twin

-----------------------------------------------------------------------------
Current(i) == job.token = thread[i].token
GoesTo(i, at) == thread' = [thread EXCEPT ![i].at = at]

\* The simulation ends: a stale thread returns, a failing one leaves its error.
Simulated(i) ==
    /\ thread[i].at = "running"
    /\ \/ Current(i) /\ GoesTo(i, "current") /\ UNCHANGED job
       \/ ~Current(i) /\ GoesTo(i, "closing") /\ UNCHANGED job
       \/ job' = [job EXCEPT !.error = @ \/ Current(i)] /\ GoesTo(i, "closing")
    /\ UNCHANGED <<asked, twin, raced>>

\* The result is built after the look at the token, and stored, or the engine's own error is,
\* whatever has become of the job meanwhile.
Store(i) ==
    /\ thread[i].at = "current"
    /\ \/ job' = [job EXCEPT !.result = thread[i].form]
       \/ thread[i].form \in Early /\ job' = [job EXCEPT !.error = TRUE]
    /\ GoesTo(i, IF thread[i].form \in Early THEN "stored" ELSE "closing")
    /\ UNCHANGED <<asked, twin, raced>>

\* The branches that return by themselves clear the flag without another look.
EndEarly(i) ==
    /\ thread[i].at = "stored"
    /\ job' = [job EXCEPT !.running = FALSE, !.stuck = FALSE]
    /\ GoesTo(i, "closing")
    /\ UNCHANGED <<asked, twin, raced>>

\* Mutants of the finally block: the token is not looked at; only a result ends the job.
StillMineAnyway(i) == TRUE
StillMine(i) == Current(i)

Close(i) ==
    /\ thread[i].at = "closing"
    /\ job' = IF StillMine(i) THEN [job EXCEPT !.running = FALSE, !.stuck = FALSE] ELSE job
    /\ GoesTo(i, "ended")
    /\ UNCHANGED <<asked, twin, raced>>

-----------------------------------------------------------------------------
GetsStuck ==
    /\ job.running /\ ~job.stuck /\ job' = [job EXCEPT !.stuck = TRUE]
    /\ UNCHANGED <<thread, asked, twin, raced>>

\* backtest_profile_load puts a profile into the job's form, running or not.
Load(f) ==
    /\ job.form # f /\ job' = [job EXCEPT !.form = f]
    /\ UNCHANGED <<thread, asked, twin, raced>>

Work(i) == Simulated(i) \/ Store(i) \/ EndEarly(i) \/ Close(i)

Next ==
    \/ \E f \in Forms : Ask(f) \/ Load(f) \/ (\E i \in Ids : Start(f, i) \/ StartTwin(f, i))
    \/ \E i \in Ids : Work(i)
    \/ GetsStuck

-----------------------------------------------------------------------------
\* While the thread that holds the job's token works, the page shows the job as running, so that
\* no other job is started beside it: no thread that was overtaken during its simulation clears
\* the flag when it ends.  (One overtaken after its look at the token may.)
LiveJobIsShown ==
    ~raced => \A i \in Ids : (thread[i].at \in {"running", "current"} /\ Current(i)) => job.running

\* A job ends for the page, whatever threads were overtaken, failed or stuck.
JobEnds == job.running ~> ~job.running
=============================================================================
