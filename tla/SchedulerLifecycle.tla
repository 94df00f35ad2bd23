------------------------- MODULE SchedulerLifecycle -------------------------
(***************************************************************************)
(* Which scheduler loops run: agents/runtime/lifecycle.py (the flock       *)
(* singleton lock, start_scheduler_background, stop_scheduler_background,  *)
(* the signal and exit hooks) and the control flow of RuntimeScheduler     *)
(* start, stop and run_forever in scheduler.py.                            *)
(*                                                                         *)
(* An app is a process of app.py; a script is a process started as         *)
(* python -m agents.runtime.scheduler, which never looks at the lock.      *)
(* An instance is one RuntimeScheduler object and the thread that runs its *)
(* loop.  The body of tick() is TaskQueue's and Workflow's subject.        *)
(***************************************************************************)
EXTENDS Naturals, TLAPS

CONSTANTS Apps,       \* processes running app.py
          Scripts,    \* processes running scheduler.py as __main__
          Instances,  \* RuntimeScheduler objects that may be created
          NoOne       \* no process, no instance

Procs == Apps \cup Scripts

ASSUME LifecycleAssumption == /\ NoOne \notin Procs \cup Instances
                              /\ Apps \cap Scripts = {}

VARIABLES
    process,  \* process[p]: up, exiting (interpreter shutdown) or down
    lock,     \* the process holding the flock, or NoOne
    sched,    \* sched[p]: the module's _scheduler
    handler,  \* handler[p]: the instance whose _handle gets SIGINT and SIGTERM
    home,     \* home[i]: the process an instance lives in
    loop,     \* loop[i]: where run_forever is
    running,  \* running[i]: the instance's _running flag
    told,     \* history: instances whose stop() was called
    early     \* history: instances told to stop before run_forever began

vars == <<process, lock, sched, handler, home, loop, running, told, early>>

Alive(p) == process[p] # "down"

\* A loop that exists.
Live(i) == loop[i] \in {"spawned", "resuming", "idle", "ticking"}

TypeOK ==
    /\ process \in [Procs -> {"up", "exiting", "down"}]
    /\ lock \in Apps \cup {NoOne}
    /\ sched \in [Procs -> Instances \cup {NoOne}]
    /\ handler \in [Procs -> Instances \cup {NoOne}]
    /\ home \in [Instances -> Procs \cup {NoOne}]
    /\ loop \in [Instances -> {"unborn", "spawned", "resuming", "idle", "ticking", "ended"}]
    /\ running \in [Instances -> BOOLEAN]
    /\ told \subseteq Instances
    /\ early \subseteq Instances

Init ==
    /\ process = [p \in Procs |-> "up"]
    /\ lock = NoOne
    /\ sched = [p \in Procs |-> NoOne]
    /\ handler = [p \in Procs |-> NoOne]
    /\ home = [i \in Instances |-> NoOne]
    /\ loop = [i \in Instances |-> "unborn"]
    /\ running = [i \in Instances |-> FALSE]
    /\ told = {}
    /\ early = {}

-----------------------------------------------------------------------------
\* A new RuntimeScheduler of p, its signal handlers and the thread of its loop.
Create(p, i) ==
    /\ loop[i] = "unborn"
    /\ loop' = [loop EXCEPT ![i] = "spawned"]
    /\ home' = [home EXCEPT ![i] = p]
    /\ handler' = [handler EXCEPT ![p] = i]
    /\ UNCHANGED <<process, running, told, early>>

\* Mutant: start_scheduler_background does not look at the answer of flock.
StartUnlocked(p, i) ==
    /\ process[p] = "up"
    /\ sched[p] = NoOne
    /\ lock' = p
    /\ sched' = [sched EXCEPT ![p] = i]
    /\ Create(p, i)

\* start_scheduler_background: only without a _scheduler and with the lock
\* free; a process that finds it taken returns False and does not retry.
StartBackground(p, i) ==
    /\ process[p] = "up"
    /\ sched[p] = NoOne
    /\ lock = NoOne
    /\ lock' = p
    /\ sched' = [sched EXCEPT ![p] = i]
    /\ Create(p, i)

\* Mutant: the script writes itself into the lock without asking for it.
RunScriptLocks(p, i) ==
    /\ process[p] = "up"
    /\ handler[p] = NoOne
    /\ Create(p, i)
    /\ lock' = p
    /\ UNCHANGED sched

\* scheduler.py as __main__.
RunScript(p, i) ==
    /\ process[p] = "up"
    /\ handler[p] = NoOne
    /\ Create(p, i)
    /\ UNCHANGED <<lock, sched>>

\* RuntimeScheduler.stop().
Stop(i) ==
    /\ running' = [running EXCEPT ![i] = FALSE]
    /\ told' = told \cup {i}
    /\ early' = IF loop[i] = "spawned" THEN early \cup {i} ELSE early

\* Mutant: stop_scheduler_background forgets to clear _scheduler.
StopKeepsScheduler(p) ==
    /\ sched[p] # NoOne
    /\ Stop(sched[p])
    /\ lock' = NoOne
    /\ UNCHANGED <<sched, handler, home, loop>>

\* stop_scheduler_background: stop(), then the lock is released at once.  The
\* loop is neither joined nor looked at.
StopBackground(p) ==
    /\ sched[p] # NoOne
    /\ Stop(sched[p])
    /\ sched' = [sched EXCEPT ![p] = NoOne]
    /\ lock' = NoOne
    /\ UNCHANGED <<handler, home, loop>>

CallStop(p) ==
    /\ process[p] = "up"
    /\ StopBackground(p)
    /\ UNCHANGED process

\* The interpreter of an app shuts down: the atexit hook, then the daemon
\* thread runs on until the process is gone.
BeginExit(p) ==
    /\ process[p] = "up"
    /\ process' = [process EXCEPT ![p] = "exiting"]
    /\ \/ StopBackground(p)
       \/ sched[p] = NoOne /\ UNCHANGED <<lock, sched, handler, home, loop, running, told, early>>

\* SIGINT or SIGTERM in a process whose handler is installed: stop() of the
\* newest instance.  The lock stays with the process, and so does _scheduler.
Signal(p) ==
    /\ Alive(p)
    /\ handler[p] # NoOne
    /\ Stop(handler[p])
    /\ UNCHANGED <<process, lock, sched, handler, home, loop>>

\* The process is gone: killed, at the end of its exit, or after its script
\* ended.  The kernel drops the flock, threads end in mid-step.
Die(p) ==
    /\ Alive(p)
    /\ process' = [process EXCEPT ![p] = "down"]
    /\ lock' = IF lock = p THEN NoOne ELSE lock
    /\ sched' = [sched EXCEPT ![p] = NoOne]
    /\ handler' = [handler EXCEPT ![p] = NoOne]
    /\ loop' = [i \in Instances |-> IF home[i] = p THEN "ended" ELSE loop[i]]
    /\ UNCHANGED <<home, running, told, early>>

\* The supervisor starts the process again.
Boot(p) ==
    /\ process[p] = "down"
    /\ process' = [process EXCEPT ![p] = "up"]
    /\ UNCHANGED <<lock, sched, handler, home, loop, running, told, early>>

-----------------------------------------------------------------------------
(* run_forever                                                             *)

Move(i, from, to) == loop[i] = from /\ loop' = [loop EXCEPT ![i] = to]

\* start() sets _running first and then resumes the running workflows.
Begin(i) ==
    /\ Move(i, "spawned", "resuming")
    /\ running' = [running EXCEPT ![i] = TRUE]
    /\ UNCHANGED <<process, lock, sched, handler, home, told, early>>

\* Mutant: start() sets _running only after the resumed workflows.
ResumedRunning(i) ==
    /\ Move(i, "resuming", "idle")
    /\ running' = [running EXCEPT ![i] = TRUE]
    /\ UNCHANGED <<process, lock, sched, handler, home, told, early>>

\* The resume sweep is over.
Resumed(i) ==
    /\ Move(i, "resuming", "idle")
    /\ UNCHANGED <<process, lock, sched, handler, home, running, told, early>>

\* while self._running: the next tick begins.
BeginTick(i) ==
    /\ running[i]
    /\ Move(i, "idle", "ticking")
    /\ UNCHANGED <<process, lock, sched, handler, home, running, told, early>>

EndTick(i) ==
    /\ Move(i, "ticking", "idle")
    /\ UNCHANGED <<process, lock, sched, handler, home, running, told, early>>

\* The loop is left: the finally block calls stop() once more.
Leave(i) ==
    /\ ~running[i]
    /\ Move(i, "idle", "ended")
    /\ Stop(i)
    /\ UNCHANGED <<process, lock, sched, handler, home>>

Next ==
    \/ \E p \in Apps : \/ \E i \in Instances : StartBackground(p, i)
                       \/ CallStop(p)
                       \/ BeginExit(p)
    \/ \E p \in Scripts, i \in Instances : RunScript(p, i)
    \/ \E p \in Procs : Signal(p) \/ Die(p) \/ Boot(p)
    \/ \E i \in Instances : Begin(i) \/ Resumed(i) \/ BeginTick(i) \/ EndTick(i) \/ Leave(i)

Spec == Init /\ [][Next]_vars

-----------------------------------------------------------------------------
(* Properties                                                              *)

\* _scheduler, the lock and the process agree: a process has a _scheduler
\* exactly while it holds the flock, whatever it was told and however it died.
SchedulerHoldsLock == \A p \in Apps : sched[p] # NoOne <=> lock = p

\* What the lock guarantees across processes: of two live loops of the app,
\* at least one has been told to stop.
AtMostOneWanted ==
    \A i, j \in Instances :
        Live(i) /\ Live(j) /\ home[i] \in Apps /\ home[j] \in Apps /\ i \notin told /\ j \notin told
        => i = j

\* "stops the loop after the CURRENT tick finishes": once a loop that had
\* begun was told to stop, it never begins another tick, however signals,
\* exits and the loop's own start interleave.
StopSticks ==
    [][\A i \in told \ early : loop[i] # "ticking" => loop'[i] # "ticking"]_vars

-----------------------------------------------------------------------------
(* Proofs, for every set of processes and scheduler objects.               *)

\* Instances and processes point at each other: what makes an instance nobody
\* stopped the one its process has registered, and thereby the lock's.
Linked ==
    /\ \A p \in Scripts : sched[p] = NoOne
    /\ \A p \in Apps : sched[p] # NoOne => home[sched[p]] = p /\ loop[sched[p]] # "unborn"
    /\ \A p \in Procs : handler[p] # NoOne => home[handler[p]] = p /\ loop[handler[p]] # "unborn"
    /\ \A i \in Instances : Live(i) => home[i] \in Procs

WantedIsRegistered ==
    \A i \in Instances : Live(i) /\ home[i] \in Apps /\ i \notin told => sched[home[i]] = i

\* A stop that did not come too early has reached the flag the loop tests.
StopReached ==
    /\ \A i \in told : loop[i] # "unborn"
    /\ \A i \in told \ early : loop[i] # "spawned" /\ ~running[i]

IInv == TypeOK /\ SchedulerHoldsLock /\ Linked /\ WantedIsRegistered /\ StopReached

LEMMA InitIInv == Init => IInv
BY LifecycleAssumption
   DEF Init, IInv, TypeOK, SchedulerHoldsLock, Linked, WantedIsRegistered, StopReached, Live, Procs

LEMMA NextIInv == IInv /\ [Next]_vars => IInv'
<1> SUFFICES ASSUME IInv, [Next]_vars PROVE IInv'
  OBVIOUS
<1> USE LifecycleAssumption
<1>p. Apps \subseteq Procs /\ Scripts \subseteq Procs
  BY DEF Procs
<1>1. ASSUME NEW p \in Apps, NEW i \in Instances, StartBackground(p, i) PROVE IInv'
  <2>1. TypeOK'
    BY <1>1, <1>p DEF StartBackground, Create, IInv, TypeOK
  <2>2. SchedulerHoldsLock'
    BY <1>1, <1>p DEF StartBackground, Create, IInv, TypeOK, SchedulerHoldsLock
  <2>3. Linked'
    BY <1>1, <1>p DEF StartBackground, Create, IInv, TypeOK, Linked, Live
  <2>4. WantedIsRegistered'
    BY <1>1, <1>p DEF StartBackground, Create, IInv, TypeOK, SchedulerHoldsLock, WantedIsRegistered, Live
  <2>5. StopReached'
    BY <1>1, <1>p DEF StartBackground, Create, IInv, TypeOK, StopReached
  <2> QED
    BY <2>1, <2>2, <2>3, <2>4, <2>5 DEF IInv
<1>2. ASSUME NEW p \in Scripts, NEW i \in Instances, RunScript(p, i) PROVE IInv'
  <2>1. TypeOK'
    BY <1>2, <1>p DEF RunScript, Create, IInv, TypeOK
  <2>2. SchedulerHoldsLock'
    BY <1>2, <1>p DEF RunScript, Create, IInv, TypeOK, SchedulerHoldsLock
  <2>3. Linked'
    BY <1>2, <1>p DEF RunScript, Create, IInv, TypeOK, Linked, Live
  <2>4. WantedIsRegistered'
    BY <1>2, <1>p DEF RunScript, Create, IInv, TypeOK, WantedIsRegistered, Live
  <2>5. StopReached'
    BY <1>2, <1>p DEF RunScript, Create, IInv, TypeOK, StopReached
  <2> QED
    BY <2>1, <2>2, <2>3, <2>4, <2>5 DEF IInv
<1>3. ASSUME NEW p \in Apps, StopBackground(p), process' \in [Procs -> {"up", "exiting", "down"}]
      PROVE IInv'
  <2>s. sched[p] \in Instances /\ Stop(sched[p])
    BY <1>3, <1>p DEF StopBackground, IInv, TypeOK
  <2>1. TypeOK'
    BY <1>3, <1>p, <2>s DEF StopBackground, Stop, IInv, TypeOK
  <2>2. SchedulerHoldsLock'
    BY <1>3, <1>p DEF StopBackground, IInv, TypeOK, SchedulerHoldsLock
  <2>3. Linked'
    BY <1>3, <1>p DEF StopBackground, IInv, TypeOK, Linked, Live
  <2>4. WantedIsRegistered'
    BY <1>3, <1>p, <2>s DEF StopBackground, Stop, IInv, TypeOK, WantedIsRegistered, Linked, Live
  <2>5. StopReached'
    BY <1>3, <1>p, <2>s DEF StopBackground, Stop, IInv, TypeOK, Linked, StopReached
  <2> QED
    BY <2>1, <2>2, <2>3, <2>4, <2>5 DEF IInv
<1>4. ASSUME NEW p \in Apps, CallStop(p) PROVE IInv'
  BY <1>3, <1>4 DEF CallStop, IInv, TypeOK
<1>5. ASSUME NEW p \in Apps, BeginExit(p) PROVE IInv'
  <2>1. process' \in [Procs -> {"up", "exiting", "down"}]
    BY <1>5, <1>p DEF BeginExit, IInv, TypeOK
  <2>2. CASE StopBackground(p)
    BY <1>3, <2>1, <2>2
  <2>3. CASE UNCHANGED <<lock, sched, handler, home, loop, running, told, early>>
    BY <2>1, <2>3 DEF IInv, TypeOK, SchedulerHoldsLock, Linked, WantedIsRegistered, StopReached, Live
  <2> QED
    BY <1>5, <2>2, <2>3 DEF BeginExit
<1>6. ASSUME NEW p \in Procs, Signal(p) PROVE IInv'
  <2>s. handler[p] \in Instances /\ Stop(handler[p])
    BY <1>6 DEF Signal, IInv, TypeOK
  <2>1. TypeOK'
    BY <1>6, <2>s DEF Signal, Stop, IInv, TypeOK
  <2>2. SchedulerHoldsLock' /\ Linked'
    BY <1>6 DEF Signal, IInv, SchedulerHoldsLock, Linked, Live
  <2>3. WantedIsRegistered'
    BY <1>6, <2>s DEF Signal, Stop, IInv, TypeOK, WantedIsRegistered, Live
  <2>4. StopReached'
    BY <1>6, <2>s DEF Signal, Stop, IInv, TypeOK, Linked, StopReached
  <2> QED
    BY <2>1, <2>2, <2>3, <2>4 DEF IInv
<1>7. ASSUME NEW p \in Procs, Die(p) PROVE IInv'
  <2>1. TypeOK'
    BY <1>7 DEF Die, IInv, TypeOK
  <2>2. SchedulerHoldsLock'
    BY <1>7, <1>p DEF Die, IInv, TypeOK, SchedulerHoldsLock
  <2>3. Linked'
    BY <1>7, <1>p DEF Die, IInv, TypeOK, Linked, Live
  <2>4. WantedIsRegistered'
    BY <1>7, <1>p DEF Die, IInv, TypeOK, WantedIsRegistered, Live
  <2>5. StopReached'
    BY <1>7 DEF Die, IInv, TypeOK, StopReached
  <2> QED
    BY <2>1, <2>2, <2>3, <2>4, <2>5 DEF IInv
<1>8. ASSUME NEW p \in Procs, Boot(p) PROVE IInv'
  BY <1>8 DEF Boot, IInv, TypeOK, SchedulerHoldsLock, Linked, WantedIsRegistered, StopReached, Live
<1>9. ASSUME NEW i \in Instances, Begin(i) PROVE IInv'
  <2>1. TypeOK'
    BY <1>9 DEF Begin, Move, IInv, TypeOK
  <2>2. SchedulerHoldsLock' /\ Linked' /\ WantedIsRegistered'
    BY <1>9, <1>p DEF Begin, Move, IInv, TypeOK, SchedulerHoldsLock, Linked, WantedIsRegistered, Live
  <2>3. StopReached'
    BY <1>9 DEF Begin, Move, IInv, TypeOK, StopReached
  <2> QED
    BY <2>1, <2>2, <2>3 DEF IInv
<1>10. ASSUME NEW i \in Instances, Resumed(i) \/ BeginTick(i) \/ EndTick(i) PROVE IInv'
  <2>1. /\ UNCHANGED <<process, lock, sched, handler, home, running, told, early>>
        /\ Live(i)
        /\ \E to \in {"idle", "ticking"} : loop' = [loop EXCEPT ![i] = to]
    BY <1>10 DEF Resumed, BeginTick, EndTick, Move, Live
  <2>2. TypeOK'
    BY <2>1 DEF IInv, TypeOK
  <2>3. SchedulerHoldsLock' /\ Linked' /\ WantedIsRegistered'
    BY <2>1, <1>p DEF IInv, TypeOK, SchedulerHoldsLock, Linked, WantedIsRegistered, Live
  <2>4. StopReached'
    BY <2>1 DEF IInv, TypeOK, StopReached
  <2> QED
    BY <2>2, <2>3, <2>4 DEF IInv
<1>11. ASSUME NEW i \in Instances, Leave(i) PROVE IInv'
  <2>1. TypeOK'
    BY <1>11 DEF Leave, Stop, Move, IInv, TypeOK
  <2>2. SchedulerHoldsLock' /\ Linked' /\ WantedIsRegistered'
    BY <1>11, <1>p DEF Leave, Stop, Move, IInv, TypeOK, SchedulerHoldsLock, Linked, WantedIsRegistered, Live
  <2>3. StopReached'
    BY <1>11 DEF Leave, Stop, Move, IInv, TypeOK, StopReached
  <2> QED
    BY <2>1, <2>2, <2>3 DEF IInv
<1>12. ASSUME UNCHANGED vars PROVE IInv'
  BY <1>12 DEF vars, IInv, TypeOK, SchedulerHoldsLock, Linked, WantedIsRegistered, StopReached, Live
<1> QED
  BY <1>1, <1>2, <1>4, <1>5, <1>6, <1>7, <1>8, <1>9, <1>10, <1>11, <1>12 DEF Next

THEOREM LifecycleInvariant == Spec => []IInv
<1> QED
  BY InitIInv, NextIInv, PTL DEF Spec

\* Every variable keeps its type.
THEOREM LifecycleTypeCorrect == Spec => []TypeOK
<1>1. IInv => TypeOK
  BY DEF IInv
<1> QED
  BY <1>1, LifecycleInvariant, PTL

\* A process has a _scheduler exactly while it holds the flock.
THEOREM RegistrationFollowsLock == Spec => []SchedulerHoldsLock
<1>1. IInv => SchedulerHoldsLock
  BY DEF IInv
<1> QED
  BY <1>1, LifecycleInvariant, PTL

\* However many workers start, are told to stop, exit and are killed, at most
\* one live loop of the app is one that nobody told to stop.
THEOREM OneWantedLoop == Spec => []AtMostOneWanted
<1>1. IInv => AtMostOneWanted
  <2> SUFFICES ASSUME IInv, NEW i \in Instances, NEW j \in Instances,
                      Live(i), Live(j), home[i] \in Apps, home[j] \in Apps,
                      i \notin told, j \notin told
               PROVE  i = j
    BY DEF AtMostOneWanted
  <2>1. sched[home[i]] = i /\ sched[home[j]] = j
    BY DEF IInv, WantedIsRegistered
  <2>2. lock = home[i] /\ lock = home[j]
    BY <2>1, LifecycleAssumption DEF IInv, SchedulerHoldsLock
  <2> QED
    BY <2>1, <2>2
<1> QED
  BY <1>1, LifecycleInvariant, PTL

\* A loop told to stop once it has begun never begins another tick.
THEOREM StopIsFinal == Spec => StopSticks
<1>1. IInv /\ [Next]_vars =>
         [\A i \in told \ early : loop[i] # "ticking" => loop'[i] # "ticking"]_vars
  <2> SUFFICES ASSUME IInv, Next, NEW i \in told \ early, loop[i] # "ticking"
               PROVE  loop'[i] # "ticking"
    OBVIOUS
  <2>1. ~running[i] /\ i \in Instances /\ loop[i] # "unborn" /\ loop[i] # "spawned"
    BY DEF IInv, StopReached, TypeOK
  <2>2. ASSUME NEW k \in Instances, BeginTick(k) PROVE loop'[i] # "ticking"
    BY <2>1, <2>2 DEF BeginTick, Move, IInv, TypeOK
  <2>3. ASSUME NEW k \in Instances, Begin(k) \/ Resumed(k) \/ EndTick(k) \/ Leave(k)
        PROVE  loop'[i] # "ticking"
    BY <2>1, <2>3 DEF Begin, Resumed, EndTick, Leave, Move, IInv, TypeOK
  <2>4. ASSUME NEW p \in Procs, NEW k \in Instances, Create(p, k) PROVE loop'[i] # "ticking"
    BY <2>1, <2>4 DEF Create, IInv, TypeOK
  <2>5. ASSUME NEW p \in Procs, Die(p) PROVE loop'[i] # "ticking"
    BY <2>1, <2>5 DEF Die
  <2>6. ASSUME loop' = loop PROVE loop'[i] # "ticking"
    BY <2>6
  <2> QED
    BY <2>2, <2>3, <2>4, <2>5, <2>6
    DEF Next, StartBackground, RunScript, CallStop, BeginExit, StopBackground, Signal, Boot, Procs
<1> QED
  BY <1>1, LifecycleInvariant, PTL DEF Spec, StopSticks
=============================================================================
