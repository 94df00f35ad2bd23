--------------------------- MODULE TaskLifecycle ---------------------------
(***************************************************************************)
(* What the task queue of agents/runtime promises its callers, with no     *)
(* table, thread or clock: an enqueued task is handed to at most one       *)
(* holder at a time, at most MaxAttempts times, and the holder it was      *)
(* handed to is the only one that settles it or sends it back.  A holder   *)
(* that dies keeps the task: nothing takes it over.                        *)
(***************************************************************************)
EXTENDS Naturals

CONSTANTS Tasks,       \* ids of runtime_task_queue rows
          Holders,     \* the scheduler loops that claim tasks
          NoHolder,    \* no loop holds the task
          MaxAttempts  \* max_attempts of a row

VARIABLES status,      \* status[t]: the row's status, "absent" before enqueue
          attempts,    \* attempts[t]: how often the task was handed out
          holder       \* holder[t]: the loop working on t, or NoHolder

vars == <<status, attempts, holder>>

Waiting == {"queued", "retrying"}
Settled == {"completed", "dead"}

Init == /\ status = [t \in Tasks |-> "absent"]
        /\ attempts = [t \in Tasks |-> 0]
        /\ holder = [t \in Tasks |-> NoHolder]

Submit(t) == /\ status[t] = "absent"
             /\ status' = [status EXCEPT ![t] = "queued"]
             /\ attempts' = [attempts EXCEPT ![t] = 0]
             /\ UNCHANGED holder

HandOut(t, h) == /\ status[t] \in Waiting
                 /\ attempts[t] < MaxAttempts
                 /\ status' = [status EXCEPT ![t] = "running"]
                 /\ attempts' = [attempts EXCEPT ![t] = @ + 1]
                 /\ holder' = [holder EXCEPT ![t] = h]

\* The verdict of the holder: done, try again while attempts remain, or dead
\* once they are used up.
Settle(t, verdict) ==
    /\ status[t] = "running"
    /\ holder[t] # NoHolder
    /\ \/ verdict = "completed"
       \/ verdict = "retrying" /\ attempts[t] < MaxAttempts
       \/ verdict = "dead" /\ attempts[t] = MaxAttempts
    /\ status' = [status EXCEPT ![t] = verdict]
    /\ holder' = [holder EXCEPT ![t] = NoHolder]
    /\ UNCHANGED attempts

\* The holder died: the row says running and nobody will ever settle it.
Orphan(t) == /\ holder[t] # NoHolder
             /\ holder' = [holder EXCEPT ![t] = NoHolder]
             /\ UNCHANGED <<status, attempts>>

Next == \E t \in Tasks :
           \/ Submit(t)
           \/ \E h \in Holders : HandOut(t, h)
           \/ \E v \in {"completed", "retrying", "dead"} : Settle(t, v)
           \/ Orphan(t)

Spec == Init /\ [][Next]_vars
=============================================================================
