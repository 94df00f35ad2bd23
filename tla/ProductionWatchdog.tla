------------------------- MODULE ProductionWatchdog -------------------------
(***************************************************************************)
(* The production watchdog (agents/trading_intelligence/                   *)
(* production_watchdog.py): a cycle runs its checks, updates their rows in *)
(* one transaction, and alerts once per streak of failures.  An escalation *)
(* commits the transaction so far and then reports, alerts and emits, any  *)
(* of which may raise: the rest of the cycle is lost.                      *)
(***************************************************************************)
EXTENDS Naturals, FiniteSets, FiniteSetsExt

CONSTANTS Checks,    \* CHECK_NAMES, as numbers in their order
          Needed,    \* CONSECUTIVE_FAILURES_BEFORE_ESCALATION
          MaxStreak  \* bound: a counter stops there

VARIABLES saved,    \* watchdog_check_state, as committed
          draft,    \* the same, as the transaction has it
          cycle,    \* the cycle in flight: its results, and the checks still to update
          told,     \* history: alerts sent in the streak
          unsent    \* history: checks whose alert was cut short in the streak

watchdog == <<saved, draft, cycle, told, unsent>>

Row == [failures : 0..MaxStreak, escalated : BOOLEAN]
Healthy == [failures |-> 0, escalated |-> FALSE]
NoCycle == [at |-> "asleep", failed |-> {}, todo |-> {}]

TypeOK ==
    /\ saved \in [Checks -> Row] /\ draft \in [Checks -> Row]
    /\ cycle.at \in {"asleep", "updating", "escalating"}
    /\ told \in [Checks -> 0..MaxStreak] /\ unsent \subseteq Checks

Init ==
    /\ saved = [c \in Checks |-> Healthy] /\ draft = saved
    /\ cycle = NoCycle
    /\ told = [c \in Checks |-> 0] /\ unsent = {}

\* Every check runs, whatever it raises, before any row is touched.
RunChecks ==
    /\ cycle.at = "asleep"
    /\ \E failed \in SUBSET Checks : cycle' = [at |-> "updating", failed |-> failed, todo |-> Checks]
    /\ UNCHANGED <<saved, draft, told, unsent>>

Check == Min(cycle.todo)
Counted(row) == [row EXCEPT !.failures = Min({@ + 1, MaxStreak})]

\* The streak is over when its reset is committed.
Commit(rows) ==
    /\ saved' = rows /\ draft' = rows
    /\ told' = [c \in Checks |-> IF rows[c].failures = 0 THEN 0 ELSE told[c]]
    /\ unsent' = {c \in unsent : rows[c].failures # 0}

\* Mutant: a row that is healthy again stays escalated.
UpdatedSticky(c) == IF c \in cycle.failed THEN Counted(draft[c]) ELSE [draft[c] EXCEPT !.failures = 0]
Updated(c)       == IF c \in cycle.failed THEN Counted(draft[c]) ELSE Healthy

Escalates(row)      == row.failures >= Needed /\ ~row.escalated

UpdateCheck ==
    /\ cycle.at = "updating" /\ cycle.todo # {}
    /\ LET row == Updated(Check) IN
       IF Escalates(row)
       THEN /\ Commit([draft EXCEPT ![Check] = [row EXCEPT !.escalated = TRUE]])
            /\ cycle' = [cycle EXCEPT !.at = "escalating"]
       ELSE /\ draft' = [draft EXCEPT ![Check] = row]
            /\ cycle' = [cycle EXCEPT !.todo = @ \ {Check}]
            /\ UNCHANGED <<saved, told, unsent>>

Escalate ==
    /\ cycle.at = "escalating"
    /\ told' = [told EXCEPT ![Check] = Min({@ + 1, MaxStreak})]
    /\ cycle' = [cycle EXCEPT !.at = "updating", !.todo = @ \ {Check}]
    /\ UNCHANGED <<saved, draft, unsent>>

EndCycle ==
    /\ cycle.at = "updating" /\ cycle.todo = {}
    /\ Commit(draft)
    /\ cycle' = NoCycle

\* An exception, or the death of the process, at any point: what is not committed is gone.
CycleFails ==
    /\ cycle.at # "asleep"
    /\ unsent' = IF cycle.at = "escalating" THEN unsent \cup {Check} ELSE unsent
    /\ draft' = saved
    /\ cycle' = NoCycle
    /\ UNCHANGED <<saved, told>>

Next == RunChecks \/ UpdateCheck \/ Escalate \/ EndCycle \/ CycleFails

-----------------------------------------------------------------------------
\* However many cycles a check keeps failing, and wherever they are cut short, one streak
\* sends one alert.
OneAlertPerStreak == \A c \in Checks : told[c] <= 1

\* A streak that has reached the threshold is escalated, and its alert was sent, is being sent,
\* or was cut short by an error after the flag was committed.
NoSilentStreak ==
    \A c \in Checks : saved[c].failures >= Needed =>
        /\ saved[c].escalated
        /\ told[c] = 1 \/ c \in unsent \/ (cycle.at = "escalating" /\ Check = c)
=============================================================================
