------------------------------- MODULE Alerts -------------------------------
(***************************************************************************)
(* Intelligence alerts (src/app.py, _run_intelligence_alerts_auto_cycle,   *)
(* and the stores of src/agents/intelligence_alerts).  Every symbol's loop *)
(* resends what failed before, then decides about the condition it sees;   *)
(* the deduplication baseline, the retry state and the hourly send log are *)
(* tables, so a restart keeps them and loses what was between two writes.  *)
(* A condition is a symbol's bias and rule; its rank is the confidence     *)
(* bucket, and an identity is a condition at a rank.                       *)
(***************************************************************************)
EXTENDS Naturals, FiniteSetsExt

CONSTANTS Symbols,     \* one loop each
          Ranks,       \* the confidence buckets, from 1 on, each symbol's condition reaches
          SymbolLimit, \* INTELLIGENCE_ALERT_MAX_PER_SYMBOL_PER_HOUR
          TotalLimit,  \* INTELLIGENCE_ALERT_MAX_TOTAL_PER_HOUR
          MaxAttempts, \* INTELLIGENCE_ALERT_RETRY_MAX_ATTEMPTS
          MaxDeaths    \* bound: restarts of the process

VARIABLES loop,       \* where each loop is, the retries it still has to look at, the rank it sends
          baseline,   \* dedup state of each symbol's condition: rank last sent, cooldown running
          retry,      \* retry state of each identity
          sent,       \* sends of each symbol logged in the last hour
          deaths,
          unlogged,   \* history: deliveries of the last hour that are not in the log
          failed,     \* history: identities whose last send failed
          burst       \* history: fresh alerts since the cooldown last ran out

alerts == <<loop, baseline, retry, sent, deaths, unlogged, failed, burst>>

NoRetry  == [tries |-> 0, due |-> FALSE]
NoAlert  == [rank |-> 0, cooling |-> FALSE]
Places   == {"idle", "retrying", "snapshot", "limiting", "sending", "resending", "delivered", "counting", "failing"}
Idle     == [at |-> "idle", due |-> {}, rank |-> 0, fresh |-> FALSE]

AllRanks == UNION {Ranks[s] : s \in Symbols}

TypeOK ==
    /\ loop \in [Symbols -> [at : Places, due : SUBSET AllRanks, rank : {0} \cup AllRanks, fresh : BOOLEAN]]
    /\ baseline \in [Symbols -> [rank : {0} \cup AllRanks, cooling : BOOLEAN]]
    /\ \A s \in Symbols : retry[s] \in [Ranks[s] -> [tries : 0..MaxAttempts, due : BOOLEAN]]
    /\ \A s \in Symbols : sent[s] \in 0..SymbolLimit /\ unlogged[s] \in 0..MaxDeaths + 1
    /\ deaths \in 0..MaxDeaths
    /\ failed \in [Symbols -> SUBSET AllRanks] /\ burst \in [Symbols -> Nat]

Init ==
    /\ loop = [s \in Symbols |-> Idle] /\ baseline = [s \in Symbols |-> NoAlert]
    /\ retry = [s \in Symbols |-> [r \in Ranks[s] |-> NoRetry]]
    /\ sent = [s \in Symbols |-> 0] /\ deaths = 0
    /\ unlogged = [s \in Symbols |-> 0] /\ failed = [s \in Symbols |-> {}] /\ burst = [s \in Symbols |-> 0]

At(s, place)   == loop[s].at = place
GoTo(s, place) == loop' = [loop EXCEPT ![s].at = place]

Exhausted(row) == row.tries >= MaxAttempts
SumOf(f)       == MapThenSumSet(LAMBDA s : f[s], Symbols)

IsAllowed(s)   == sent[s] < SymbolLimit /\ SumOf(sent) < TotalLimit

-----------------------------------------------------------------------------
\* get_due_retries: read once, before the first of them is resent.
Begin(s) ==
    /\ At(s, "idle")
    /\ loop' = [loop EXCEPT ![s] = [Idle EXCEPT !.at = "retrying",
                                                !.due = {r \in Ranks[s] : retry[s][r].due}]]
    /\ UNCHANGED <<baseline, retry, sent, deaths, unlogged, failed, burst>>

\* A retry the limits refuse waits for a later cycle.
NextRetry(s) ==
    /\ At(s, "retrying")
    /\ \/ loop[s].due = {} /\ GoTo(s, "snapshot")
       \/ \E r \in loop[s].due :
            loop' = [loop EXCEPT ![s] = [at |-> IF IsAllowed(s) THEN "resending" ELSE "retrying",
                                         due |-> @.due \ {r}, rank |-> r, fresh |-> FALSE]]
    /\ UNCHANGED <<baseline, retry, sent, deaths, unlogged, failed, burst>>

Suppressed(s, rank)       == baseline[s].cooling /\ rank <= baseline[s].rank

\* Without a snapshot, or with no rule triggered, the cycle is over; so it is with a condition
\* should_suppress knows.  Any other becomes the baseline, whether it is sent or not.
Decide(s) ==
    /\ At(s, "snapshot")
    /\ \/ loop' = [loop EXCEPT ![s] = Idle] /\ UNCHANGED <<baseline, burst>>
       \/ \E r \in Ranks[s] :
            /\ ~Suppressed(s, r)
            /\ baseline' = [baseline EXCEPT ![s] = [rank |-> r, cooling |-> TRUE]]
            /\ burst' = [burst EXCEPT ![s] = IF baseline[s].cooling THEN @ + 1 ELSE 1]
            /\ loop' = [loop EXCEPT ![s] = [Idle EXCEPT !.at = "limiting", !.rank = r, !.fresh = TRUE]]
    /\ UNCHANGED <<retry, sent, deaths, unlogged, failed>>

Limit(s) ==
    /\ At(s, "limiting")
    /\ loop' = [loop EXCEPT ![s] = IF IsAllowed(s) THEN [@ EXCEPT !.at = "sending"] ELSE Idle]
    /\ UNCHANGED <<baseline, retry, sent, deaths, unlogged, failed, burst>>

\* send_telegram: delivered, or not.
Send(s) ==
    /\ At(s, "sending") \/ At(s, "resending")
    /\ \/ /\ GoTo(s, "delivered")
          /\ unlogged' = [unlogged EXCEPT ![s] = @ + 1]
          /\ failed' = [failed EXCEPT ![s] = @ \ {loop[s].rank}]
       \/ GoTo(s, "failing") /\ UNCHANGED <<unlogged, failed>>
    /\ UNCHANGED <<baseline, retry, sent, deaths, burst>>

After(s) == IF loop[s].fresh THEN Idle ELSE [loop[s] EXCEPT !.at = "retrying"]

\* record_success, and then record_send.
Delivered(s) ==
    /\ At(s, "delivered")
    /\ retry' = [retry EXCEPT ![s][loop[s].rank] = NoRetry]
    /\ GoTo(s, "counting")
    /\ UNCHANGED <<baseline, sent, deaths, unlogged, failed, burst>>

\* Mutant: a resent alert is not counted.
CountFresh(s) ==
    /\ At(s, "counting")
    /\ sent' = [sent EXCEPT ![s] = IF loop[s].fresh THEN @ + 1 ELSE @]
    /\ unlogged' = [unlogged EXCEPT ![s] = IF loop[s].fresh THEN @ - 1 ELSE @]
    /\ loop' = [loop EXCEPT ![s] = After(s)]
    /\ UNCHANGED <<baseline, retry, deaths, failed, burst>>
Count(s) ==
    /\ At(s, "counting")
    /\ sent' = [sent EXCEPT ![s] = @ + 1]
    /\ unlogged' = [unlogged EXCEPT ![s] = @ - 1]
    /\ loop' = [loop EXCEPT ![s] = After(s)]
    /\ UNCHANGED <<baseline, retry, deaths, failed, burst>>

\* record_failure counts on from an exhausted row too (past MaxAttempts the count is not told
\* apart).
Recorded(row)        == [tries |-> Min({row.tries + 1, MaxAttempts}), due |-> FALSE]

Fail(s) ==
    /\ At(s, "failing")
    /\ retry' = [retry EXCEPT ![s][loop[s].rank] = Recorded(@)]
    /\ failed' = [failed EXCEPT ![s] = @ \cup {loop[s].rank}]
    /\ loop' = [loop EXCEPT ![s] = After(s)]
    /\ UNCHANGED <<baseline, sent, deaths, unlogged, burst>>

-----------------------------------------------------------------------------
\* A row's backoff elapses, a condition's cooldown ends, a send leaves the window.
BackoffElapses(s) ==
    /\ \E r \in Ranks[s] : retry[s][r].tries > 0 /\ ~Exhausted(retry[s][r]) /\ ~retry[s][r].due /\ retry' = [retry EXCEPT ![s][r].due = TRUE]
    /\ UNCHANGED <<loop, baseline, sent, deaths, unlogged, failed, burst>>

CooldownEnds(s) ==
    /\ baseline[s].cooling
    /\ baseline' = [baseline EXCEPT ![s].cooling = FALSE] /\ burst' = [burst EXCEPT ![s] = 0]
    /\ UNCHANGED <<loop, retry, sent, deaths, unlogged, failed>>

LeavesWindow(s) ==
    /\ sent[s] > 0
    /\ sent' = [sent EXCEPT ![s] = @ - 1]
    /\ UNCHANGED <<loop, baseline, retry, deaths, unlogged, failed, burst>>

Restart ==
    /\ deaths < MaxDeaths
    /\ deaths' = deaths + 1
    /\ loop' = [s \in Symbols |-> Idle]
    /\ UNCHANGED <<baseline, retry, sent, unlogged, failed, burst>>

Step(s) ==
    \/ Begin(s) \/ NextRetry(s) \/ Decide(s) \/ Limit(s)
    \/ Send(s) \/ Delivered(s) \/ Count(s) \/ Fail(s)
    \/ BackoffElapses(s) \/ CooldownEnds(s) \/ LeavesWindow(s)

Next == (\E s \in Symbols : Step(s)) \/ Restart

-----------------------------------------------------------------------------
\* The deliveries of an hour: no symbol exceeds its limit, and all together exceed theirs by at
\* most one per other loop that had been allowed already, and one per restart between a delivery
\* and its log entry.
WithinLimits ==
    LET delivered == [s \in Symbols |-> sent[s] + unlogged[s]] IN
    /\ \A s \in Symbols : delivered[s] <= SymbolLimit + deaths
    /\ SumOf(delivered) <= TotalLimit + (Cardinality(Symbols) - 1) + deaths * Cardinality(Symbols)

\* A message whose sending failed is in the retry table until it is delivered.
FailureIsRemembered ==
    \A s \in Symbols : \A r \in failed[s] : retry[s][r].tries > 0

\* Within one cooldown a condition is alerted again only when it gets more confident.
OncePerRank == \A s \in Symbols : burst[s] <= Cardinality(Ranks[s])
=============================================================================
