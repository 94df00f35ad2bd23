--------------------------- MODULE TradeGuardian ---------------------------
(***************************************************************************)
(* The Trade Guardian: advice about positions the administrator holds at   *)
(* the broker (trade_guardian.py, trade_guardian_store.py,                 *)
(* trade_guardian_graph.py and the shadow loop of app.py).  A plan is      *)
(* registered once; every cycle of the loop reads the broker's positions,  *)
(* evaluates each plan against the stored market data, saves the advice,   *)
(* and when all are evaluated sends what has changed.  The module run as a *)
(* script evaluates a plan by hand, between any two of those steps.        *)
(***************************************************************************)
EXTENDS Integers, Sequences, FiniteSetsExt

CONSTANTS Positions, \* position_id of what may be registered
          Plans,     \* the plans an administrator may give: direction, entry, sl
          Premiums,  \* the broker's ltp
          Floors,    \* trailing distances atr_14 asks for; 0 when it is unknown
          Tiers,     \* trade_health_tier of what is scored, "CRITICAL" among them
          MaxFaults,
          None

VARIABLES plan,   \* trade_guardian_plan: a plan of Plans, or None
          saved,  \* trade_guardian_state, or None
          loop,   \* the shadow loop: what is left to evaluate, what it holds, what it will send
          told,   \* the last advice sent for each position, or None
          lost,   \* positions whose last change may have gone unsent
          faults

guardian == <<plan, saved, loop, told, lost, faults>>

Actions == {"HOLD", "HOLD WITH CAUTION", "TRAIL", "PROTECT PROFIT", "REDUCE RISK"}
Advice  == [state : {"UNKNOWN", "MONITORING"}, sl : {None} \cup Int, tier : Tiers, action : Actions]
Asleep  == [at |-> "asleep", todo |-> <<>>, broker |-> FALSE, previous |-> None, outbox |-> <<>>]

TypeOK ==
    /\ plan \in [Positions -> Plans \cup {None}]
    /\ saved \in [Positions -> Advice \cup {None}] /\ told \in [Positions -> Advice \cup {None}]
    /\ loop.at \in {"asleep", "next", "fetched", "sending"} /\ loop.broker \in BOOLEAN
    /\ loop.previous \in Advice \cup {None}
    /\ \A i \in DOMAIN loop.todo : loop.todo[i] \in Positions
    /\ \A i \in DOMAIN loop.outbox : loop.outbox[i] \in [position : Positions, advice : Advice]
    /\ lost \subseteq Positions /\ faults \in 0..MaxFaults

Init ==
    /\ plan = [p \in Positions |-> None] /\ saved = plan /\ told = plan
    /\ loop = Asleep /\ lost = {} /\ faults = 0

-----------------------------------------------------------------------------
Gain(pl, premium) == IF pl.direction = "CE" THEN premium - pl.entry ELSE pl.entry - premium
Risk(pl) == IF pl.entry > pl.sl THEN pl.entry - pl.sl ELSE pl.sl - pl.entry

\* The clamp that no branch of _dynamic_sl escapes.  Mutant: it is gone.
ClampedNever(pl, sl) == sl
Clamped(pl, sl) == IF pl.direction = "CE" THEN Max({sl, pl.sl}) ELSE Min({sl, pl.sl})

\* Breakeven from 3/4 of the risk on, a trail from 3/2 on, never closer than half of the risk.
DynamicSl(pl, premium, floor) ==
    LET gain  == Gain(pl, premium)
        trail == Max({Risk(pl) \div 2, floor}) IN
    CASE Risk(pl) = 0 \/ 4 * gain < 3 * Risk(pl) -> [sl |-> pl.sl, move |-> "KEEP"]
      [] Risk(pl) > 0 /\ 4 * gain >= 3 * Risk(pl) /\ 2 * gain < 3 * Risk(pl) ->
            [sl |-> Clamped(pl, pl.entry), move |-> "BREAKEVEN"]
      [] OTHER -> [sl |-> Clamped(pl, IF pl.direction = "CE" THEN premium - trail ELSE premium + trail),
                   move |-> "TRAIL"]

\* _action_from_state.  Its first line, a broken thesis, needs an underlying outside the range of
\* the day's stored cycles; the underlying is the newest of those cycles, so it is never taken.
ActionFor(tier, move, gain) ==
    CASE tier = "CRITICAL" -> "REDUCE RISK"
      [] tier = "WEAK"     -> IF gain <= 0 THEN "REDUCE RISK" ELSE "HOLD WITH CAUTION"
      [] tier = "CAUTION"  -> "HOLD WITH CAUTION"
      [] OTHER -> CASE move = "TRAIL" -> "TRAIL" [] move = "BREAKEVEN" -> "PROTECT PROFIT" [] OTHER -> "HOLD"

Unknown(sl)  == [state |-> "UNKNOWN", sl |-> sl, tier |-> "CRITICAL", action |-> "HOLD"]
NoMarket(pl) == [Unknown(pl.sl) EXCEPT !.state = "MONITORING"]

\* A premium of 0 stands for a quote the broker did not give: the stop is kept, the action is not.
Evaluated(pl, premium, floor, tier) ==
    LET smart == DynamicSl(pl, IF premium = 0 THEN pl.entry ELSE premium, floor)
        gain  == IF Risk(pl) = 0 THEN 0 ELSE Gain(pl, premium) IN
    [state |-> "MONITORING", sl |-> smart.sl, tier |-> tier, action |-> ActionFor(tier, smart.move, gain)]

\* What an evaluation can come to: the broker's position found or not, the market data there or
\* not, an exception in any of the component scores.
Evaluations(pl, broker) ==
    {Unknown(pl.sl), Unknown(None)} \cup
    IF broker THEN {NoMarket(pl)} \cup {Evaluated(pl, x, f, t) : x \in Premiums, f \in Floors, t \in Tiers}
    ELSE {}

-----------------------------------------------------------------------------
\* register_plan: an id that is there keeps its plan, whatever the caller gives.
Kept(p, pl) == IF plan[p] = None THEN pl ELSE plan[p]

Register ==
    /\ \E p \in Positions, pl \in Plans : plan' = [plan EXCEPT ![p] = Kept(p, pl)]
    /\ UNCHANGED <<saved, loop, told, lost, faults>>

\* A cycle takes the plans as they are, in the order of registration; a fetch of the broker's
\* positions that fails leaves it with none.
Orders == {s \in UNION {[1..n -> Positions] : n \in 0..Cardinality(Positions)} :
              \A i, j \in DOMAIN s : s[i] = s[j] => i = j}

Wake ==
    /\ loop.at = "asleep"
    /\ \E order \in Orders, broker \in BOOLEAN :
          /\ {order[i] : i \in DOMAIN order} = {p \in Positions : plan[p] # None}
          /\ loop' = [Asleep EXCEPT !.at = "next", !.todo = order, !.broker = broker]
    /\ UNCHANGED <<plan, saved, told, lost, faults>>

\* _n_fetch_plan: the advice of the cycle before, read before this one's is written.
FetchPlan ==
    /\ loop.at = "next" /\ loop.todo # <<>>
    /\ loop' = [loop EXCEPT !.at = "fetched", !.previous = saved[Head(loop.todo)]]
    /\ UNCHANGED <<plan, saved, told, lost, faults>>

\* _n_decide_notification.
Changed(before, advice) ==
    before = None \/ before.action # advice.action \/ before.tier # advice.tier \/ before.sl # advice.sl

\* _n_evaluate persists its own result; _persist forgives a write that fails.  _n_risk_gate comes
\* after it and has nothing to correct: every action is known, no stop is wider (NeverWidens).
Evaluate ==
    /\ loop.at = "fetched"
    /\ LET p == Head(loop.todo) IN
       \E advice \in Evaluations(plan[p], loop.broker), written \in BOOLEAN :
          /\ written \/ faults < MaxFaults
          /\ faults' = IF written THEN faults ELSE faults + 1
          /\ saved' = IF written THEN [saved EXCEPT ![p] = advice] ELSE saved
          /\ lost' = IF written THEN lost ELSE lost \cup {p}
          /\ loop' = [loop EXCEPT !.at = "next", !.todo = Tail(@), !.previous = None,
                                  !.outbox = IF Changed(loop.previous, advice)
                                             THEN Append(@, [position |-> p, advice |-> advice]) ELSE @]
    /\ UNCHANGED <<plan, told>>

\* run_shadow_cycle_and_notify: a message that cannot be sent is gone.
Send ==
    /\ loop.at = "next" /\ loop.todo = <<>> /\ loop.outbox # <<>>
    /\ LET m == Head(loop.outbox) IN
       \/ /\ told' = [told EXCEPT ![m.position] = m.advice]
          /\ lost' = IF m.advice = saved[m.position] THEN lost \ {m.position} ELSE lost
          /\ UNCHANGED faults
       \/ /\ faults < MaxFaults /\ faults' = faults + 1
          /\ lost' = lost \cup {m.position} /\ UNCHANGED told
    /\ loop' = [loop EXCEPT !.outbox = Tail(@)]
    /\ UNCHANGED <<plan, saved>>

Sleep ==
    /\ loop.at = "next" /\ loop.todo = <<>> /\ loop.outbox = <<>>
    /\ loop' = Asleep
    /\ UNCHANGED <<plan, saved, told, lost, faults>>

\* The script's "evaluate": saved, never sent.
ByHand ==
    /\ faults < MaxFaults /\ faults' = faults + 1
    /\ \E p \in Positions :
          /\ plan[p] # None
          /\ \E advice \in Evaluations(plan[p], TRUE) : saved' = [saved EXCEPT ![p] = advice]
          /\ lost' = lost \cup {p}
    /\ UNCHANGED <<plan, loop, told>>

Death ==
    /\ loop # Asleep /\ faults < MaxFaults /\ faults' = faults + 1
    /\ loop' = Asleep
    /\ lost' = lost \cup {p \in Positions : plan[p] # None}
    /\ UNCHANGED <<plan, saved, told>>

Next == Register \/ Wake \/ FetchPlan \/ Evaluate \/ Send \/ Sleep \/ ByHand \/ Death

-----------------------------------------------------------------------------
\* The administrator's plan is immutable: neither a second registration nor any advice changes it.
PlanIsKept == [][\A p \in Positions : plan[p] # None => plan'[p] = plan[p]]_guardian

\* Between cycles the administrator has been told the advice that is saved, unless something was
\* lost: a send, a write or the process, or an evaluation by hand.
ToldWhatIsSaved ==
    loop.at = "asleep" =>
        \A p \in Positions \ lost :
           saved[p] # None => /\ told[p] # None
                              /\ told[p].action = saved[p].action
                              /\ told[p].tier = saved[p].tier
                              /\ told[p].sl = saved[p].sl

\* A stop in an advice never gives more away than the plan's own, whatever cycles came before.
NeverWidens ==
    \A p \in Positions : (plan[p] # None /\ saved[p] # None /\ saved[p].sl # None) =>
        IF plan[p].direction = "CE" THEN saved[p].sl >= plan[p].sl ELSE saved[p].sl <= plan[p].sl
=============================================================================
