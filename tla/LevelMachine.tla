---------------------------- MODULE LevelMachine ----------------------------
(***************************************************************************)
(* One support or resistance level of a symbol (src/app.py,                *)
(* advance_sr_state_machine and get_sr_trade_trigger, with                 *)
(* src/sr_probability_engine.py): probability makes a level CONFIRMED,     *)
(* price makes it ACTIVE, premium triggers its one trade, price resolves   *)
(* it, and after a rest it begins again.  Probabilities and prices are     *)
(* what the code asks of them; time passes in whole units, with or without *)
(* cycles, for a closed market or a failing loop advances no level.        *)
(***************************************************************************)
EXTENDS Integers, Sequences, FiniteSetsExt

CONSTANTS Directions,  \* breakout or breakdown, and reversal
          Strikes,     \* the candidates best in a cycle
          Persistence, \* persistence_seconds
          Grace,       \* deactivation_grace_seconds
          Rest         \* SR_ACTIVE_RESET_MINUTES

VARIABLES st,       \* bucket[level_key]
          premiums, \* sr_premium_history of the level: the strikes of its last two readings
          seen,     \* history: the reading of the last cycles, and for how long
          resolved, \* history: age of the level's last TARGET_HIT or STOPPED
          opened    \* history: trade triggers of this activation

level == <<st, premiums, seen, resolved, opened>>

Targets   == {"NO_EDGE", "WATCH", "ARMED", "CONFIRMED"}
Lifecycle == {"ACTIVE", "TARGET_HIT", "STOPPED"}
Rank      == [NO_EDGE |-> 0, WATCH |-> 1, ARMED |-> 2, CONFIRMED |-> 3]
None      == -1   \* no grace running, not resolved

Fresh(direction, target) ==
    [state |-> "NO_EDGE", direction |-> direction, target |-> target, held |-> 0, grace |-> None,
     resolved_at |-> None, triggered |-> FALSE, rr_ok |-> FALSE, trade_opened |-> FALSE]

TypeOK ==
    /\ st \in [state : Targets \cup Lifecycle, direction : Directions, target : Targets, held : 0..Persistence,
               grace : None..Grace + 1, resolved_at : None..Rest + 1, triggered : BOOLEAN, rr_ok : BOOLEAN,
               trade_opened : BOOLEAN]
    /\ DOMAIN premiums \subseteq 1..2 /\ \A i \in DOMAIN premiums : premiums[i] \in Strikes
    /\ seen \in [direction : Directions, target : Targets, age : 0..Persistence]
    /\ resolved \in None..Rest + 1 /\ opened \in 0..2

\* Without a previous state the first reading starts fresh, as one in another direction does.
Init ==
    /\ \E d \in Directions : st = Fresh(d, "NO_EDGE") /\ seen = [direction |-> d, target |-> "NO_EDGE", age |-> 0]
    /\ premiums = <<>> /\ resolved = None /\ opened = 0

-----------------------------------------------------------------------------
\* A level too far from the price is at most armed.
TargetOf(probable, near) == IF probable = "CONFIRMED" /\ ~near THEN "ARMED" ELSE probable

\* Mutant: a change of direction keeps the progress.
RedirectedKeeps(s, direction, target) == [s EXCEPT !.direction = direction]
Redirected(s, direction, target) == IF s.direction # direction THEN Fresh(direction, target) ELSE s

Retargeted(s, target) == IF s.target # target THEN [s EXCEPT !.target = target, !.held = 0] ELSE s

\* advance_level_state: up when the target was held, down after the grace.
Moved(s) ==
    CASE Rank[s.target] > Rank[s.state] /\ s.held >= Persistence -> [s EXCEPT !.state = s.target, !.grace = None]
      [] Rank[s.target] < Rank[s.state] /\ s.grace = None -> [s EXCEPT !.grace = 0]
      [] Rank[s.target] < Rank[s.state] /\ s.grace > Grace -> [s EXCEPT !.state = s.target, !.grace = None]
      [] Rank[s.target] < Rank[s.state] /\ s.grace \in 0..Grace -> s
      [] OTHER -> [s EXCEPT !.grace = None]

Advanced(direction, target) ==
    IF st.state \in Lifecycle THEN st ELSE Moved(Retargeted(Redirected(st, direction, target), target))

\* The price trades through the level, with its candles closed beyond it.
Activated(s, crossed) == IF s.state = "CONFIRMED" /\ crossed THEN [s EXCEPT !.state = "ACTIVE"] ELSE s

\* compute_premium_entry_trigger asks for two earlier readings; a strike that is not liquid
\* leaves none.  The gates are what the premium, its averages and the filter say.
MayTrigger(s) == ~s.triggered /\ DOMAIN premiums = {1, 2}

Read(strike) == IF DOMAIN premiums = {1, 2} THEN <<premiums[2], strike>> ELSE premiums \o <<strike>>

Rested(s)       == s.resolved_at # None /\ s.resolved_at > Rest

Resolved(s) ==
    CASE s.resolved_at = None -> [s EXCEPT !.resolved_at = 0]
      [] Rested(s) -> Fresh(s.direction, "NO_EDGE")
      [] OTHER -> s

-----------------------------------------------------------------------------
\* get_sr_trade_trigger; another level of the symbol may come first.
Ready(s) == s.state = "ACTIVE" /\ s.triggered /\ ~s.trade_opened /\ s.rr_ok

Taken(s)         == [s EXCEPT !.trade_opened = TRUE]

Offered(s) ==
    \/ Ready(s) /\ st' = Taken(s) /\ opened' = opened + 1
    \/ st' = s /\ opened' = IF s.state = "ACTIVE" THEN opened ELSE 0

\* What the cycle makes of a level that was ACTIVE before it.
WhileActive(s) ==
    \/ /\ \E end \in {"TARGET_HIT", "STOPPED"} : st' = [s EXCEPT !.state = end]
       /\ resolved' = 0 /\ opened' = opened
       /\ UNCHANGED premiums
    \/ /\ \/ Offered(s) /\ UNCHANGED premiums
          \/ \E strike \in Strikes :
               /\ premiums' = Read(strike)
               /\ \/ Offered(s)
                  \/ MayTrigger(s) /\ \E ok \in BOOLEAN : Offered([s EXCEPT !.triggered = TRUE, !.rr_ok = ok])
       /\ UNCHANGED resolved

Observe(direction, target) ==
    seen' = [direction |-> direction, target |-> target,
             age |-> IF seen.direction = direction /\ seen.target = target THEN seen.age ELSE 0]

\* One cycle of the symbol's loop, the market open.
Cycle ==
    \E direction \in Directions, target \in {TargetOf(probable, near) : probable \in Targets, near \in BOOLEAN} :
        LET s == Advanced(direction, target) IN
        /\ Observe(direction, target)
        /\ CASE s.state \in {"TARGET_HIT", "STOPPED"} ->
                    /\ st' = Resolved(s) /\ opened' = 0 /\ UNCHANGED <<premiums, resolved>>
             [] s.state = "ACTIVE" -> WhileActive(s)
             [] OTHER -> /\ \E crossed \in BOOLEAN : Offered(Activated(s, crossed))
                         /\ UNCHANGED <<premiums, resolved>>

\* Time passes without a cycle.
Older(age, most) == IF age = None THEN None ELSE Min({age + 1, most})
Elapse ==
    /\ st' = [st EXCEPT !.held = Min({@ + 1, Persistence}), !.grace = Older(@, Grace + 1),
                        !.resolved_at = Older(@, Rest + 1)]
    /\ seen' = [seen EXCEPT !.age = Min({@ + 1, Persistence})]
    /\ resolved' = Older(resolved, Rest + 1)
    /\ UNCHANGED <<premiums, opened>>

\* A restart forgets every level.
Restart ==
    /\ \E d \in Directions : st' = Fresh(d, "NO_EDGE") /\ seen' = [direction |-> d, target |-> "NO_EDGE", age |-> 0]
    /\ premiums' = <<>> /\ resolved' = None /\ opened' = 0

Next == Cycle \/ Elapse \/ Restart

-----------------------------------------------------------------------------
\* An activation opens at most one trade, however many cycles it stays triggered.
OneTradePerActivation == opened <= 1

\* A level rises only to what every cycle of the persistence time has read, in the direction
\* they have read: no progress is inherited from another setup.
Height(state) == IF state \in Targets THEN Rank[state] ELSE Rank["CONFIRMED"]
RiseIsEarned ==
    [][(st.state \in Targets \ {"CONFIRMED"} /\ Height(st'.state) > Rank[st.state])
         => seen'.direction = st'.direction /\ seen'.target = st'.target /\ seen'.age >= Persistence]_level

\* Between a resolved setup and the next activation of the level lie the rest and a new
\* confirmation.
RestsBetweenSetups ==
    [][(st.state # "ACTIVE" /\ st'.state = "ACTIVE") => resolved \notin 0..Rest]_level
=============================================================================
