----------------------------- MODULE SymbolLoop -----------------------------
(***************************************************************************)
(* run_symbol_loop of src/app.py: one symbol's endless cycle, from the     *)
(* quote to the payload, with the bias filter it feeds                     *)
(* (apply_fake_signal_filter) and the market hours it obeys                *)
(* (is_market_open).  A cycle is a row of phases; some are isolated, their *)
(* failure is logged and the cycle goes on, and any other failure ends it. *)
(***************************************************************************)
EXTENDS Naturals, Sequences, SequencesExt

CONSTANTS Persistence, \* BIAS_PERSISTENCE_SECONDS, in clock steps
          Grace,       \* NEUTRAL_GRACE_SECONDS
          Retry        \* the 120 s between two fetches of the market structure

VARIABLES market,    \* open: is_market_open; dev: DEV_MODE_WHEN_CLOSED
          streak,    \* bias_streak_by_symbol: bias, ages of since and neutral_since, alerted
          baseline,  \* last_bias_by_symbol
          structure, \* computed today, age of the last attempt, candles fetched today
          scalp,     \* the scalp engine's premium history holds this cycle's own reading
          cycle,     \* the phase the cycle is in, whether the market was open at its start, the bias it read
          opposed,   \* age of the last directional reading other than the streak's
          alert      \* the bias of the last alert of this process, and whether this step sent it

loop == <<market, streak, baseline, structure, scalp, cycle, opposed, alert>>

Phases == <<"quote", "structure", "dynamic", "chain", "signal", "levels", "v2", "swing", "orders", "log",
            "bias", "alerts", "ichimoku", "scalp", "scalp_paper", "v3", "publish">>
Isolated == {"structure", "dynamic", "v2", "alerts", "ichimoku", "v3"}
Frozen   == {"swing", "orders", "log", "alerts", "scalp_paper"} \* left out while the market is closed

None     == "none"
Biases   == {"up", "down"}
Longest  == Persistence + Grace + Retry
Older(a) == IF a = Longest THEN a ELSE a + 1
Ages     == 0..Longest

NoStreak == [bias |-> None, held |-> 0, neutral |-> Longest + 1, alerted |-> FALSE]
Resting  == [at |-> "rest", open |-> FALSE, bias |-> None]

TypeOK ==
    /\ market \in [open : BOOLEAN, dev : BOOLEAN]
    /\ streak \in [bias : Biases \cup {None}, held : Ages, neutral : 0..(Longest + 1), alerted : BOOLEAN]
    /\ baseline \in Biases \cup {"neutral", None}
    /\ structure \in [done : BOOLEAN, tried : Ages, candles : BOOLEAN]
    /\ scalp \in [own : BOOLEAN, seen : BOOLEAN]
    /\ cycle.at \in ToSet(Phases) \cup {"rest"} /\ cycle.bias \in Biases \cup {"neutral", None}
    /\ cycle.open \in BOOLEAN
    /\ opposed \in Ages /\ alert \in [bias : Biases \cup {None}, sent : BOOLEAN]

Unfetched == [done |-> FALSE, tried |-> Longest, candles |-> FALSE]
Unseen    == [own |-> FALSE, seen |-> FALSE]
Unalerted == [bias |-> None, sent |-> FALSE]

Init ==
    /\ market \in [open : BOOLEAN, dev : BOOLEAN]
    /\ streak = NoStreak /\ baseline = None /\ structure = Unfetched /\ scalp = Unseen
    /\ cycle = Resting /\ opposed = 0 /\ alert = Unalerted

-----------------------------------------------------------------------------
Following(phase) == Phases[SelectInSeq(Phases, LAMBDA p : p = phase) + 1]

Done(phase)   == cycle' = [cycle EXCEPT !.at = Following(phase)]
Failed(phase) == IF phase \in Isolated THEN Done(phase) ELSE cycle' = Resting
Quiet == alert' = [alert EXCEPT !.sent = FALSE]

\* A closed market is looked at again later, unless the developer asked for its last data.
Begin ==
    /\ cycle.at = "rest" /\ (market.open \/ market.dev)
    /\ cycle' = [Resting EXCEPT !.at = "quote", !.open = market.open]
    /\ scalp' = [own |-> FALSE, seen |-> FALSE]
    /\ Quiet /\ UNCHANGED <<market, streak, baseline, structure, opposed>>

\* The phases that change nothing of this module: done, left out while the market is closed, or
\* failed.  Without a quote, and for an index that has no chain, the cycle is over.
Plain(phase) ==
    /\ cycle.at = phase /\ phase \notin {"structure", "signal", "bias", "scalp", "publish"}
    /\ \/ Done(phase)
       \/ (phase \in Frozen => cycle.open) /\ Failed(phase)
       \/ phase \in {"quote", "dynamic"} /\ cycle' = Resting
    /\ Quiet /\ UNCHANGED <<market, streak, baseline, structure, scalp, opposed>>

StructureFrom(candles) == [done |-> candles, tried |-> 0, candles |-> candles]

\* Once a day, as soon as candles come; the attempt is noted before it is made.
Structure ==
    /\ cycle.at = "structure"
    /\ IF structure.tried >= Retry /\ ~structure.done
       THEN \/ \E candles \in BOOLEAN : structure' = StructureFrom(candles) /\ Done("structure")
            \/ structure' = [structure EXCEPT !.tried = 0] /\ Failed("structure")
       ELSE UNCHANGED structure /\ Done("structure")
    /\ Quiet /\ UNCHANGED <<market, streak, baseline, scalp, opposed>>

-----------------------------------------------------------------------------
\* apply_fake_signal_filter: a neutral reading is forgiven for a while.
Neutral(s) ==
    CASE s.bias = None          -> s
      [] s.bias # None /\ s.neutral > Longest -> [s EXCEPT !.neutral = 0]
      [] s.bias # None /\ s.neutral <= Longest /\ s.neutral > Grace -> NoStreak
      [] OTHER -> s

\* Mutant: a reversal inherits the age of the streak it ends.
DirectionalInherits(s, bias) == [s EXCEPT !.bias = bias, !.alerted = FALSE, !.neutral = Longest + 1]
Directional(s, bias) == [NoStreak EXCEPT !.bias = bias]

Filtered(s, bias) ==
    CASE bias = "neutral" -> Neutral(s)
      [] bias = s.bias    -> [s EXCEPT !.neutral = Longest + 1]
      [] OTHER            -> Directional(s, bias)

Signal ==
    /\ cycle.at = "signal"
    /\ \/ \E bias \in Biases \cup {"neutral"} :
             /\ streak' = Filtered(streak, bias)
             /\ opposed' = IF bias # "neutral" /\ bias # streak.bias THEN 0 ELSE opposed
             /\ cycle' = [cycle EXCEPT !.at = "levels", !.bias = bias]
       \/ Failed("signal") /\ UNCHANGED <<streak, opposed>>
    /\ Quiet /\ UNCHANGED <<market, baseline, structure, scalp>>

Confirmed == streak.bias = cycle.bias /\ streak.held >= Persistence /\ ~streak.alerted

Rebased == cycle.bias

\* The bias alert: a change from the baseline that has been held.
Bias ==
    /\ cycle.at = "bias"
    /\ IF baseline # None /\ cycle.bias # baseline /\ Confirmed
       THEN /\ alert' = [bias |-> cycle.bias, sent |-> TRUE]
            /\ baseline' = Rebased /\ streak' = [streak EXCEPT !.alerted = TRUE]
       ELSE /\ baseline' = IF baseline = None THEN cycle.bias ELSE baseline
            /\ Quiet /\ UNCHANGED streak
    /\ Done("bias")
    /\ UNCHANGED <<market, structure, scalp, opposed>>

\* The scalp engine evaluates, and only then adds this cycle's premium to its history.
Scalp ==
    /\ cycle.at = "scalp"
    /\ \/ scalp' = [own |-> TRUE, seen |-> scalp.own] /\ Done("scalp")
       \/ scalp' \in {scalp, [own |-> FALSE, seen |-> scalp.own], [own |-> TRUE, seen |-> scalp.own]} /\ Failed("scalp")
    /\ Quiet /\ UNCHANGED <<market, streak, baseline, structure, opposed>>

Publish ==
    /\ cycle.at = "publish" /\ cycle' = Resting
    /\ Quiet /\ UNCHANGED <<market, streak, baseline, structure, scalp, opposed>>

-----------------------------------------------------------------------------
Elapse ==
    /\ cycle.at = "rest"
    /\ streak' = [streak EXCEPT !.held = IF streak.bias = None THEN 0 ELSE Older(@),
                                !.neutral = IF @ > Longest THEN @ ELSE Older(@)]
    /\ structure' = [structure EXCEPT !.tried = Older(@)]
    /\ opposed' = Older(opposed)
    /\ Quiet /\ UNCHANGED <<market, baseline, scalp, cycle>>

\* Hours, weekends and the developer's switch; a new day makes the structure old.
Flip ==
    /\ market' \in [open : BOOLEAN, dev : BOOLEAN] /\ market' # market
    /\ structure' \in {structure, [structure EXCEPT !.done = FALSE, !.candles = FALSE]}
    /\ Quiet /\ UNCHANGED <<streak, baseline, scalp, cycle, opposed>>

Restart ==
    /\ streak' = NoStreak /\ baseline' = None /\ structure' = Unfetched /\ scalp' = Unseen
    /\ cycle' = Resting /\ opposed' = 0 /\ alert' = Unalerted
    /\ UNCHANGED market

Next ==
    \/ Begin \/ (\E p \in ToSet(Phases) : Plain(p)) \/ Structure \/ Signal \/ Bias \/ Scalp \/ Publish
    \/ Elapse \/ Flip \/ Restart

-----------------------------------------------------------------------------
\* A bias alert is about a bias that no reading has opposed for the whole persistence window,
\* whatever neutral readings, failed cycles and outages lay between.
AlertIsSustained == [][alert'.sent => opposed >= Persistence]_loop

\* Two alerts in a row of one process never announce the same bias: between them it changed and
\* the change was announced.
AlertsAlternate == [][(alert'.sent /\ alert.bias # None) => alert'.bias # alert.bias]_loop

\* A day counts as having its market structure only if candles of that day came.
DoneMeansFetched == structure.done => structure.candles

\* "Broke the recent high" is never decided against a history that holds the reading itself.
PriorReadingsOnly == scalp.own => ~scalp.seen
=============================================================================
