------------------------------ MODULE V3Signal -------------------------------
(* One symbol's S/R Engine V3 (sr_engine_v3.py, its part of app.py's loop):  *)
(* once a day yesterday's levels are validated from the recorded chain; every*)
(* cycle appends the price to today's readings, scores the rungs of the level*)
(* ladder, compares the probability that the best rung holds with the        *)
(* evidence that yesterday's level has been broken, and decides a trade.  The*)
(* engine is called by the live loop and by the replay of backtest.py.       *)
(* Rungs are strikes; a rung's option chain is one of a few named walls.     *)
EXTENDS Integers, Sequences, SequencesExt, FiniteSetsExt

CONSTANTS Resistances, Supports, \* the rungs of the ladder on each side
          Prices,      \* the readings of the underlying
          Walls,       \* kind of wall -> [wall, fake, near, unwinding]; "none" has no data
          Candles,     \* the candles a cycle may find complete
          Regimes,     \* regime -> [hold, break] multipliers in percent
          Threshold,   \* V3_CONFIDENCE_TRADE_THRESHOLD
          MaxReadings, \* the readings of today that are kept (5000)
          MaxDay,      \* bound: days after the first
          Nothing

VARIABLES caller,    \* "live" or "replay"
          day,       \* the date
          recorded,  \* day -> the best rungs of the last chain recorded that day, or Nothing
          validated, \* [date, of, levels]: the cached validation of an earlier day, or Nothing
          today,     \* the readings of the underlying since midnight, oldest first
          signal     \* the last signal, with the candle that was complete, or Nothing

v3 == <<caller, day, recorded, validated, today, signal>>

Sides     == {"resistance", "support"}
Rungs(s)  == IF s = "resistance" THEN Resistances ELSE Supports
Chains    == [Resistances \union Supports -> DOMAIN Walls]
Other(s)  == CHOOSE o \in Sides : o # s
Beyond(s, price, level) == IF s = "resistance" THEN price > level ELSE price < level

TypeOK == /\ caller \in {"live", "replay"}
          /\ day \in 0 .. MaxDay
          /\ recorded \in [0 .. MaxDay -> [Sides -> Resistances \union Supports] \union {Nothing}]
          /\ validated = Nothing \/ validated \in
                [date : 0 .. MaxDay, of : 0 .. MaxDay, levels : [Sides -> Resistances \union Supports]]
          /\ today \in Seq(Prices) /\ Len(today) <= MaxReadings
          /\ signal = Nothing \/
                /\ signal.side \in Sides /\ signal.lean \in {"extend", "hold"}
                /\ signal.level \in Rungs(signal.side)
                /\ {signal.confirmed, signal.executed} \subseteq BOOLEAN

Init == /\ caller \in {"live", "replay"}
        /\ day = 0 /\ today = <<>>
        /\ recorded = [d \in 0 .. MaxDay |-> Nothing]
        /\ validated = Nothing /\ signal = Nothing

------------------------------------------------------------------------------
\* Scores: analyze_oi_cluster, compute_v3_confidence, compute_hold_break_probability

Confidence == [kind \in DOMAIN Walls |->
    IF kind = "none" THEN 0
    ELSE (Walls[kind].wall * 50 + (100 - Walls[kind].fake) * 30 + Walls[kind].near * 20) \div 100]

\* The rung whose wall reads best, the nearest of them: the ladder is sorted by
\* the distance from the price, and the first maximum is taken.
Best(s, chain) ==
    CHOOSE r \in Rungs(s) : \A q \in Rungs(s) \ {r} :
        \/ Confidence[chain[r]] > Confidence[chain[q]]
        \/ /\ Confidence[chain[r]] = Confidence[chain[q]]
           /\ IF s = "resistance" THEN r < q ELSE r > q

HoldScore == [kind \in DOMAIN Walls, regime \in DOMAIN Regimes |->
    IF kind = "none" THEN 0
    ELSE LET raw == Walls[kind].wall * Regimes[regime].hold
                      - (Walls[kind].fake * Regimes[regime].break) \div 2
         IN  Max({5, Min({95, 50 + raw \div 200})})]

\* HELD until a reading of today is beyond the level; then FLIPPED while the
\* price is back on the old side, else BROKE.
Outcome(s, level, readings) ==
    IF \A i \in DOMAIN readings : ~Beyond(s, readings[i], level) THEN "HELD"
    ELSE IF readings # <<>> /\ Last(readings) # level /\ ~Beyond(s, Last(readings), level)
         THEN "FLIPPED" ELSE "BROKE"

\* The evidence that yesterday's level gives way: the price is beyond it, a
\* candle closed beyond it, its writers unwind, the next strike and the volume
\* build up (extra: none or both), the delta has the side's sign, the confidence is high.
Evidence(s, level, price, candles, chain, extra, confidence) ==
      (IF Beyond(s, price, level) THEN 1 ELSE 0)
    + (IF \E c \in candles : Beyond(s, c.close, level) THEN 1 ELSE 0)
    + (IF chain[level] # "none" /\ Walls[chain[level]].unwinding THEN 1 ELSE 0)
    + extra + 1
    + (IF confidence >= Threshold THEN 1 ELSE 0)

ExtendScore(s, levels, readings, price, candles, chain, extra, confidence) ==
    IF levels = Nothing THEN 0
    ELSE IF Outcome(s, levels[s], readings) = "HELD" THEN 0
    ELSE (Evidence(s, levels[s], price, candles, chain, extra, confidence) * 100) \div 6

\* A fade executes only once a candle touched the level and closed back from it.
Confirms(s, level, candles) ==
    \E c \in candles :
        /\ level \in {c.low, c.high}
        /\ IF s = "support" THEN c.close > c.open /\ c.close > level
                            ELSE c.close < c.open /\ c.close < level

\* The candles the engine finds in the market structure it is given: the live
\* loop has moved them out of it by then (structure.pop("recent_candles")).
InStructure(candle) == IF caller = "live" THEN {} ELSE {candle}

------------------------------------------------------------------------------
\* get_v3_previous_day_validation: the last recorded day before today, once a
\* day; nothing is cached while there is none.

\* Mutant: the newest recorded day is taken, today's own chain included.
PastOrToday == {d \in 0 .. MaxDay : d <= day /\ recorded[d] # Nothing}
Past        == {d \in 0 .. MaxDay : d < day /\ recorded[d] # Nothing}
Newest      == Max(Past)

Validation ==
    IF validated # Nothing /\ validated.date = day THEN validated
    ELSE IF Past = {} THEN Nothing
    ELSE [date |-> day, of |-> Newest, levels |-> recorded[Newest]]

Chosen(candidates, confidence) ==
    CHOOSE s \in candidates : \A o \in candidates \ {s} :
        confidence[s] > confidence[o] \/ (confidence[s] = confidence[o] /\ s = "resistance")

\* generate_v3_signal, what it reads of each side: the best rung, how sure its wall is,
\* and whether the evidence that the level gives way outweighs that it holds.
Reads(price, readings, levels, chain, candles, regime, extra) ==
    [s \in Sides |->
        LET best       == Best(s, chain)
            confidence == Confidence[chain[best]]
        IN  [level |-> best, confidence |-> confidence,
             extends |-> ExtendScore(s, levels, readings, price, candles, chain, extra, confidence)
                           >= HoldScore[chain[best], regime]]]

\* ... and what it makes of it, up to its last gate: the strike may have no premium, and
\* the reward may not pay for the risk.
Signal(price, readings, levels, chain, candle, regime, extra) ==
    LET candles    == InStructure(candle)
        reads      == Reads(price, readings, levels, chain, candles, regime, extra)
        confidence == [s \in Sides |-> reads[s].confidence]
        candidates == {s \in Sides : confidence[s] >= Threshold}
    IN  IF candidates = {} THEN Nothing
        ELSE LET s == Chosen(candidates, confidence)
             IN  [side |-> s, lean |-> IF reads[s].extends THEN "extend" ELSE "hold",
                  level |-> reads[s].level, confidence |-> confidence,
                  confirmed |-> Confirms(s, reads[s].level, {candle}),
                  executed |-> reads[s].extends \/ Confirms(s, reads[s].level, candles)]

Kept(price) == IF Len(today) < MaxReadings THEN Append(today, price)
               ELSE Append(Tail(today), price)

Cycle ==
    \E price \in Prices, chain \in Chains, candle \in Candles, regime \in DOMAIN Regimes,
       extra \in {0, 2} :
        /\ validated' = Validation
        /\ today' = Kept(price)
        /\ recorded' = [recorded EXCEPT ![day] = [s \in Sides |-> Best(s, chain)]]
        /\ signal' \in {Nothing, Signal(price, today',
                            IF validated' = Nothing THEN Nothing ELSE validated'.levels,
                            chain, candle, regime, extra)}
        /\ UNCHANGED <<caller, day>>

\* The buffers are keyed by the date: the next cycle finds another one.
Midnight == /\ day < MaxDay
            /\ day' = day + 1
            /\ today' = <<>> /\ signal' = Nothing
            /\ UNCHANGED <<caller, recorded, validated>>

\* What is only in memory is lost; the recorded days are not.
Restart == /\ caller = "live"
           /\ validated' = Nothing /\ today' = <<>> /\ signal' = Nothing
           /\ UNCHANGED <<caller, day, recorded>>

Next == Cycle \/ Midnight \/ Restart

Spec == Init /\ [][Next]_v3

------------------------------------------------------------------------------
\* No breakout is traded before yesterday's level on its side has been crossed
\* by a reading of today: evidence counts only for a level that broke.
BreakoutsFollowABreak ==
    signal # Nothing /\ signal.lean = "extend" =>
        /\ validated # Nothing
        /\ \E i \in DOMAIN today : Beyond(signal.side, today[i], validated.levels[signal.side])

\* The levels of today are those of a day that was over before today began,
\* also after a restart in the middle of a day that has recorded cycles.
LevelsOfAPastDay ==
    validated # Nothing => validated.of < validated.date

\* With two tradeable sides, the one whose wall reads surer is traded.
SurerSideTrades ==
    signal # Nothing =>
        signal.confidence[signal.side] >= signal.confidence[Other(signal.side)]
==============================================================================
