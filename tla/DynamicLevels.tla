--------------------------- MODULE DynamicLevels ---------------------------
(* The ladder of resistances and supports drawn from yesterday's range       *)
(* (dynamic_sr_engine.evaluate): extended to wherever the price is, and read *)
(* for a break by the latest candle.  The replays give it a candle at a      *)
(* time; the live loop has the candles of the day's one fetch and the price  *)
(* of the moment.  The trend of the two averages is an input.                *)
EXTENDS Integers, Sequences, FiniteSets, FiniteSetsExt, SequencesExt

CONSTANTS High, Low,     \* of yesterday; a multiple of four apart
          Candles,       \* records of open, high, low, close, volume and blackout
          Prices, Trends,
          Period,        \* of avg_volume
          Tradeable,     \* MIN_TRADEABLE_CONFIDENCE
          Nothing

VARIABLES window,   \* the latest candles, oldest first
          shown     \* what the last evaluation returned

levels == <<window, shown>>

Range1 == (High - Low) \div 2
Range2 == (High - Low) \div 4

Resistances == <<High, High + Range1, High - Range2>>
Supports    == <<Low, Low - Range1, Low + Range2>>

Init == window = <<>> /\ shown = Nothing

------------------------------------------------------------------------------
\* extend_levels: from the third rung on, not from the outermost one.
Steps(distance) == IF distance > 0 /\ Range1 > 0 THEN (distance + Range1 - 1) \div Range1 ELSE 0
Extended(rungs, side, price) ==
    LET last == rungs[Len(rungs)]
    IN  rungs \o [i \in 1 .. Steps(side * (price - last)) |-> last + side * i * Range1]

Body(c) == IF c.close > c.open THEN c.close - c.open ELSE c.open - c.close
Span(c) == c.high - c.low
\* _is_false_breakout: less than 30% of the candle is body.
FalseBreakout(c) == 10 * Body(c) < 3 * Span(c) \/ Span(c) = 0

\* avg_volume, as a sum over the period; Nothing when there are too few candles.
Volume(cs) == IF Len(cs) < Period THEN Nothing
              ELSE MapThenSumSet(LAMBDA i : cs[i].volume, (Len(cs) - Period + 1) .. Len(cs))
HasFeed(cs)   == Volume(cs) # Nothing /\ Volume(cs) > 0
Confirmed(cs) == HasFeed(cs) => Period * cs[Len(cs)].volume > Volume(cs)

Share(x, y, marks) == IF x <= 0 THEN 0 ELSE Min({marks, (marks * x) \div y})

\* compute_confidence, in tenths; momentum is a fraction of a per cent of the price and adds nothing.
Confidence(cs, distance, agrees) ==
    LET c == cs[Len(cs)]
    IN  (IF Range1 = 0 THEN 0 ELSE Share(distance, Range1, 400))
        + (IF HasFeed(cs) THEN Share(Period * c.volume, 2 * Volume(cs), 250) ELSE 250)
        + (IF Span(c) = 0 THEN 0 ELSE Share(Body(c), Span(c), 150))
        + (IF agrees THEN 100 ELSE 0)

Beyond(side, a, b) == side * (a - b) > 0

\* The rung of the highest index that the latest candle closed beyond and the one before had not.
Broken(cs, rungs, side) ==
    LET close == cs[Len(cs)].close
        hit   == {i \in DOMAIN rungs : /\ Beyond(side, close, rungs[i])
                                       /\ Len(cs) > 1 => ~Beyond(side, cs[Len(cs) - 1].close, rungs[i])}
    IN  IF hit = {} THEN 0 ELSE Max(hit)

\* Mutant: the rung before the broken one in the list.
StopByIndex(rungs, side, entry, broken) == rungs[Max({1, broken - 1})]
\* The nearest rung behind the entry by price; the other end of the range when there is none.
Stop(rungs, side, entry, broken) ==
    LET behind == {r \in Range(rungs) : Beyond(side, entry, r)}
    IN  IF behind = {} THEN (IF side = 1 THEN Low ELSE High) ELSE IF side = 1 THEN Max(behind) ELSE Min(behind)

\* One side of evaluate: 1 for a breakout, -1 for a breakdown.
Side(cs, rungs, side, trend) ==
    LET broken == Broken(cs, rungs, side)
        entry  == cs[Len(cs)].close
        agrees == trend = (IF side = 1 THEN "bullish" ELSE "bearish")
        marks  == Confidence(cs, side * (entry - rungs[broken]), agrees)
    IN  IF broken = 0 THEN Nothing
        ELSE IF ~Confirmed(cs) \/ ~agrees \/ FalseBreakout(cs[Len(cs)]) \/ marks < Tradeable THEN Nothing
        ELSE [side |-> side, entry |-> entry, stop |-> Stop(rungs, side, entry, broken), broken |-> rungs[broken],
              target |-> entry + side * Range1, confidence |-> marks]

Signal(cs, up, down, trend) ==
    IF cs[Len(cs)].blackout THEN Nothing
    ELSE LET buy == Side(cs, up, 1, trend) IN IF buy # Nothing THEN buy ELSE Side(cs, down, -1, trend)

Evaluation(cs, price, trend) ==
    LET up   == Extended(Resistances, 1, price)
        down == Extended(Supports, -1, price)
    IN  [price |-> price, trend |-> trend, resistances |-> up, supports |-> down, signal |-> Signal(cs, up, down, trend)]

\* A replay has reached another candle, whose close is the price.
Replayed == \E c \in Candles, trend \in Trends :
                /\ window' = LET w == Append(window, c) IN IF Len(w) > Period + 1 THEN Tail(w) ELSE w
                /\ shown' = Evaluation(window', c.close, trend)

\* The live loop evaluates the same candles again, at another price.
Repriced == /\ window # <<>>
            /\ \E price \in Prices, trend \in Trends : shown' = Evaluation(window, price, trend)
            /\ UNCHANGED window

Next == Replayed \/ Repriced

------------------------------------------------------------------------------
TypeOK == /\ window \in Seq(Candles) /\ Len(window) <= Period + 1
          /\ shown # Nothing => /\ shown.resistances \in Seq(Int) /\ shown.supports \in Seq(Int)
                                /\ shown.signal # Nothing => shown.signal.side \in {-1, 1} /\ shown.signal.confidence >= Tradeable

\* The ladder reaches the price however far it ran, and no further than one step past it.
LadderReaches ==
    shown # Nothing /\ Range1 > 0 =>
        /\ shown.price > Resistances[3] => Last(shown.resistances) - shown.price \in 0 .. (Range1 - 1)
        /\ shown.price < Supports[3] => shown.price - Last(shown.supports) \in 0 .. (Range1 - 1)

\* A stop is behind the entry, no rung lies between them, and the broken level does not lie behind the stop.
StopIsNearestRung ==
    shown # Nothing /\ shown.signal # Nothing =>
        LET s == shown.signal
        IN  /\ Beyond(s.side, s.entry, s.stop) /\ ~Beyond(s.side, s.broken, s.stop)
            /\ \A r \in Range(IF s.side = 1 THEN shown.resistances ELSE shown.supports) :
                  Beyond(s.side, s.entry, r) => ~Beyond(s.side, r, s.stop)

Mirrored(p) == High + Low - p
Upturned(c) == [c EXCEPT !.open = Mirrored(c.open), !.close = Mirrored(c.close),
                         !.high = Mirrored(c.low), !.low = Mirrored(c.high)]
Opposite(s) == IF s = Nothing THEN Nothing
               ELSE [s EXCEPT !.side = -s.side, !.entry = Mirrored(s.entry), !.stop = Mirrored(s.stop),
                              !.broken = Mirrored(s.broken), !.target = Mirrored(s.target)]
Against(trend) == CASE trend = "bullish" -> "bearish" [] trend = "bearish" -> "bullish" [] OTHER -> trend

\* Up and down are judged alike: everything turned over about the middle of the range gives the opposite signal.
SidesMirror ==
    shown # Nothing =>
        Evaluation([i \in DOMAIN window |-> Upturned(window[i])], Mirrored(shown.price), Against(shown.trend)).signal
            = Opposite(Evaluation(window, shown.price, shown.trend).signal)
=============================================================================
