------------------------------ MODULE Ichimoku ------------------------------
(* The Ichimoku engine as its replay uses it (ichimoku_engine.py,            *)
(* IchimokuLiveEngine): each new candle joins a buffer of bounded length and *)
(* the whole analysis is taken from that buffer alone.  The periods are      *)
(* constants, so that a short instance keeps the proportions of 9/26/52 with *)
(* a displacement of 26.  A level is in quarter points, so that the mean of  *)
(* two means is a whole number.  ADX, VWAP and volume are given.             *)
EXTENDS Integers, Sequences, FiniteSetsExt

CONSTANTS Tenkan, Kijun, SenkouB, \* the three periods
          Displacement, Margin,
          Breakout, Rejection, Lookback, \* candles looked back at
          Candles,                \* records of low, high and close
          Outside,                \* records of adx, vwap, volume and atr
          Length,                 \* candles ever pushed
          Nothing

VARIABLES candles, \* every candle there was
          window,  \* the buffer of the engine
          snap     \* the last snapshot, or Nothing

ichimoku == <<candles, window, snap>>

\* Mutant: the buffer holds what the cloud of today needs, and nothing of the days before.
WindowBare == SenkouB + Displacement
\* IchimokuLiveEngine: deque(maxlen=...)
Window == SenkouB + Displacement + Margin

Init == candles = <<>> /\ window = <<>> /\ snap = Nothing

------------------------------------------------------------------------------
(* calculate_ichimoku: every line at candle i of s, Nothing for NaN.         *)
Middle(s, i, period) ==
    IF i < period THEN Nothing
    ELSE 2 * (Max({s[j].high : j \in i - period + 1 .. i}) + Min({s[j].low : j \in i - period + 1 .. i}))

FutureA(s, i) == IF i < Kijun THEN Nothing ELSE (Middle(s, i, Tenkan) + Middle(s, i, Kijun)) \div 2
FutureB(s, i) == Middle(s, i, SenkouB)

\* max and min of Python keep their first argument when the second is NaN: until there is a
\* Senkou B, the cloud of detect_cloud_events is the line Senkou A.
Edges(s, i) ==
    IF i <= Displacement \/ FutureA(s, i - Displacement) = Nothing THEN Nothing
    ELSE LET a == FutureA(s, i - Displacement)
             b == FutureB(s, i - Displacement)
         IN  IF b = Nothing THEN [top |-> a, bottom |-> a] ELSE [top |-> Max({a, b}), bottom |-> Min({a, b})]

\* cloud_values_at: a real cloud has both lines.
Cloud(s) == IF Len(s) < SenkouB + Displacement THEN Nothing ELSE Edges(s, Len(s))

Price(s, i) == 4 * s[i].close
Stance(s) == LET cloud == Cloud(s) price == Price(s, Len(s))
             IN  IF cloud = Nothing THEN "Unknown"
                 ELSE IF price > cloud.top THEN "Above Cloud"
                 ELSE IF price < cloud.bottom THEN "Below Cloud" ELSE "Inside Cloud"

Sign(x) == IF x > 0 THEN 1 ELSE IF x < 0 THEN -1 ELSE 0
Abs(x) == IF x < 0 THEN -x ELSE x
Last(s, count) == {i \in Len(s) - count .. Len(s) - 1 : i >= 1}

\* detect_cloud_events
Events(s) ==
    LET seen(count) == {i \in Last(s, count) : Edges(s, i) # Nothing}
        n == Len(s)
        turned(i) == Sign(FutureA(s, i) - FutureB(s, i))
    IN  [breakout  |-> /\ Stance(s) = "Above Cloud"
                       /\ \E i \in seen(Breakout) : Price(s, i) <= Edges(s, i).top,
         breakdown |-> /\ Stance(s) = "Below Cloud"
                       /\ \E i \in seen(Breakout) : Price(s, i) >= Edges(s, i).bottom,
         bounce    |-> IF /\ Stance(s) = "Above Cloud"
                          /\ \E i \in seen(Rejection) :
                                Price(s, i) > Edges(s, i).top /\ 4 * s[i].low <= Edges(s, i).top
                       THEN "Bullish"
                       ELSE IF /\ Stance(s) = "Below Cloud"
                               /\ \E i \in seen(Rejection) :
                                     Price(s, i) < Edges(s, i).bottom /\ 4 * s[i].high >= Edges(s, i).bottom
                       THEN "Bearish" ELSE "None",
         twist     |-> n > SenkouB /\ turned(n) # 0 /\ turned(n - 1) = -turned(n),
         future    |-> IF n > SenkouB THEN turned(n) ELSE 0]

\* tenkan_kijun_cross
Spread(s, i) == Middle(s, i, Tenkan) - Middle(s, i, Kijun)
Cross(s) ==
    IF Len(s) <= Kijun THEN 0
    ELSE LET before == Spread(s, Len(s) - 1) now == Spread(s, Len(s))
         IN  IF before <= 0 /\ now > 0 THEN 1 ELSE IF before >= 0 /\ now < 0 THEN -1 ELSE 0
\* A cross on the right side of the cloud, or inside it, is golden (or deadly).
Golden(s) == /\ Cross(s) # 0
             /\ Stance(s) \in {"Inside Cloud", IF Cross(s) > 0 THEN "Above Cloud" ELSE "Below Cloud"}

\* chikou_analysis
Chikou(s) == IF Len(s) <= Displacement THEN 0
             ELSE LET then == s[Len(s) - Displacement] now == s[Len(s)].close
                  IN  IF now > then.high THEN 1 ELSE IF now < then.low THEN -1 ELSE 0

\* momentum_analysis: the spread needs Lookback + 1 candles, the slope one more.
Momentum(s, atr) ==
    LET n == Len(s)
        slope(i) == Abs(Middle(s, i, Tenkan) - Middle(s, i - 1, Tenkan))
        enough == n >= Lookback + 2 /\ n - Kijun + 1 >= Lookback + 1
        weaker == Abs(Spread(s, n)) < Abs(Spread(s, n - Lookback))
        far    == 2 * Abs(Price(s, n) - Middle(s, n, Kijun)) > 5 * 4 * atr
    IN  [accelerates |-> enough /\ Abs(Spread(s, n)) > Abs(Spread(s, n - Lookback)),
         increases   |-> enough /\ n - Tenkan + 1 >= Lookback + 2 /\ slope(n) > slope(n - Lookback),
         exhausted   |-> enough /\ far,
         reversal    |-> enough /\ far /\ weaker]

\* dynamic_support_resistance: a level the price stands on is a support.
Levels(s) == {Middle(s, Len(s), Tenkan), Middle(s, Len(s), Kijun)}
                 \cup (IF Cloud(s) = Nothing THEN {} ELSE {Cloud(s).top, Cloud(s).bottom})
\* Within half an ATR of a resistance above, or of a support below.
Blocked(s, atr, side) ==
    \E l \in Levels(s) : IF side = 1 THEN l > Price(s, Len(s)) /\ l - Price(s, Len(s)) <= 2 * atr
                                      ELSE l <= Price(s, Len(s)) /\ Price(s, Len(s)) - l <= 2 * atr

\* All of the analysis that is read off the lines.
Reading(s, atr) == [stance |-> Stance(s), cloud |-> Cloud(s), events |-> Events(s), cross |-> Cross(s),
                    golden |-> Golden(s), chikou |-> Chikou(s), momentum |-> Momentum(s, atr), levels |-> Levels(s)]

------------------------------------------------------------------------------
\* classify_trend, in quarters: 14 at most.
Score(s, atr) ==
    LET side  == IF Stance(s) = "Above Cloud" THEN 1 ELSE IF Stance(s) = "Below Cloud" THEN -1 ELSE 0
        cross == Cross(s) * (IF Golden(s) THEN 4 ELSE 2)
        lag   == IF Chikou(s) # 0 /\ Chikou(s) = side THEN side ELSE 0
        sum   == 4 * side + cross + 4 * lag + 2 * Events(s).future
    IN  IF Momentum(s, atr).reversal THEN sum \div 2 ELSE sum

\* classify_trend_stage
Stage(s, o) ==
    LET m == Momentum(s, o.atr)
        opposite == Cross(s) # 0 /\ Stance(s) = (IF Cross(s) > 0 THEN "Below Cloud" ELSE "Above Cloud")
    IN  IF Stance(s) \notin {"Above Cloud", "Below Cloud"} THEN "None"
        ELSE IF m.reversal \/ Events(s).twist \/ opposite THEN "Reversal Probability"
        ELSE IF m.exhausted THEN "Exhaustion"
        ELSE IF o.adx >= 25 THEN IF m.accelerates THEN "Strong Trend" ELSE "Mature Trend"
        ELSE IF o.adx >= 18 /\ m.increases THEN "Early Trend" ELSE "Trend Formation"

\* generate_ichimoku_signal: how many of the ten conditions hold for one side.  The average of
\* the closes is given as the side of it the price is on.
Agreeing(s, o, side) ==
    LET one(holds) == IF holds THEN 1 ELSE 0
        thick == Cloud(s) # Nothing /\ 10 * (Cloud(s).top - Cloud(s).bottom) > 3 * 4 * o.atr
    IN    one(Stance(s) = (IF side = 1 THEN "Above Cloud" ELSE "Below Cloud"))
        + one(side * Spread(s, Len(s)) > 0) + one(Events(s).future = side) + one(Chikou(s) = side)
        + one(thick) + one(o.adx >= 20) + one(o.ema = side) + one(o.volume) + one(o.vwap = side)
        + one(~Blocked(s, o.atr, side))

Signal(s, o) ==
    LET bull == Agreeing(s, o, 1) bear == Agreeing(s, o, -1)
    IN  IF Len(s) < Kijun + Displacement THEN "NO_TRADE"
        ELSE IF bull >= 5 /\ bull > bear THEN IF bull >= 7 THEN "STRONG BUY" ELSE "BUY"
        ELSE IF bear >= 5 /\ bear > bull THEN IF bear >= 7 THEN "STRONG SELL" ELSE "SELL"
        ELSE "WAIT"

\* compute_risk_management: of the stops on the side of the risk, the nearest.
Stops(s, atr, long) ==
    LET entry == Price(s, Len(s))
        all   == {entry + (IF long THEN -1 ELSE 1) * 6 * atr, Middle(s, Len(s), Kijun)}
                   \cup (IF Cloud(s) = Nothing THEN {} ELSE {IF long THEN Cloud(s).bottom ELSE Cloud(s).top})
    IN  {stop \in all : IF long THEN stop < entry ELSE stop > entry}

Risk(s, o, action) ==
    LET long == action \in {"BUY", "STRONG BUY"}
        stop == IF long THEN Max(Stops(s, o.atr, long)) ELSE Min(Stops(s, o.atr, long))
        entry == Price(s, Len(s))
    IN  IF action \in {"NO_TRADE", "WAIT"} \/ Stops(s, o.atr, long) = {} THEN Nothing
        ELSE [entry |-> entry, stop |-> stop, targets |-> [m \in 1 .. 3 |-> entry + m * (entry - stop)]]

------------------------------------------------------------------------------
\* push and snapshot: the analysis knows the buffer, and nothing older.
Analysis(s, o) ==
    IF Len(s) < Kijun + Displacement THEN [action |-> "NO_TRADE", outside |-> o]
    ELSE [action |-> Signal(s, o), outside |-> o, score |-> Score(s, o.atr), stage |-> Stage(s, o),
          reading |-> Reading(s, o.atr), risk |-> Risk(s, o, Signal(s, o))]

Pushed(c) == IF Len(window) = Window THEN Append(Tail(window), c) ELSE Append(window, c)

Push == /\ Len(candles) < Length
        /\ \E c \in Candles :
              /\ candles' = Append(candles, c)
              /\ window' = Pushed(c)
              /\ \E o \in Outside : snap' = Analysis(window', o)

\* update_forming_candle: the last candle is replaced, the buffer does not grow.
Form == /\ candles # <<>>
        /\ \E c \in Candles :
              /\ candles' = [candles EXCEPT ![Len(candles)] = c]
              /\ window' = [window EXCEPT ![Len(window)] = c]
              /\ snap' = Nothing

Next == Push \/ Form

------------------------------------------------------------------------------
TypeOK == /\ candles \in Seq(Candles) /\ Len(candles) <= Length
          /\ window \in Seq(Candles) /\ Len(window) <= Window
          /\ snap = Nothing \/ snap.outside \in Outside

\* The buffer is as long as the lines, the events and the momentum read off them need: the
\* reading of the bounded buffer is the reading of everything there ever was.
WindowSuffices ==
    snap # Nothing /\ snap.action # "NO_TRADE" => snap.reading = Reading(candles, snap.outside.atr)

\* The checklists of the two sides are written out by hand: a market upside down gives the
\* opposite signal and trend -- unless the price stands on a level, which reads as a support.
SidesMirror ==
    LET flipped == [i \in DOMAIN window |->
                       [low |-> -window[i].high, high |-> -window[i].low, close |-> -window[i].close]]
        outside == [snap.outside EXCEPT !.ema = -@, !.vwap = -@]
        other   == [x \in {"STRONG BUY", "BUY", "WAIT", "SELL", "STRONG SELL"} |->
                       CASE x = "STRONG BUY" -> "STRONG SELL" [] x = "BUY" -> "SELL" [] x = "SELL" -> "BUY"
                         [] x = "STRONG SELL" -> "STRONG BUY" [] OTHER -> "WAIT"]
    IN  snap # Nothing /\ snap.action # "NO_TRADE" /\ Price(window, Len(window)) \notin Levels(window) =>
            /\ Signal(flipped, outside) = other[snap.action]
            /\ Stage(flipped, outside) = snap.stage

\* Whatever the ATR, the cloud and the Kijun say, the stop of a planned trade is on the side of
\* its risk and its targets run away from it.
StopOnTheRightSide ==
    snap # Nothing /\ snap.action # "NO_TRADE" /\ snap.risk # Nothing =>
        LET r == snap.risk IN
        IF snap.action \in {"BUY", "STRONG BUY"}
        THEN r.stop < r.entry /\ r.entry < r.targets[1] /\ r.targets[2] < r.targets[3]
        ELSE r.stop > r.entry /\ r.entry > r.targets[1] /\ r.targets[2] > r.targets[3]
=============================================================================
