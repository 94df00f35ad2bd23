------------------------------ MODULE OISignal -------------------------------
(* The open-interest engine of one symbol (oi_engine.py as app.py's loop     *)
(* calls it): every cycle the strikes beside the money are classified, a bias*)
(* is read from them and from the readings stored before this cycle, the     *)
(* conviction is counted, a signal with a stop and a target is made, and the *)
(* trend meter is moved.  PCRs are in tenths, premiums in paise, a price unit *)
(* is the flat trend threshold of 0.05% of the underlying.                   *)
EXTENDS Integers, Sequences, SequencesExt, FiniteSetsExt

CONSTANTS Prices,    \* readings of the underlying
          Step,      \* distance of the strikes
          Pcrs,      \* put-call ratios
          Ranges,    \* fourteen-candle ranges; 0: not computed yet
          Premiums,  \* premiums of the option at the money
          Walls,     \* lists of walls, the heaviest first, by distance from the money
          Momentum,  \* regime -> the trend meter's multiplier in tenths
          Evidence,  \* what may speak for a trade: [own, level, extra, confirmed], extra being
                     \* the sum for volume, momentum, second source and order flow
          Delta,     \* paise the premium moves for one unit of distance
          Kept,      \* readings kept (the last five count)
          Nothing

VARIABLES history, \* readings stored by earlier cycles, oldest first
          reading, \* this cycle's bias and ratio, or Nothing between two cycles
          signal   \* this cycle's signal and meter, or Nothing

oi == <<history, reading, signal>>

Kinds   == {"Long Buildup", "Short Buildup", "Short Covering", "Long Unwinding", "Neutral"}
Unwinds == {"Short Covering", "Long Unwinding"}
Bullish == {"BULLISH BREAKOUT", "BULLISH ATM SIGNAL", "BULLISH BIAS", "REVERSAL UP RISK"}
Bearish == {"BEARISH BREAKDOWN", "BEARISH ATM SIGNAL", "BEARISH BIAS", "REVERSAL DOWN RISK"}
Breaks  == {"BULLISH BREAKOUT", "BEARISH BREAKDOWN"}
Fades   == {"REVERSAL UP RISK", "REVERSAL DOWN RISK"}

TypeOK == /\ history \in Seq([ltp : Prices, pcr : Pcrs]) /\ Len(history) <= Kept
          /\ reading = Nothing \/
                reading.bias \in Bullish \union Bearish \union {"PINNING / RANGE", "NEUTRAL / RANGE"}
          /\ signal = Nothing \/
                /\ signal.direction \in {"CE", "PE", "NO_TRADE"}
                /\ signal.confidence \in 0 .. 95 /\ signal.meter \in 0 .. 100

Init == history = <<>> /\ reading = Nothing /\ signal = Nothing

Sign(n) == IF n > 0 THEN 1 ELSE IF n < 0 THEN -1 ELSE 0
Clamp(low, high, n) == Max({low, Min({high, n})})

------------------------------------------------------------------------------

CallLean(kind) == CASE kind \in {"Long Buildup", "Short Covering"}  -> 1
                    [] kind \in {"Short Buildup", "Long Unwinding"} -> -1
                    [] kind = "Neutral" -> 0

\* find_atm, and calc_recent_price_trend: the trend of the stored readings, this
\* cycle's own is not among them.
AtmOf(price)  == ((price + Step \div 2) \div Step) * Step
Trend         == IF Len(history) < 2 THEN 0 ELSE Last(history).ltp - Head(history).ltp
Needed(range) == Max({1, (range * 15) \div 100})

Confirms(sign, range)       == sign * Trend > Needed(range)

\* detect_bias: the first rule that applies; ce and pe are the kinds of the
\* nearest strikes above and below the money.
Bias(ce, pe, price, atmChange, pcr, range) ==
    IF ce = "Short Buildup" /\ pe = "Short Buildup" THEN "PINNING / RANGE"
    ELSE IF ce = "Short Buildup" /\ pe \in Unwinds /\ pcr < 10 THEN "REVERSAL DOWN RISK"
    ELSE IF pe = "Short Buildup" /\ ce \in Unwinds /\ pcr > 10 THEN "REVERSAL UP RISK"
    ELSE IF price > AtmOf(price) /\ atmChange < 0 THEN "BULLISH ATM SIGNAL"
    ELSE IF price < AtmOf(price) /\ atmChange > 0 THEN "BEARISH ATM SIGNAL"
    ELSE IF ce = "Short Buildup" /\ pcr < 10 THEN "REVERSAL DOWN RISK"
    ELSE IF pe = "Short Buildup" /\ pcr > 10 THEN "REVERSAL UP RISK"
    ELSE IF ce = "Short Covering" THEN "BULLISH BREAKOUT"
    ELSE IF pe = "Short Covering" THEN "BEARISH BREAKDOWN"
    ELSE IF pcr > 15 /\ Confirms(1, range) THEN "BULLISH BIAS"
    ELSE IF pcr < 7 /\ Confirms(-1, range) THEN "BEARISH BIAS"
    ELSE "NEUTRAL / RANGE"

\* compute_conviction_strength: four leans, the ratio's against the mean of the
\* last three stored, the volume's on the side the build-up leans to.
PcrLean(pcr) ==
    LET sum == FoldSeq(LAMBDA r, s : s + r.pcr, 0, SubSeq(history, Len(history) - 2, Len(history)))
    IN  CASE Len(history) < 3 -> 0
          [] Len(history) >= 3 -> IF 300 * pcr > 102 * sum THEN 1
                                  ELSE IF 300 * pcr < 98 * sum THEN -1 ELSE 0

VolumeLean(net, expanded)        == IF expanded THEN Sign(net) ELSE 0

Conviction(ce, pe, pcr, expanded) ==
    LET net   == CallLean(ce) - CallLean(pe)
        leans == <<CallLean(ce), -CallLean(pe), PcrLean(pcr), VolumeLean(net, expanded)>>
        way   == Sign(leans[1] + leans[2] + leans[3] + leans[4])
    IN  [way |-> way, net |-> net,
         score |-> IF way = 0 THEN 0 ELSE Cardinality({i \in 1 .. 4 : leans[i] = way})]

------------------------------------------------------------------------------
\* generate_signal

Direction(bias) == CASE bias \in Bullish -> "CE" [] bias \in Bearish -> "PE"
                     [] bias \notin Bullish \union Bearish -> "NO_TRADE"

\* own: the option at the money is being covered or written; level: what the
\* structure says of a major level; confirmed: a level stands at the wall.
Rated(bias, pcr, regime, e) ==
    LET regimeBonus == CASE regime = "TRENDING" /\ bias \in Breaks -> 15
                         [] regime = "TRENDING" /\ bias \in Fades  -> -20
                         [] regime = "RANGING"  /\ bias \in Fades  -> 15
                         [] regime = "RANGING"  /\ bias \in Breaks -> -15
                         [] OTHER -> 0
        first == 50 + (IF pcr > 13 \/ pcr < 7 THEN 15 ELSE 0) + (IF e.own THEN 15 ELSE 0)
                    + (IF bias \in Breaks THEN 10 ELSE 0) + e.extra + regimeBonus
                    + (CASE e.level = "near" -> 20 [] e.level = "far" -> -30 [] e.level = "unknown" -> 0)
    IN  Clamp(20, 95, Clamp(20, 95, first) + (IF e.confirmed THEN 15 ELSE 0))

Distance(w) == IF w < 0 THEN -w ELSE w

\* The walls on the other side of the money: beyond the nearest of them the trade
\* has failed; one strike away when none of the heaviest three is there.
Opposing(direction, walls) == {w \in Range(walls) : IF direction = "CE" THEN w < 0 ELSE w > 0}

\* Mutant: the heaviest of the opposing walls is taken, however far it is.
InvalidationHeaviest(direction, walls) ==
    IF Opposing(direction, walls) = {} THEN Step
    ELSE Distance(SelectSeq(walls, LAMBDA w : w \in Opposing(direction, walls))[1])
Invalidation(direction, walls) ==
    IF Opposing(direction, walls) = {} THEN Step
    ELSE Min({Distance(w) : w \in Opposing(direction, walls)})

Stop(entry, distance)      == Max({5, entry - distance * Delta, (entry * 65) \div 100})

\* The target is projected from the distance of the heaviest wall, on whichever
\* side of the money it stands.
Target(entry, walls) ==
    entry + Max({(IF walls = <<>> THEN 0 ELSE Distance(walls[1])) * Delta, (entry * 15) \div 100})

\* compute_trend_meter
Lean(bias) == CASE bias = "BULLISH BREAKOUT" -> 20  [] bias = "BULLISH ATM SIGNAL" -> 16
                [] bias = "BULLISH BIAS" -> 12      [] bias = "REVERSAL UP RISK" -> 8
                [] bias = "BEARISH BREAKDOWN" -> -20 [] bias = "BEARISH ATM SIGNAL" -> -16
                [] bias = "BEARISH BIAS" -> -12     [] bias = "REVERSAL DOWN RISK" -> -8
                [] bias = "PINNING / RANGE" -> -5   [] bias = "NEUTRAL / RANGE" -> 0

PcrPart(pcr)          == Clamp(-25, 25, ((pcr - 10) * 25) \div 10)

Meter(bias, pcr, regime, direction, tradeable) ==
    LET push == IF ~tradeable THEN 0 ELSE IF direction = "CE" THEN 10 ELSE -10
    IN  Clamp(0, 100, 50 + ((PcrPart(pcr) + Lean(bias)) * Momentum[regime]) \div 10 + push)

------------------------------------------------------------------------------
Read == /\ reading = Nothing
        /\ \E ce, pe \in Kinds, price \in Prices, change \in {-1, 0, 1}, pcr \in Pcrs, range \in Ranges :
              reading' = [bias |-> Bias(ce, pe, price, change, pcr, range), ltp |-> price, pcr |-> pcr,
                          quiet |-> /\ {ce, pe} \subseteq {"Neutral", "Long Buildup", "Long Unwinding"}
                                    /\ change = 0]
        /\ UNCHANGED <<history, signal>>

Refuse == /\ reading # Nothing /\ signal = Nothing
          /\ \E regime \in DOMAIN Momentum :
                signal' = [direction |-> "NO_TRADE", confidence |-> 0, tradeable |-> FALSE,
                           meter |-> Meter(reading.bias, reading.pcr, regime, "NO_TRADE", FALSE)]
          /\ Direction(reading.bias) = "NO_TRADE"
          /\ UNCHANGED <<history, reading>>

Plan == /\ reading # Nothing /\ signal = Nothing /\ Direction(reading.bias) # "NO_TRADE"
        /\ \E entry \in Premiums, above, below \in Walls, regime \in DOMAIN Momentum, e \in Evidence :
              LET direction == Direction(reading.bias)
                  ahead     == IF direction = "CE" THEN above ELSE below
                  behind    == IF direction = "CE" THEN below ELSE above
                  rated     == Rated(reading.bias, reading.pcr, regime, e)
                  nearest   == Invalidation(direction, behind)
              IN  signal' = [direction |-> direction, confidence |-> rated, tradeable |-> rated >= 60,
                             entry |-> entry, stop |-> Stop(entry, nearest), target |-> Target(entry, ahead),
                             crossed |-> {w \in Opposing(direction, behind) : Distance(w) < nearest},
                             meter |-> Meter(reading.bias, reading.pcr, regime, direction, rated >= 60)]
        /\ UNCHANGED <<history, reading>>

\* The snapshot is shown and the reading joins the stored ones.
Store == /\ signal # Nothing
         /\ LET h == Append(history, [ltp |-> reading.ltp, pcr |-> reading.pcr])
            IN  history' = IF Len(h) > Kept THEN Tail(h) ELSE h
         /\ reading' = Nothing /\ signal' = Nothing

Next == Read \/ Refuse \/ Plan \/ Store

------------------------------------------------------------------------------
(* Where nobody writes or covers beside the money, only a ratio that the      *)
(* price has already moved with gives a direction (detect_bias: "PCR alone    *)
(* must NEVER set a directional bias").                                       *)
PcrAloneIsNoTrigger ==
    reading # Nothing /\ reading.quiet =>
        /\ reading.bias \in Bullish => Trend > 1 /\ reading.pcr > 15
        /\ reading.bias \in Bearish => Trend < -1 /\ reading.pcr < 7

(* A plan never risks more than 35% of its premium, and what it aims at is at  *)
(* least 15% away; only an option at five paise has its stop at its price.    *)
RiskIsBounded ==
    signal # Nothing /\ signal.direction # "NO_TRADE" =>
        /\ 100 * (signal.entry - signal.stop) <= 35 * signal.entry + 99
        /\ signal.entry > 5 => signal.stop < signal.entry
        /\ signal.target >= signal.entry + (signal.entry * 15) \div 100

(* The stop stands at the nearest opposing wall: no wall of the other side     *)
(* lies between it and the money.                                             *)
NoWallInFrontOfTheStop == signal # Nothing /\ signal.direction # "NO_TRADE" => signal.crossed = {}

(* The gauge never points against the trade shown beside it, whatever the      *)
(* ratio says: a tradeable call is never read below neutral, a put above it.  *)
MeterNeverContradictsTrade ==
    signal # Nothing /\ signal.tradeable =>
        IF signal.direction = "CE" THEN signal.meter > 45 ELSE signal.meter < 55

(* A conviction of three or more has the build-up of the option chain behind   *)
(* it: the ratio and the volume alone never make it.                          *)
ConvictionIsBuiltUp ==
    reading = Nothing => \A ce, pe \in Kinds, pcr \in Pcrs, expanded \in BOOLEAN :
        LET c == Conviction(ce, pe, pcr, expanded) IN c.score >= 3 => Sign(c.net) = c.way
==============================================================================
