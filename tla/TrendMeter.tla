----------------------------- MODULE TrendMeter ------------------------------
(* compute_new_trend_meter of oi_engine.py, as app.py's loop calls it: five   *)
(* scores of the option chain, and Ichimoku's when its engine answered, are   *)
(* weighted by the regime and give a recommendation.  The ratio's own score is*)
(* taken against the readings kept, this cycle's already among them.         *)
EXTENDS Integers, Sequences, SequencesExt, FiniteSetsExt

CONSTANTS Ratios,    \* put-call ratios, in hundredths
          Scores,    \* scores of money flow, OI balance, price against VWAP, greeks
          Ichimoku,  \* Ichimoku's direction times its confidence, or Absent
          Absent,
          Kept       \* readings kept

VARIABLES ratios, \* the ratios kept, oldest first
          cycle   \* the inputs and the result of this cycle, or Absent between two cycles

trend == <<ratios, cycle>>

Parts   == {"money_flow", "oi_balance", "pcr", "price_vwap", "greeks"}
Actions == {"STRONG BUY", "BUY", "WAIT", "SELL", "STRONG SELL"}

TypeOK == /\ ratios \in Seq(Ratios) /\ Len(ratios) <= Kept
          /\ cycle = Absent \/ (cycle.final \in -100 .. 100 /\ cycle.recommendation \in Actions
                                /\ cycle.confidence \in 0 .. 100)

Init == ratios = <<>> /\ cycle = Absent

\* round of Python: to the nearest, a tie to the even neighbour.
Round(n, d) == LET q == n \div d r == n % d
               IN  IF 2 * r > d \/ (2 * r = d /\ q % 2 = 1) THEN q + 1 ELSE q
Clamp(n)    == Max({-100, Min({100, n})})
Total(f)    == f["money_flow"] + f["oi_balance"] + f["pcr"] + f["price_vwap"] + f["greeks"]
                 + (IF "ichimoku" \in DOMAIN f THEN f["ichimoku"] ELSE 0)

\* The score of the ratio: a move of a fifth of the mean of the last three is full.
PcrScore(kept, pcr) ==
    LET sum == kept[Len(kept)] + kept[Len(kept) - 1] + kept[Len(kept) - 2]
    IN  IF Len(kept) < 3 THEN 0 ELSE Clamp(Round((3 * pcr - sum) * 500, sum))

\* Base weights in thousandths, and the factors of the regime in tenths.
Base == [money_flow |-> 350, oi_balance |-> 250, pcr |-> 150, price_vwap |-> 150, greeks |-> 100]

\* Mutant: in a trend Ichimoku weighs as much as three other parts.
FactorGreedy(k, regime, volatile, expiry) ==
    IF k = "ichimoku" /\ regime = "TRENDING" THEN 5000 ELSE 1000
Factor(k, regime, volatile, expiry) ==
      (CASE regime = "TRENDING" /\ k = "ichimoku" -> 14
         [] regime = "RANGING" /\ k = "ichimoku" -> 5
         [] regime = "RANGING" /\ k \in {"oi_balance", "price_vwap", "pcr"} -> 13
         [] OTHER -> 10)
    * (IF volatile /\ k = "oi_balance" THEN 12 ELSE 10)
    * (CASE expiry /\ k = "oi_balance" -> 15 [] expiry /\ k = "pcr" -> 13
         [] expiry /\ k = "ichimoku" -> 5    [] OTHER -> 10)

\* The multipliers of a regime that concern Ichimoku's presence only apply with it.
Regimes == {"TRENDING", "RANGING", "UNKNOWN"}
Weights == [with \in BOOLEAN, regime \in Regimes, volatile \in BOOLEAN, expiry \in BOOLEAN |->
    [k \in (IF with THEN Parts \union {"ichimoku"} ELSE Parts) |->
        (IF k = "ichimoku" THEN 200 ELSE (Base[k] * (IF with THEN 8 ELSE 10)) \div 10)
          * Factor(k, IF with THEN regime ELSE "UNKNOWN", volatile, expiry)]]

Mean(scores, weights, S) ==
    Clamp(Round(Total([k \in S |-> scores[k] * weights[k]]), Total([k \in S |-> weights[k]])))

Zone(final) ==
    CASE final >= 80 -> "STRONG BULLISH" [] final \in 50 .. 79 -> "BULLISH" [] final \in 20 .. 49 -> "MILD BULLISH"
      [] final \in -19 .. 19 -> "SIDEWAYS" [] final \in -49 .. -20 -> "MILD BEARISH"
      [] final \in -79 .. -50 -> "BEARISH" [] final <= -80 -> "STRONG BEARISH"

Sign(n) == IF n > 0 THEN 1 ELSE IF n < 0 THEN -1 ELSE 0

\* Ichimoku contradicts the others when both are worth ten points; it makes the
\* meter wait unless two of them are at forty on their side.
Contradicted(scores, others) ==
    /\ "ichimoku" \in DOMAIN scores
    /\ Sign(others) * others >= 10 /\ Sign(scores["ichimoku"]) * scores["ichimoku"] >= 10
    /\ Sign(others) # Sign(scores["ichimoku"])
Overruled(scores, others) == Cardinality({k \in Parts : Sign(others) * scores[k] >= 40}) >= 2

Decide(scores, regime, volatile, expiry, volume) ==
    LET weights  == Weights["ichimoku" \in DOMAIN scores, regime, volatile, expiry]
        final    == Mean(scores, weights, DOMAIN scores)
        others   == Mean(scores, weights, Parts)
        agreeing == {k \in DOMAIN scores : Sign(final) # 0 /\ Sign(scores[k]) = Sign(final)}
        forced   == Contradicted(scores, others) /\ ~Overruled(scores, others)
        majority == Cardinality(agreeing) >= Cardinality(DOMAIN scores) \div 2 + 1
        agreed   == Round(Cardinality(agreeing) * 100, Cardinality(DOMAIN scores))
        kept     == IF forced THEN Round(agreed, 2) ELSE agreed
    IN  [final |-> final, others |-> others, zone |-> Zone(final),
         confidence |-> IF volume THEN kept ELSE Round(kept * 6, 10),
         recommendation |-> CASE forced \/ final \in -20 .. 20 -> "WAIT"
                              [] ~forced /\ final > 20 ->
                                    IF final >= 70 /\ majority THEN "STRONG BUY" ELSE "BUY"
                              [] ~forced /\ final < -20 ->
                                    IF final <= -70 /\ majority THEN "STRONG SELL" ELSE "SELL"]

------------------------------------------------------------------------------
\* Near the money nothing was traded: no money flows.
Weigh == /\ cycle = Absent
         /\ \E ratio \in Ratios, chosen \in [Parts \ {"pcr"} -> Scores], ichimoku \in Ichimoku \union {Absent},
              regime \in Regimes, volatile, expiry, volume \in BOOLEAN :
              LET kept   == IF Len(ratios) = Kept THEN Append(Tail(ratios), ratio) ELSE Append(ratios, ratio)
                  five   == [k \in Parts |-> CASE k = "pcr" -> PcrScore(kept, ratio)
                                                [] k = "money_flow" /\ ~volume -> 0
                                                [] OTHER -> chosen[k]]
                  scores == IF ichimoku = Absent THEN five
                            ELSE [k \in Parts \union {"ichimoku"} |-> IF k = "ichimoku" THEN ichimoku ELSE five[k]]
                  result == Decide(scores, regime, volatile, expiry, volume)
                  mirror == Decide([k \in DOMAIN scores |-> -scores[k]], regime, volatile, expiry, volume)
              IN  /\ ratios' = kept
                  /\ cycle' = [final |-> result.final, others |-> result.others,
                               recommendation |-> result.recommendation, confidence |-> result.confidence,
                               zone |-> result.zone, mirror |-> mirror.zone]

Show == cycle # Absent /\ cycle' = Absent /\ UNCHANGED ratios

Next == Weigh \/ Show

------------------------------------------------------------------------------
(* However it is weighted, Ichimoku never turns the recommendation against    *)
(* the option chain: a purchase needs the other five not to lean the other    *)
(* way by ten points or more, even where they overrule the forced wait.       *)
NeverAgainstTheChain ==
    cycle # Absent =>
        /\ cycle.recommendation \in {"BUY", "STRONG BUY"} => cycle.others > -10
        /\ cycle.recommendation \in {"SELL", "STRONG SELL"} => cycle.others < 10

(* The scale has no side: the mirrored scores read as the mirrored zone.      *)
ScaleIsSymmetric ==
    LET Mirrored == [z \in {"STRONG BULLISH", "BULLISH", "MILD BULLISH", "SIDEWAYS",
                            "MILD BEARISH", "BEARISH", "STRONG BEARISH"} |->
                        CASE z = "STRONG BULLISH" -> "STRONG BEARISH" [] z = "BULLISH" -> "BEARISH"
                          [] z = "MILD BULLISH" -> "MILD BEARISH" [] z = "SIDEWAYS" -> "SIDEWAYS"
                          [] z = "MILD BEARISH" -> "MILD BULLISH" [] z = "BEARISH" -> "BULLISH"
                          [] z = "STRONG BEARISH" -> "STRONG BULLISH"]
    IN  cycle # Absent => cycle.mirror = Mirrored[cycle.zone]
==============================================================================
