---------------------------- MODULE MCDecisions -----------------------------
(***************************************************************************)
(* The parts that read the market and decide what to tell or to trade,     *)
(* checked side by side: each behaviour exercises one of them.             *)
(***************************************************************************)
EXTENDS Integers, Sequences, TLC

CONSTANTS Exercised, \* the parts that a run exercises
          Nothing

VARIABLES part,
          st, level_premiums, seen, resolved, opened,
          entering_premiums, volumes, best, entry,
          caller, v3_day, recorded, validated, today, v3_signal,
          learn_oi, learn_change, centers, drift, trades, learn_day, learned,
          oi_history, reading, oi_signal,
          ratios, cycle,
          evidence_history, table,
          candles, window, snap,
          structures, recent, qualify_signal, profile, failed, verdict

\* Quotes of a strike, rising ones and a missing one, and what the other evidence says.
Quote(ltp, vol, oi, chg) == [ltp |-> ltp, vol |-> vol, oi |-> oi, chg |-> chg]
Quoted == {Quote(100, 2, 4, 0), Quote(120, 4, 8, 4), Quote(140, 5, 8, 8), Quote(0, 5, 8, 8)}
Reading(vwap, regime, shape, wall, oi) ==
    [vwap |-> vwap, regime |-> regime, shape |-> shape, wall |-> wall, oi |-> oi]
Readings == {Reading("with", "TRENDING", "directional", TRUE, 100), Reading("unknown", "TRENDING", "directional", TRUE, 100),
             Reading("with", "RANGING", "directional", TRUE, 88), Reading("against", "none", "MIXED", FALSE, 60)}

\* Walls with no data, one that holds and one that gives way, in the V3 engine's evidence.
WallKinds == "none" :> [wall |-> 0, fake |-> 0, near |-> 0, unwinding |-> FALSE]
          @@ "firm" :> [wall |-> 80, fake |-> 10, near |-> 60, unwinding |-> FALSE]
          @@ "fading" :> [wall |-> 75, fake |-> 20, near |-> 60, unwinding |-> TRUE]
Completed == {[open |-> 4, close |-> 3, low |-> 3, high |-> 4], [open |-> 2, close |-> 3, low |-> 2, high |-> 3]}
Multipliers == "TRENDING" :> [hold |-> 85, break |-> 125] @@ "RANGING" :> [hold |-> 120, break |-> 80]

MeterWeights == "TRENDING" :> 13 @@ "RANGING" :> 6 @@ "TRANSITIONING" :> 9 @@ "UNKNOWN" :> 10
Speak(own, level, extra, confirmed) ==
    [own |-> own, level |-> level, extra |-> extra, confirmed |-> confirmed]
Speaks == {Speak(FALSE, "far", -35, FALSE), Speak(TRUE, "far", 45, TRUE), Speak(FALSE, "unknown", 0, TRUE),
           Speak(TRUE, "near", 45, TRUE)}

BuildUps == {"Long Buildup", "Short Buildup", "Short Covering", "Long Unwinding"}

\* Candles across, above and below the cloud.
CloudBar(low, high, close) == [low |-> low, high |-> high, close |-> close]
CloudBars == {CloudBar(0, 2, 1), CloudBar(1, 3, 3), CloudBar(-3, 0, -3)}
Surroundings == {[adx |-> 26, vwap |-> 1, ema |-> 1, volume |-> TRUE, atr |-> 1],
                 [adx |-> 15, vwap |-> -1, ema |-> 1, volume |-> FALSE, atr |-> 2]}

Level == INSTANCE LevelMachine WITH
    premiums <- level_premiums, Directions <- {"breakout", "reversal"}, Strikes <- {1},
    Persistence <- 2, Grace <- 1, Rest <- 2

Entering == INSTANCE LevelEntry WITH
    premiums <- entering_premiums, Order <- <<"atm", "itm">>, Quotes <- Quoted,
    Markets <- Readings, Moves <- {0, 60}, Slow <- 3, Kept <- 3, OiCap <- 8,
    Nothing <- Nothing

V3 == INSTANCE V3Signal WITH
    day <- v3_day, signal <- v3_signal, Resistances <- {4}, Supports <- {2},
    Prices <- {1, 5}, Walls <- WallKinds, Candles <- Completed, Regimes <- Multipliers,
    Threshold <- 60, MaxReadings <- 2, MaxDay <- 1, Nothing <- Nothing

Learning == INSTANCE V3Learning WITH
    oi <- learn_oi, change <- learn_change, day <- learn_day, Offsets <- {-1, 0, 1},
    MaxInterest <- 2, MinSample <- 2, Step <- 5, Low <- 50, High <- 150, Values <- {1, 2},
    MaxTrades <- 2, MaxHistory <- 1, MaxDay <- 2, Nothing <- Nothing

OI == INSTANCE OISignal WITH
    history <- oi_history, signal <- oi_signal, Prices <- {41, 43}, Step <- 4,
    Pcrs <- {4, 40}, Ranges <- {0, 20}, Premiums <- {100}, Walls <- {<<>>, <<8, 4>>},
    Momentum <- MeterWeights, Evidence <- Speaks, Delta <- 10, Kept <- 3, Nothing <- Nothing

Trend == INSTANCE TrendMeter WITH
    Ratios <- {80, 100}, Scores <- {-100, 40}, Ichimoku <- {-100, 60}, Absent <- Nothing,
    Kept <- 2

Evident == INSTANCE LevelEvidence WITH
    history <- evidence_history, Prices <- {-2, 0, 2}, Tolerance <- 1, Kinds <- BuildUps,
    Pcrs <- {10, 17}, Kept <- 2, Nothing <- Nothing

Cloud == INSTANCE Ichimoku WITH
    Tenkan <- 1, Kijun <- 2, SenkouB <- 3, Displacement <- 1, Margin <- 1, Breakout <- 1,
    Rejection <- 1, Lookback <- 1, Length <- 5, Candles <- CloudBars,
    Outside <- Surroundings, Nothing <- Nothing

Qualify == INSTANCE Qualification WITH
    signal <- qualify_signal, Confidences <- {80}, Ranges <- {1, 4}, MinHistory <- 1,
    MaxRows <- 2, Nothing <- Nothing

levelVars == <<st, level_premiums, seen, resolved, opened>>
enteringVars == <<entering_premiums, volumes, best, entry>>
v3Vars == <<caller, v3_day, recorded, validated, today, v3_signal>>
learnVars == <<learn_oi, learn_change, centers, drift, trades, learn_day, learned>>
oiVars == <<oi_history, reading, oi_signal>>
trendVars == <<ratios, cycle>>
evidenceVars == <<evidence_history, table>>
cloudVars == <<candles, window, snap>>
qualifyVars == <<structures, recent, qualify_signal, profile, failed, verdict>>

\* What a part that is not the one exercised starts with, where it could choose.
Settled ==
    /\ part # "level" => st.direction = "breakout"
    /\ part # "v3" => caller = "live"
    /\ part # "learn" => learn_oi = [x \in {-1, 0, 1} |-> 0]

Init == /\ part \in Exercised
        /\ Level!Init
        /\ Entering!Init
        /\ V3!Init
        /\ Learning!Init
        /\ OI!Init
        /\ Trend!Init
        /\ Evident!Init
        /\ Cloud!Init
        /\ Qualify!Init
        /\ Settled

Idle(p, state) == \/ part = p
                  \/ part # p /\ UNCHANGED state

Next ==
    /\ UNCHANGED part
    /\ \/ part = "level" /\ Level!Next
       \/ part = "entering" /\ Entering!Next
       \/ part = "v3" /\ V3!Next
       \/ part = "learn" /\ Learning!Next
       \/ part = "oi" /\ OI!Next
       \/ part = "trend" /\ Trend!Next
       \/ part = "evidence" /\ Evident!Next
       \/ part = "cloud" /\ Cloud!Next
       \/ part = "qualify" /\ Qualify!Next
    /\ Idle("level", levelVars)
    /\ Idle("entering", enteringVars)
    /\ Idle("v3", v3Vars)
    /\ Idle("learn", learnVars)
    /\ Idle("oi", oiVars)
    /\ Idle("trend", trendVars)
    /\ Idle("evidence", evidenceVars)
    /\ Idle("cloud", cloudVars)
    /\ Idle("qualify", qualifyVars)

vars == <<part, levelVars, enteringVars, v3Vars, learnVars, oiVars, trendVars, evidenceVars,
          cloudVars, qualifyVars>>

Spec == Init /\ [][Next]_vars

\* A level rises through its states step by step and trades once, an entry has the risk and
\* the evidence it claims, and a candidate that is blocked is never actionable.
SetupsAreEarned ==
    /\ [](part = "level" => Level!TypeOK /\ Level!OneTradePerActivation)
    /\ [](part = "entering" => /\ Entering!TypeOK
                               /\ Entering!RiskIsCapped
                               /\ Entering!LiquidFirst
                               /\ Entering!MomentumIsEarned
                               /\ Entering!ExceptionalIsComplete)
    /\ [](part = "qualify" => /\ Qualify!TypeOK
                              /\ Qualify!RankedAmongOthers
                              /\ Qualify!ActionableIsVetted
                              /\ Qualify!WorseNeverPromotes
                              /\ Qualify!ChopNeedsALevel)
    /\ Level!RiseIsEarned
    /\ Level!RestsBetweenSetups

\* What an engine says follows from what it read: levels and weights of the right day, no
\* trade against its own evidence, stops on the right side, and calls and puts treated
\* alike.
SignalsAreFounded ==
    /\ [](part = "v3" => /\ V3!TypeOK
                         /\ V3!BreakoutsFollowABreak
                         /\ V3!LevelsOfAPastDay
                         /\ V3!SurerSideTrades)
    /\ [](part = "learn" => Learning!TypeOK /\ Learning!WeightIsEarned)
    /\ [](part = "oi" => /\ OI!TypeOK
                         /\ OI!PcrAloneIsNoTrigger
                         /\ OI!RiskIsBounded
                         /\ OI!NoWallInFrontOfTheStop
                         /\ OI!MeterNeverContradictsTrade
                         /\ OI!ConvictionIsBuiltUp)
    /\ [](part = "trend" => /\ Trend!TypeOK
                            /\ Trend!NeverAgainstTheChain
                            /\ Trend!ScaleIsSymmetric)
    /\ [](part = "evidence" => /\ Evident!TypeOK
                               /\ Evident!SidesMirror
                               /\ Evident!VeryHighIsWellFounded)
    /\ [](part = "cloud" => /\ Cloud!TypeOK
                            /\ Cloud!WindowSuffices
                            /\ Cloud!SidesMirror
                            /\ Cloud!StopOnTheRightSide)
    /\ Learning!WritingStrengthens
    /\ Learning!WeightHoldsTheDay
=============================================================================
