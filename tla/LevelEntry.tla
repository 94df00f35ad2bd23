----------------------------- MODULE LevelEntry -----------------------------
(* The entry at an ACTIVE level (app.py, advance_sr_state_machine, with       *)
(* sr_probability_engine.py): every cycle ranks the strikes around the money, *)
(* puts the premium and volume of the best one through the gates -- its       *)
(* recent high, two averages, the fake-breakout filter -- and at the first    *)
(* that passes fixes entry, targets, stop and score, once.  Premiums are      *)
(* whole points; an average over Slow readings is kept times a power of two.  *)
(* The module LevelMachine has the life of the level around this entry.       *)
EXTENDS Integers, Sequences, FiniteSets, FiniteSetsExt

CONSTANTS Order,   \* the candidates: at the money first
          Quotes,  \* records of ltp, vol, oi and chg
          Markets, \* records of vwap, regime, shape, wall, oi: what the other evidence says
          Moves,   \* distances to the next level and to the swing point, in premium points
          Slow,    \* readings the slow average needs; the fast one is the last premium
          Kept,    \* readings kept
          OiCap,   \* open interest that counts as full
          Nothing

VARIABLES premiums, \* the premium bucket of the level
          volumes,  \* its volume bucket
          best,     \* the strike of this cycle and its quote
          entry     \* what the trigger fixed, or Nothing

entering == <<premiums, volumes, best, entry>>

Strikes == {Order[i] : i \in DOMAIN Order}

TypeOK == /\ premiums \in Seq(Int) /\ Len(premiums) <= Kept /\ Len(volumes) = Len(premiums)
          /\ best = Nothing \/ best.strike \in Strikes
          /\ entry = Nothing \/ entry.score \in 0 .. 100

Init == premiums = <<>> /\ volumes = <<>> /\ best = Nothing /\ entry = Nothing

------------------------------------------------------------------------------
(* score_strike_candidates, in thousandths.                                   *)
Liquid(q) == q.vol > 0 /\ q.oi > 0 /\ q.ltp > 0
Abs(x) == IF x < 0 THEN -x ELSE x

Score(q, most) ==
    IF ~Liquid(q) THEN 0
    ELSE (450 * q.vol) \div most + (350 * Min({q.oi, OiCap})) \div OiCap
           + (IF q.chg = 0 THEN 100 ELSE Min({200, 100 + (200 * Abs(q.chg)) \div q.oi}))

\* The sort is stable: of two as good, the one nearer to the money.
Best(quotes) ==
    LET most == Max({1} \cup {quotes[s].vol : s \in Strikes})
        at(i) == Score(quotes[Order[i]], most)
        first == CHOOSE i \in DOMAIN Order : \A j \in DOMAIN Order : at(j) < at(i) \/ (at(j) = at(i) /\ i <= j)
    IN  [strike |-> Order[first], quote |-> quotes[Order[first]]]

------------------------------------------------------------------------------
(* The gates, on the readings of earlier cycles only.                         *)

\* compute_premium_entry_trigger: half a percent above the highest of at least two.
AboveTrigger(ltp) == Len(premiums) >= 2 /\ 1000 * ltp >= 1005 * Max({premiums[i] : i \in DOMAIN premiums})

\* compute_premium_ema over the whole bucket; with a period of three every reading counts half.
Ema[i \in 1 .. Kept] == IF i = 1 THEN premiums[1] ELSE Ema[i - 1] + premiums[i] * 2 ^ (i - 2)
\* check_premium_momentum_confirmed: None, too, is no confirmation.
Rising(n) == n >= Slow /\ premiums[n] * 2 ^ (n - 1) > Ema[n]

\* compute_volume_expansion: unknown with fewer than three earlier volumes.
Thin(vol) == LET known == {i \in DOMAIN volumes : volumes[i] > 0}
             IN  Cardinality(known) >= 3 /\ 2 * vol * Cardinality(known) < 3 * MapThenSumSet(LAMBDA i : volumes[i], known)

\* fake_breakout_filter: what is known to be against the breakout.
Passes(vol, m) == ~Thin(vol) /\ m.oi >= 55 /\ m.vwap # "against"

------------------------------------------------------------------------------
(* What the trigger fixes.                                                    *)

\* Mutant: the swing point decides alone.
StopAtSwing(ltp, swing) == IF swing = 0 THEN 20 * ltp - ltp ELSE 20 * (ltp - swing)
\* compute_dynamic_targets_sl, in twentieths of a point: the nearer of the swing and 5 percent.
Stop(ltp, swing) == IF swing = 0 THEN 19 * ltp ELSE Max({20 * (ltp - swing), 19 * ltp})
\* Half the way to the next level and all of it, but 15 and 27 percent at least.
Target1(ltp, move) == 20 * ltp + Max({10 * move, 3 * ltp})
Target2(ltp, move) == 20 * ltp + Max({20 * move, (27 * ltp) \div 5})

\* validate_risk_reward with the default floor of 1.5.
Rewarding(ltp, t1, sl) == 20 * ltp > sl /\ 2 * (t1 - 20 * ltp) >= 3 * (20 * ltp - sl)

\* The points of compute_institutional_entry_score.
Points(agrees, m, rising, liquidity, rewarding) ==
    LET part(points, holds) == IF holds THEN points ELSE 0
    IN  Min({100, (CASE m.shape = "directional" -> 20 [] m.shape = "MIXED" -> 8 [] OTHER -> 0)
                    + m.oi \div 4 + part(10, agrees)
                    + (CASE m.regime = "TRENDING" -> 10 [] m.regime = "RANGING" -> 6 [] OTHER -> 0)
                    + part(15, rising) + part(10, m.wall)
                    + (5 * liquidity + 500) \div 1000 + part(5, rewarding)})

Institutional(m, rising, liquidity, rewarding) == Points(m.vwap = "with", m, rising, liquidity, rewarding)

Entry(b, most, m, move, swing) ==
    LET ltp == b.quote.ltp
        t1  == Target1(ltp, move)
        sl  == Stop(ltp, swing)
    IN  [strike |-> b.strike, price |-> ltp, target1 |-> t1, target2 |-> Target2(ltp, move), sl |-> sl,
         rewarding |-> Rewarding(ltp, t1, sl), market |-> m, earlier |-> Len(premiums),
         score |-> Institutional(m, Rising(Len(premiums)), Score(b.quote, most), Rewarding(ltp, t1, sl))]

Pushed(bucket, x) == IF Len(bucket) = Kept THEN Append(Tail(bucket), x) ELSE Append(bucket, x)

------------------------------------------------------------------------------
(* A cycle of an ACTIVE level.  The best strike's premium and volume join the  *)
(* buckets of the level after the gates have been asked.                      *)
Cycle ==
    \E quotes \in [Strikes -> Quotes] :
        LET b == Best(quotes) most == Max({1} \cup {quotes[s].vol : s \in Strikes}) IN
        /\ best' = [b EXCEPT !.quote = quotes]
        /\ IF ~Liquid(b.quote) THEN UNCHANGED <<premiums, volumes, entry>>
           ELSE /\ premiums' = Pushed(premiums, b.quote.ltp) /\ volumes' = Pushed(volumes, b.quote.vol)
                /\ \/ entry # Nothing /\ UNCHANGED entry
                   \/ /\ entry = Nothing
                      /\ \E m \in Markets, move \in Moves, swing \in Moves :
                            entry' = IF AboveTrigger(b.quote.ltp) /\ Rising(Len(premiums)) /\ Passes(b.quote.vol, m)
                                     THEN Entry(b, most, m, move, swing) ELSE Nothing

(* The trade is over and the level starts again; the buckets stay.            *)
Restart == entry # Nothing /\ entry' = Nothing /\ UNCHANGED <<premiums, volumes, best>>

Next == Cycle \/ Restart

------------------------------------------------------------------------------
(* compute_dynamic_targets_sl: "SL can never risk more than max_sl_pct", from  *)
(* however far the swing point -- and every entry leaves 1.5 to 1 to gain.     *)
RiskIsCapped ==
    entry # Nothing => /\ 20 * entry.price - entry.sl <= entry.price
                       /\ entry.sl < 20 * entry.price /\ entry.rewarding
                       /\ entry.target1 < entry.target2

(* Nobody enters on a strike that does not trade while another one does.      *)
LiquidFirst == best # Nothing /\ (\E s \in Strikes : Liquid(best.quote[s])) => Liquid(best.quote[best.strike])

(* An entry has a slow average behind it: the cycles of Slow earlier readings, *)
(* not counting its own.                                                      *)
MomentumIsEarned == entry # Nothing => entry.earlier >= Slow

(* An exceptional setup (95 of 100) has no evidence against it: VWAP agrees,  *)
(* structure is directional, the wall is verified by price.                   *)
ExceptionalIsComplete ==
    entry # Nothing /\ entry.score >= 95 =>
        entry.market.vwap = "with" /\ entry.market.shape = "directional" /\ entry.market.wall /\ entry.market.oi >= 80
=============================================================================
