---------------------------- MODULE LevelEvidence ----------------------------
(* The evidence at a support or resistance level (sr_probability_engine.py,  *)
(* build_sr_probability_table): each cycle the option chain, the structure   *)
(* and the readings stored so far speak for a break of the level or for a    *)
(* reversal at it.  Scores are in hundredths, put-call ratios in tenths; a   *)
(* reading is its distance from the level.                                   *)
EXTENDS Integers, Sequences, SequencesExt, FiniteSetsExt

CONSTANTS Prices,    \* readings, as distances from the level
          Tolerance, \* how near a reading touches the level
          Pcrs,      \* put-call ratios
          Kinds,     \* build-ups of a strike's calls and puts
          Kept,      \* readings kept
          Nothing

VARIABLES history, \* the readings stored by earlier cycles
          table    \* this cycle's evaluation, or Nothing

evidence == <<history, table>>

Ways == {"bullish", "bearish", "none"}
Clues == [ce : Kinds, pe : Kinds, atm : -1 .. 1, mother : Ways, sweep : Ways, pcr : Pcrs,
          vwap : {"above", "below", "unknown"}, regime : {"TRENDING", "RANGING", "none"}, wall : BOOLEAN]

TypeOK == /\ history \in Seq(Prices) /\ Len(history) <= Kept
          /\ table = Nothing \/ (/\ table.clues \in Clues
                                 /\ table.support.break + table.support.reversal = 100
                                 /\ table.resistance.break + table.resistance.reversal = 100)

Init == history = <<>> /\ table = Nothing

Part(points, condition) == IF condition THEN points ELSE 0

\* round of Python: to the nearest, a tie to the even neighbour.
Round(n, d) == LET q == n \div d r == n % d
               IN  IF 2 * r > d \/ (2 * r = d /\ q % 2 = 1) THEN q + 1 ELSE q

Touches(readings) == Cardinality({i \in DOMAIN readings : readings[i] \in -Tolerance .. Tolerance})

\* _count_breaks: a stay beyond the level is one break, however long it lasts.
Breaks(readings, side) ==
    LET beyond(i) == IF side = "resistance" THEN readings[i] > 0 ELSE readings[i] < 0
    IN  Cardinality({i \in DOMAIN readings : beyond(i) /\ (i = 1 \/ ~beyond(i - 1))})

\* Three touches speak for a reversal, whether or not a break came between them.
Rejections(readings) == IF Touches(readings) >= 3 THEN Min({20, 5 * Touches(readings)}) ELSE 0

\* What could be looked at, of the ten kinds of evidence.
Available(c, readings) ==
    4 + Part(1, c.mother # "none") + Part(1, c.sweep # "none") + Part(1, c.vwap # "unknown")
      + Part(1, c.regime # "none") + Part(1, c.wall) + Part(1, readings # <<>>)

\* _confidence_label: half for what could be looked at, half for how far apart the sides are.
Label(available, gap) == IF 50 * available + 5 * gap >= 750 THEN "VERY HIGH" ELSE "LOWER"

Verdict(break, reversal, available) ==
    LET share == IF break + reversal = 0 THEN 50 ELSE Round(100 * break, break + reversal)
    IN  [break |-> share, reversal |-> 100 - share, available |-> available,
         label |-> Label(available, IF share > 50 THEN 2 * share - 100 ELSE 100 - 2 * share)]

\* evaluate_resistance
Resistance(c, readings) ==
    LET break ==   (CASE c.ce = "Short Covering" -> 25 [] c.ce = "Long Buildup" -> 15 [] OTHER -> 0)
                 + Part(15, c.pe = "Short Buildup") + Part(15, c.atm = 1)
                 + Part(15, c.mother = "bullish") + Part(10, c.sweep = "bullish") + Part(8, c.pcr > 15)
                 + Part(10, c.vwap = "above") + Part(15, c.regime = "TRENDING") + Part(15, c.wall)
        reversal == Part(25, c.ce = "Short Buildup") + Part(10, c.pe \in {"Short Covering", "Long Unwinding"})
                 + Part(15, c.atm = -1) + Part(10, c.mother = "bearish") + Part(8, c.sweep = "bearish")
                 + Part(8, c.pcr < 7) + Part(10, c.vwap = "below") + Part(15, c.regime = "RANGING")
                 + Rejections(readings)
    IN  Verdict(break, reversal, Available(c, readings))

\* Mutant: fresh put writing above a support speaks for its break.
SupportCopied(c, readings) ==
    LET break ==   (CASE c.pe = "Short Covering" -> 25 [] c.pe = "Long Buildup" -> 15 [] OTHER -> 0)
                 + Part(15, c.pe = "Short Buildup") + Part(15, c.atm = -1)
                 + Part(15, c.mother = "bearish") + Part(10, c.sweep = "bearish") + Part(8, c.pcr < 7)
                 + Part(10, c.vwap = "below") + Part(15, c.regime = "TRENDING") + Part(15, c.wall)
    IN  Verdict(break, Rejections(readings), Available(c, readings))
\* evaluate_support, written out for the other side.
Support(c, readings) ==
    LET break ==   (CASE c.pe = "Short Covering" -> 25 [] c.pe = "Long Buildup" -> 15 [] OTHER -> 0)
                 + Part(15, c.ce = "Short Buildup") + Part(15, c.atm = -1)
                 + Part(15, c.mother = "bearish") + Part(10, c.sweep = "bearish") + Part(8, c.pcr < 7)
                 + Part(10, c.vwap = "below") + Part(15, c.regime = "TRENDING") + Part(15, c.wall)
        reversal == Part(25, c.pe = "Short Buildup") + Part(10, c.ce \in {"Short Covering", "Long Unwinding"})
                 + Part(15, c.atm = 1) + Part(10, c.mother = "bullish") + Part(8, c.sweep = "bullish")
                 + Part(8, c.pcr > 15) + Part(10, c.vwap = "above") + Part(15, c.regime = "RANGING")
                 + Rejections(readings)
    IN  Verdict(break, reversal, Available(c, readings))

------------------------------------------------------------------------------
Evaluate == /\ table = Nothing
            /\ \E c \in Clues :
                  table' = [clues |-> c, support |-> Support(c, history), resistance |-> Resistance(c, history),
                            breaks |-> Breaks(history, "resistance")]
            /\ UNCHANGED history

\* The cycle ends: its reading joins the stored ones.
Store == /\ table # Nothing /\ table' = Nothing
         /\ \E price \in Prices :
               history' = IF Len(history) = Kept THEN Append(Tail(history), price) ELSE Append(history, price)

Next == Evaluate \/ Store

------------------------------------------------------------------------------
(* The two evaluations are written out by hand, once for each side: a support *)
(* reads as the resistance of the mirrored market does (evaluate_support:     *)
(* "mirror of resistance").                                                   *)
SidesMirror ==
    LET flipped == [bullish |-> "bearish", bearish |-> "bullish", none |-> "none"]
        side    == [above |-> "below", below |-> "above", unknown |-> "unknown"]
        mirror(c) == [c EXCEPT !.ce = c.pe, !.pe = c.ce, !.atm = -c.atm, !.mother = flipped[c.mother],
                               !.sweep = flipped[c.sweep], !.vwap = side[c.vwap],
                               !.pcr = IF c.pcr > 15 THEN 0 ELSE IF c.pcr < 7 THEN 99 ELSE c.pcr]
    IN  table # Nothing =>
            table.support = Resistance(mirror(table.clues), [i \in DOMAIN history |-> -history[i]])

(* However one-sided the little evidence there is, a confidence of VERY HIGH   *)
(* needs half of the ten kinds of evidence to have been there to look at.     *)
VeryHighIsWellFounded ==
    table # Nothing => \A v \in {table.support, table.resistance} : v.label = "VERY HIGH" => v.available >= 5
==============================================================================
