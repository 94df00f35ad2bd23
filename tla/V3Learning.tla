----------------------------- MODULE V3Learning ------------------------------
(* What S/R Engine V3 learns about one symbol: the score of the option wall  *)
(* at a level (analyze_oi_cluster), the drift of the wall's centre over the  *)
(* cycles (detect_wall_migration), and the weight of one factor of the score,*)
(* adjusted once a day from the closed paper trades (learn_adaptive_weights, *)
(* get_v3_adaptive_weights).  Scores and weights are percentages.            *)
EXTENDS Integers, Sequences, SequencesExt, FiniteSetsExt

CONSTANTS Offsets,    \* the strikes of the cluster, relative to the level
          MaxInterest,\* bound: open interest of a strike
          MinSample,  \* V3_WEIGHT_MIN_SAMPLE
          Step,       \* V3_WEIGHT_LEARN_STEP, in percent
          Low, High,  \* V3_WEIGHT_BOUNDS, in percent
          Values,     \* the readings of the factor at an entry
          MaxTrades,  \* bound: closed trades
          MaxHistory, \* readings kept of the wall's centre (30)
          MaxDay,     \* bound: days after the first
          Nothing

VARIABLES oi,      \* offset -> open interest of the wall's side
          change,  \* the change of the level's own open interest since the previous close
          centers, \* the recent centres, oldest first, in hundredths of a strike step
          drift,   \* the last migration reported: "UP", "DOWN", "STABLE" or Nothing
          trades,  \* the closed trades: [exit, value of the factor at entry]
          day,
          learned  \* [date, weight], or Nothing before the first cycle since the start

v3learning == <<oi, change, centers, drift, trades, day, learned>>

Exits == {"TARGET HIT", "STOP LOSS", "TIME EXIT"}

TypeOK == /\ oi \in [Offsets -> 0 .. MaxInterest]
          /\ change \in -MaxInterest .. MaxInterest
          /\ Len(centers) <= MaxHistory
          /\ drift \in {"UP", "DOWN", "STABLE", Nothing}
          /\ trades \in Seq([exit : Exits, value : Values \union {Nothing}])
          /\ day \in 0 .. MaxDay
          /\ learned = Nothing \/ learned \in [date : 0 .. MaxDay, weight : Low .. High]

Init == /\ oi \in [Offsets -> 0 .. MaxInterest]
        /\ change = 0
        /\ centers = <<>> /\ drift = Nothing
        /\ trades = <<>> /\ day = 0 /\ learned = Nothing

------------------------------------------------------------------------------
\* The wall at a level

Total(chain)    == MapThenSumSet(LAMBDA o : chain[o], Offsets)
Capped(x)       == Max({0, Min({100, x})})

\* How far the level's own interest stands above the average of the cluster.
Strength(chain) ==
    IF Total(chain) = 0 THEN 0
    ELSE Capped((100 * chain[0] * Cardinality(Offsets)) \div (3 * Total(chain)))

Writing(chain, fresh) == Capped(50 + (200 * fresh) \div Max({chain[0], 1}))

Wall(chain, fresh, weight) ==
    (200 * Strength(chain) + 2 * weight * Writing(chain, fresh)) \div (200 + 2 * weight)

\* High resting interest that is already unwound.
Fake(fresh) == IF fresh < 0 THEN 100 ELSE 0

\* Where the weight of the cluster sits.
Center(chain) == (100 * MapThenSumSet(LAMBDA o : o * chain[o], Offsets)) \div Total(chain)

\* The drift against the oldest reading kept, from half a strike on.
Migration(history, center) ==
    IF history = <<>> THEN Nothing
    ELSE IF center - Head(history) >= 50 THEN "UP"
    ELSE IF center - Head(history) <= -50 THEN "DOWN" ELSE "STABLE"

\* The reading of this cycle is kept for the next ones.
Remembered(history, center) ==
    IF Len(history) < MaxHistory THEN Append(history, center) ELSE Append(Tail(history), center)

------------------------------------------------------------------------------
\* The weight of a factor

Resolved(t) == t.exit \in {"TARGET HIT", "STOP LOSS"}

WinRate(S) == (100 * Cardinality({i \in S : trades[i].exit = "TARGET HIT"})) \div Cardinality(S)

\* Trades are split at the median of the factor; the half that won more often
\* moves the weight by one step, within the bounds.
Adjusted(weight) ==
    LET sample == {i \in DOMAIN trades : Resolved(trades[i])}
        with   == {i \in sample : trades[i].value # Nothing}
        sorted == SetToSortSeq(with, LAMBDA i, j : \/ trades[i].value < trades[j].value
                                                  \/ (trades[i].value = trades[j].value /\ i < j))
        median == trades[sorted[Len(sorted) \div 2 + 1]].value
        high   == {i \in with : trades[i].value >= median}
        low    == with \ high
    IN  IF Cardinality(with) < MinSample \/ high = {} \/ low = {} THEN weight
        ELSE IF WinRate(high) > WinRate(low) THEN Min({High, (weight * (100 + Step)) \div 100})
        ELSE IF WinRate(low) > WinRate(high) THEN Max({Low, (weight * (100 - Step)) \div 100})
        ELSE weight

\* Every day starts from the neutral weight.
Start == 100

\* Mutant: the weight is learned again in every cycle.
IsCachedNever == FALSE
IsCached == learned # Nothing /\ learned.date = day

------------------------------------------------------------------------------
\* One cycle of the engine, on a chain in which one strike may have changed.
Cycle ==
    /\ learned' = IF IsCached THEN learned ELSE [date |-> day, weight |-> Adjusted(Start)]
    /\ \/ UNCHANGED <<oi, change>>
       \/ \E o \in Offsets, d \in {-1, 1} :
            /\ oi[o] + d \in 0 .. MaxInterest
            /\ oi' = [oi EXCEPT ![o] = oi[o] + d]
            /\ change' = IF o = 0 THEN change + d ELSE change
            /\ change' \in -oi'[0] .. oi'[0]
    /\ IF Total(oi') = 0 THEN drift' = Nothing /\ centers' = centers
       ELSE /\ drift' = Migration(centers, Center(oi'))
            /\ centers' = Remembered(centers, Center(oi'))
    /\ UNCHANGED <<trades, day>>

\* A paper trade closes; its factors were stored when it was opened.
Close ==
    /\ Len(trades) < MaxTrades
    /\ \E exit \in Exits, value \in Values \union {Nothing} :
         trades' = Append(trades, [exit |-> exit, value |-> value])
    /\ UNCHANGED <<oi, change, centers, drift, day, learned>>

Midnight == /\ day < MaxDay
            /\ day' = day + 1
            /\ change' = 0
            /\ UNCHANGED <<oi, centers, drift, trades, learned>>

\* The weight and the centres are in memory only.
Restart == /\ centers' = <<>> /\ drift' = Nothing /\ learned' = Nothing
           /\ UNCHANGED <<oi, change, trades, day>>

Next == Cycle \/ Close \/ Midnight \/ Restart

Spec == Init /\ [][Next]_v3learning

------------------------------------------------------------------------------
\* Interest written at the level makes its wall read stronger and never faker:
\* the two parts of the score that see it cannot pull it apart.
WritingStrengthens ==
    [][oi'[0] > oi[0] /\ (\A o \in Offsets \ {0} : oi'[o] = oi[o]) =>
         /\ Wall(oi', change', 100) >= Wall(oi, change, 100)
         /\ Fake(change') <= Fake(change)]_v3learning

\* A weight has moved only if enough resolved trades carried the factor, and by
\* one step at most: it is learned from the neutral weight every day, not from
\* yesterday's, and a restart learns it anew.
WeightIsEarned ==
    learned # Nothing /\ learned.weight # 100 =>
        /\ learned.weight \in {100 - Step, 100 + Step}
        /\ Cardinality({i \in DOMAIN trades : /\ trades[i].value # Nothing
                                              /\ trades[i].exit # "TIME EXIT"}) >= MinSample

\* The weight in use does not change within a day of one process, however many
\* trades close meanwhile.
WeightHoldsTheDay ==
    [][learned # Nothing /\ learned' # Nothing /\ day' = day /\ learned.date = day => learned' = learned]_v3learning
==============================================================================
