-------------------------- MODULE StructureAlerts --------------------------
(* Structure alerts for one symbol (trading_intelligence/structure_alerts    *)
(* over institutional_levels): levels are clustered anew from their sources  *)
(* in every cycle, a level that was broken and then defended has reversed    *)
(* its role, and whoever reads the channel is told so -- once, by what the   *)
(* process remembers of the alerts it sent.  Prices are whole numbers.       *)
EXTENDS Integers, Sequences, FiniteSets, FiniteSetsExt, SequencesExt

CONSTANTS Candles,      \* what a candle may be: records of open, high, low, close and volume
          Sources,      \* the candidates that do not move: records of price and kind
          Vwaps,        \* where the one that moves may be
          Trends,       \* records of ema, vwap, structure (-1, 0, 1) and momentum (-10 .. 10)
          Buffer, Tolerance, Margin,    \* breakout_buffer, retest_tolerance, the overlay's buffer
          Lookback, MaxRetest,          \* VOLUME_LOOKBACK_CANDLES, MAX_RETEST_CANDLES
          Window,       \* DEDUP_WINDOW_SECONDS, in candles
          Length, MaxTold, MaxRestarts,
          Nothing

VARIABLES candles,
          remembered,   \* _last_alert_by_key with _alerted_candle_by_key: by state and level
          told,         \* the alerts this process sent
          restarts

structure == <<candles, remembered, told, restarts>>

now == Len(candles)

Kinds == [pivot |-> 15, swing |-> 20, oi |-> 25, vwap |-> 15, round_number |-> 10, volume_profile |-> 15]
Major == 65

Init == /\ candles = <<>> /\ remembered = {} /\ told = {} /\ restarts = 0

------------------------------------------------------------------------------
\* _score_all_clusters: neighbours within the tolerance belong together.
Near == Max({Tolerance * 3, Buffer \div 2})

Together(cs, c, d) == \A e \in cs : c.price <= e.price /\ e.price < d.price =>
                         \E f \in cs : e.price < f.price /\ f.price <= d.price /\ f.price - e.price <= Near
Clusters(cs) == {{d \in cs : IF c.price <= d.price THEN Together(cs, c, d) ELSE Together(cs, d, c)} : c \in cs}

Weight(cluster) == MapThenSumSet(LAMBDA k : Kinds[k], {c.kind : c \in cluster})
Level(cluster)  == MapThenSumSet(LAMBDA c : c.price, cluster) \div Cardinality(cluster)

\* weighted_levels: the clusters that weigh enough.
Levels(vwap) == {Level(c) : c \in {c \in Clusters(Sources \union {[price |-> vwap, kind |-> "vwap"]}) : Weight(c) >= Major}}

------------------------------------------------------------------------------
\* detect_role_reversal.
Absolute(x) == IF x < 0 THEN -x ELSE x
Body(c)     == Absolute(c.close - c.open)
UpperWick(c) == c.high - Max({c.open, c.close})
LowerWick(c) == Min({c.open, c.close}) - c.low

\* The breakout's volume is 1.2 times the average of the candles before it, of which there are enough.
Loud(cs, i) == /\ i > Lookback
               /\ 10 * Lookback * cs[i].volume >= 12 * MapThenSumSet(LAMBDA j : cs[j].volume, (i - Lookback) .. (i - 1))

BreaksUp(cs, i, level)   == cs[i].close > level + Buffer /\ Loud(cs, i)
BreaksDown(cs, i, level) == cs[i].close < level - Buffer /\ Loud(cs, i)

\* _find_retest_from_above, _find_retest_from_below: the first candle after the breakout that comes back and holds.
Defends(c, level)  == c.low <= level + Tolerance /\ c.close > level
Rejects(c, level)  == c.high >= level - Tolerance /\ c.close < level
Soon(cs, i)        == (i + 1) .. Min({i + MaxRetest, Len(cs)})
FirstOf(S)         == IF S = {} THEN 0 ELSE Min(S)
Defence(cs, i, level)   == FirstOf({r \in Soon(cs, i) : Defends(cs[r], level)})
Rejection(cs, i, level) == FirstOf({r \in Soon(cs, i) : Rejects(cs[r], level)})

\* The retest is all wick, and the candle after it closes beyond the breakout.
TurnsSupport(cs, i, level) ==
    LET r == Defence(cs, i, level)
    IN  /\ BreaksUp(cs, i, level) /\ r > 0 /\ r < Len(cs)
        /\ LowerWick(cs[r]) >= 2 * Body(cs[r]) /\ cs[r + 1].close > cs[i].close
TurnsResistance(cs, i, level) ==
    LET r == Rejection(cs, i, level)
    IN  /\ BreaksDown(cs, i, level) /\ r > 0 /\ r < Len(cs)
        /\ UpperWick(cs[r]) >= 2 * Body(cs[r]) /\ cs[r + 1].close < cs[i].close

Rounded(x, y) == (2 * x + y) \div (2 * y)

\* _reversal_confidence.
Confidence(wick, body, clearance) ==
    LET dominant == IF body = 0 THEN 24 ELSE Min({25, Rounded(8 * (wick - 2 * body), body)})
        clear    == IF body = 0 THEN 15 ELSE Min({15, Rounded(5 * clearance, body)})
    IN  Min({98, 60 + Max({0, dominant}) + clear})

Reversals(cs, level) ==
    {[role |-> "SUPPORT", breakout |-> i, retest |-> Defence(cs, i, level)] :
        i \in {i \in DOMAIN cs : TurnsSupport(cs, i, level)}} \union
    {[role |-> "RESISTANCE", breakout |-> i, retest |-> Rejection(cs, i, level)] :
        i \in {i \in DOMAIN cs : TurnsResistance(cs, i, level)}}

\* The latest retest, of the earliest breakout it belongs to.
Latest(found) ==
    CHOOSE r \in found : \A q \in found : \/ q.retest < r.retest
                                          \/ q.retest = r.retest /\ r.breakout <= q.breakout

Rated(r, c, level) ==
    [role |-> r.role, breakout |-> r.breakout, retest |-> r.retest,
     confidence |-> Confidence(IF r.role = "SUPPORT" THEN LowerWick(c) ELSE UpperWick(c), Body(c), Absolute(c.close - level))]

LatestRated(found, cs, level) == LET r == Latest(found) IN Rated(r, cs[r.retest], level)

Reversal(cs, level) ==
    IF Reversals(cs, level) = {} THEN Nothing ELSE LatestRated(Reversals(cs, level), cs, level)

\* compute_trade_plan_overlay.
Plan(cs, r) ==
    LET up    == r.role = "SUPPORT"
        entry == IF up THEN cs[r.breakout].high + Margin ELSE cs[r.breakout].low - Margin
        stop  == IF up THEN cs[r.retest].low - Margin ELSE cs[r.retest].high + Margin
        risk  == IF up THEN entry - stop ELSE stop - entry
    IN  IF r.confidence < 75 \/ risk <= 0 THEN Nothing
        ELSE [up |-> up, entry |-> entry, stop |-> stop, t1 |-> IF up THEN entry + risk ELSE entry - risk]

\* classify_market_state: a reversal decides, else the weighted score (in hundredths).
State(trend, r) ==
    LET score == 20 * trend.ema + 15 * trend.vwap + 20 * trend.structure + trend.momentum
    IN  IF r # Nothing THEN IF r.role = "SUPPORT" THEN "BULLISH_RETEST_ACTIVE" ELSE "BEARISH_RETEST_ACTIVE"
        ELSE IF score >= 50 THEN "TRENDING_UP" ELSE IF score <= -50 THEN "TRENDING_DOWN"
        ELSE IF score >= 15 THEN "BREAKOUT_WATCH" ELSE IF score <= -15 THEN "BREAKDOWN_WATCH"
        ELSE IF trend.ema * trend.vwap = -1 THEN "REVERSAL_RISK" ELSE "RANGE"

Alertable == {"BULLISH_RETEST_ACTIVE", "BEARISH_RETEST_ACTIVE", "BREAKOUT_WATCH", "BREAKDOWN_WATCH", "REVERSAL_RISK"}

------------------------------------------------------------------------------
Of(state, level) == {m \in remembered : m.state = state /\ m.level = level}

\* _is_recent_duplicate.
Recently(state, level) == \E m \in Of(state, level) : now - m.at < Window
\* Mutant: only the window counts.
AlreadyToldNever(state, level, r) == FALSE
\* _same_candle_already_alerted.
AlreadyTold(state, level, r) == r # Nothing /\ \E m \in Of(state, level) : m.retest = r.retest

\* What one level gives rise to in this cycle.
AlertOf(level, r, state) ==
    IF state \notin Alertable \/ Recently(state, level) \/ AlreadyTold(state, level, r) THEN Nothing
    ELSE [state |-> state, level |-> level, at |-> now, retest |-> IF r = Nothing THEN 0 ELSE r.retest]
Alert(level, trend) == LET r == Reversal(candles, level) IN AlertOf(level, r, State(trend, r))

\* evaluate_symbol: what Telegram takes is remembered.  (The preview charts are left out.)
Evaluate ==
    \E vwap \in Vwaps, trend \in Trends :
        LET due == {Alert(l, trend) : l \in Levels(vwap)} \ {Nothing}
        IN  \E sent \in SUBSET due :
              /\ candles # <<>> /\ Cardinality(told \union sent) <= MaxTold
              /\ told' = told \union sent
              /\ remembered' = sent \union {m \in remembered : \A a \in sent : a.state # m.state \/ a.level # m.level}
              /\ UNCHANGED <<candles, restarts>>

\* Another candle is recorded.
Candle == /\ Len(candles) < Length
          /\ \E c \in Candles : candles' = Append(candles, c)
          /\ UNCHANGED <<remembered, told, restarts>>

Restart == /\ restarts < MaxRestarts /\ restarts' = restarts + 1
           /\ remembered' = {} /\ told' = {}
           /\ UNCHANGED candles

Next == Evaluate \/ Candle \/ Restart

------------------------------------------------------------------------------
TypeOK == /\ candles \in Seq(Candles) /\ Len(candles) <= Length
          /\ remembered \subseteq told
          /\ \A a \in told : a.state \in Alertable /\ a.at \in 1 .. now /\ a.retest \in 0 .. now
          /\ restarts \in 0 .. MaxRestarts

\* The same alert about the same level is not repeated before its window is over.
SpacedApart == \A a, b \in told : a.state = b.state /\ a.level = b.level /\ a.at < b.at => b.at - a.at >= Window

\* One retest of a level is told once, however long it stays the latest one: a second alert has a later retest.
ToldOncePerRetest ==
    \A a, b \in told : a.state = b.state /\ a.level = b.level /\ a.at < b.at /\ a.retest > 0 => a.retest < b.retest

\* A reversal is told only of three candles that were all there: one that broke the level on volume, one that came
\* back to it soon and closed on the side it had broken to, one that went beyond the break.
ReversalIsConfirmed ==
    \A a \in told : a.retest > 0 =>
        /\ a.retest + 1 <= a.at
        /\ \E b \in 1 .. (a.retest - 1) :
              /\ a.retest - b <= MaxRetest /\ b > Lookback
              /\ \A c \in {candles[b], candles[a.retest], candles[a.retest + 1]} :
                    IF a.state = "BULLISH_RETEST_ACTIVE" THEN c.close > a.level ELSE c.close < a.level

Mirrored(c) == [open |-> -c.open, high |-> -c.low, low |-> -c.high, close |-> -c.close, volume |-> c.volume]
Opposite(r) == IF r = Nothing THEN Nothing ELSE [r EXCEPT !.role = IF @ = "SUPPORT" THEN "RESISTANCE" ELSE "SUPPORT"]

\* Support and resistance are judged alike: candles upside down give the opposite role, at the same candles.
SidesMirror ==
    \A vwap \in Vwaps : \A level \in Levels(vwap) :
        Reversal([i \in DOMAIN candles |-> Mirrored(candles[i])], -level) = Opposite(Reversal(candles, level))

\* With the margin of the plan at least the tolerance of the retest (it is not for GOLD), the level the reversal
\* relies on lies between the stop and the entry: the plan is not stopped out before the level has failed.
StopBeyondLevel ==
    Margin >= Tolerance =>
        \A vwap \in Vwaps : \A level \in Levels(vwap) : \A r \in {Reversal(candles, level)} \ {Nothing} :
            \A p \in {Plan(candles, r)} \ {Nothing} :
                IF p.up THEN p.stop <= level /\ level < p.entry /\ p.entry < p.t1
                ELSE p.stop >= level /\ level > p.entry /\ p.entry > p.t1
=============================================================================
