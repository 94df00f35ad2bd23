------------------------------ MODULE EntryGate ------------------------------
(* How much the Trading Intelligence engine may put at risk: the size of a   *)
(* recommended trade (position_sizing, adaptive_sizing) and the account-level*)
(* gate in front of its entry (risk_decision, asked by paper_trading).  The  *)
(* gate reads the open positions and the closed trades of all the engines;   *)
(* the other engines (one "legacy" engine here) are not gated, and run in    *)
(* another thread, between the gate's reads and the insert.                  *)
(* Prices and money are whole numbers, multipliers are quarters.             *)
EXTENDS Integers, Sequences, SequencesExt, FiniteSetsExt

CONSTANTS Symbols,     \* the symbols traded
          Budget,      \* capital * risk_pct / 100: what one trade may lose
          Entry,       \* the entry premium of every trade
          Risks,       \* the distances from the entry to the stop
          Scales,      \* setup multiplier * track-record multiplier, in sixteenths
          LossLimit,   \* capital * RISK_DAILY_LOSS_LIMIT_PCT / 100
          SymbolLimit, \* capital * RISK_MAX_EXPOSURE_PER_SYMBOL_PCT / 100
          MaxOpen,     \* RISK_MAX_CONCURRENT_STRATEGIES
          LotQty,      \* PAPER_TRADE_LOT_QTY: a legacy point in rupees
          MinTrades,   \* STREAK_DAMPENER_MIN_TRADES
          MaxClosed,   \* bound: trades closed in a behaviour
          MaxDay,      \* bound: days after the first
          NoTrade

VARIABLES open,    \* [engine, symbol] -> the open position, or NoTrade
          closed,  \* the closed trades, newest first
          day,     \* the date in the exchange's time zone
          granted  \* the entry the gate has allowed and nobody inserted yet

gate == <<open, closed, day, granted>>

Engines   == {"ti", "legacy"}
Quantity  == 0 .. Budget
Position  == [risk : Risks, qty : Quantity]
Held      == {p \in Engines \X Symbols : open[p] # NoTrade}

TypeOK == /\ open \in [Engines \X Symbols -> Position \union {NoTrade}]
          /\ closed \in Seq([engine : Engines, symbol : Symbols, day : 0 .. MaxDay, points : Int])
          /\ Len(closed) <= MaxClosed
          /\ day \in 0 .. MaxDay
          /\ granted = NoTrade \/ granted \in [symbol : Symbols, position : Position]

Init == /\ open = [p \in Engines \X Symbols |-> NoTrade]
        /\ closed = <<>>
        /\ day = 0
        /\ granted = NoTrade

------------------------------------------------------------------------------
\* The size of a trade

\* The quantity that loses the budget at the stop, rounded down: 0 is "skip".
BaseQuantity(risk) == Budget \div risk

Points(trades)  == [i \in DOMAIN trades |-> trades[i].points]
Sum(points)     == FoldSeq(+, 0, points)

\* The TI engine's closed trades of a symbol, newest first.
History(s) == SelectSeq(closed, LAMBDA t : t.engine = "ti" /\ t.symbol = s)

\* The losses since the last trade that did not lose.
StreakLength(trades) ==
    Max({0} \union {n \in DOMAIN trades : \A i \in 1 .. n : trades[i].points < 0})

BeforeStreak(trades) == SubSeq(trades, StreakLength(trades) + 1, Len(trades))

\* The deepest fall of the summed points, in the order given.
Drawdown(points) ==
    Max({0} \union {-Sum(SubSeq(points, i, j)) : i \in DOMAIN points, j \in DOMAIN points})

\* What a bootstrap of these points can report as its 75th percentile: at
\* worst the largest loss drawn every time.
Simulated(points) ==
    LET worst == Max({0} \union {-points[i] : i \in DOMAIN points})
    IN  {0, Len(points) * worst}

\* Half the size once the streak has lost as much as the history before it
\* shows a bad run can; no opinion without enough history, or without a fall in it.
Dampener(trades, simulated) ==
    LET streak == SubSeq(trades, 1, StreakLength(trades))
        prior  == BeforeStreak(trades)
        limit  == Max({Drawdown(Reverse(Points(prior))), simulated})
    IN  IF /\ streak # <<>> /\ Len(trades) >= MinTrades /\ Len(prior) >= MinTrades
           /\ limit > 0
           /\ -Sum(Points(streak)) >= limit
        THEN 2 ELSE 4

Adaptive(risk, scale, dampener) ==
    Min({(BaseQuantity(risk) * scale * dampener) \div 64, BaseQuantity(risk)})

------------------------------------------------------------------------------
\* The gate

Today       == SelectSeq(closed, LAMBDA t : t.day = day)
PointsOf(e) == Sum(Points(SelectSeq(Today, LAMBDA t : t.engine = e)))

\* A legacy trade books raw points, the TI engine rupees.
\* Mutant: the two are added as if they were the same.
DayLossUnscaled == Max({0, -(PointsOf("legacy") + PointsOf("ti"))})
DayLoss == Max({0, -(PointsOf("legacy") * LotQty + PointsOf("ti"))})

\* A legacy position has no quantity: it counts as one.
Exposure(s) ==
    (IF open[<<"ti", s>>] = NoTrade THEN 0 ELSE Entry * open[<<"ti", s>>].qty) +
    (IF open[<<"legacy", s>>] = NoTrade THEN 0 ELSE Entry)

Room == Cardinality(Held) < MaxOpen

Allowed(s) == Room /\ DayLoss < LossLimit /\ Exposure(s) < SymbolLimit

------------------------------------------------------------------------------
\* The TI engine: evaluate sizes the trade, enter_from_recommendation asks
\* the gate and inserts.  A refusal is published and changes nothing.

Recommend(s) ==
    /\ granted = NoTrade
    /\ open[<<"ti", s>>] = NoTrade
    /\ \E risk \in Risks :
         \E qty \in {BaseQuantity(risk)} \union
                    {Adaptive(risk, scale, Dampener(History(s), simulated)) :
                        scale \in Scales, simulated \in Simulated(Points(BeforeStreak(History(s))))} :
            /\ qty > 0
            /\ Allowed(s)
            /\ granted' = [symbol |-> s, position |-> [risk |-> risk, qty |-> qty]]
    /\ UNCHANGED <<open, closed, day>>

Insert ==
    /\ granted # NoTrade
    /\ open' = [open EXCEPT ![<<"ti", granted.symbol>>] = granted.position]
    /\ granted' = NoTrade
    /\ UNCHANGED <<closed, day>>

\* The other engines enter without asking.
EnterLegacy(s) ==
    /\ open[<<"legacy", s>>] = NoTrade
    /\ \E risk \in Risks : open' = [open EXCEPT ![<<"legacy", s>>] = [risk |-> risk, qty |-> 1]]
    /\ UNCHANGED <<closed, day, granted>>

\* A trade closes at its stop or as far above its entry.
Close(e, s) ==
    /\ open[<<e, s>>] # NoTrade
    /\ Len(closed) < MaxClosed
    /\ \E sign \in {1, -1} :
         closed' = <<[engine |-> e, symbol |-> s, day |-> day,
                      points |-> sign * open[<<e, s>>].risk * open[<<e, s>>].qty]>> \o closed
    /\ open' = [open EXCEPT ![<<e, s>>] = NoTrade]
    /\ UNCHANGED <<day, granted>>

Midnight == /\ day < MaxDay
            /\ day' = day + 1
            /\ UNCHANGED <<open, closed, granted>>

Next == \/ \E s \in Symbols : Recommend(s) \/ EnterLegacy(s)
        \/ \E e \in Engines, s \in Symbols : Close(e, s)
        \/ Insert \/ Midnight

Spec == Init /\ [][Next]_gate

------------------------------------------------------------------------------
\* Whatever the multipliers, a trade of the TI engine cannot lose more at its
\* stop than the budget of one trade (adaptive_sizing: it "can only ever size
\* DOWN from the risk_pct baseline").
StopLossWithinBudget ==
    \A s \in Symbols : open[<<"ti", s>>] # NoTrade =>
        open[<<"ti", s>>].risk * open[<<"ti", s>>].qty <= Budget

\* The gate counts the positions of every engine, so the TI engine alone never
\* holds more than the limit, not even with an entry granted and not inserted.
TiWithinLimit ==
    Cardinality({s \in Symbols : \/ open[<<"ti", s>>] # NoTrade
                                 \/ granted # NoTrade /\ granted.symbol = s}) <= MaxOpen

\* Once the trades closed today have lost the daily limit, all engines together
\* and in rupees, no further entry of the TI engine is granted before midnight,
\* and at most the one granted before is inserted.
Rupees(t)   == IF t.engine = "legacy" THEN t.points * LotQty ELSE t.points
LostToday   == -Sum([i \in DOMAIN closed |-> IF closed[i].day = day THEN Rupees(closed[i]) ELSE 0])
LossStopsEntries ==
    [][LostToday >= LossLimit =>
         /\ granted = NoTrade => granted' = NoTrade
         /\ \A s \in Symbols : open[<<"ti", s>>] = NoTrade /\ open'[<<"ti", s>>] # NoTrade =>
                granted # NoTrade /\ granted' = NoTrade]_gate

\* A losing streak of the symbol that has lost more than any order of the trades
\* before it could is followed by an adaptive size of at most half the base.
StreakIsDampened ==
    \A s \in Symbols :
        LET own    == History(s)
            n      == StreakLength(own)
            losses == {-own[i].points : i \in n + 1 .. Len(own)}
            worst  == Max({0} \union losses) * (Len(own) - n)
        IN  n > 0 /\ Len(own) - n >= MinTrades /\ worst > 0
              /\ -Sum(Points(SubSeq(own, 1, n))) >= worst =>
            \A risk \in Risks, sim \in Simulated(Points(BeforeStreak(own))) :
                2 * Adaptive(risk, 16, Dampener(own, sim)) <= BaseQuantity(risk)
==============================================================================
