---------------------------- MODULE CandleReplay ----------------------------
(***************************************************************************)
(* The candle replays: simulate_ichimoku_trades ("ichimoku") and           *)
(* simulate_dynamic_sr_engine_trades ("dsr") of backtest.py, and the quant *)
(* researcher's strategy_runner.run_strategy ("research").  Each walks the *)
(* archived candles with at most one trade.                                *)
(*                                                                         *)
(* Prices are gains in the direction of the trade, from its entry at 0, so *)
(* a candle is its worst, best and last gain; a stop that has been touched *)
(* fills at the stop.  A candle lasts one minute.  The indicators behind a *)
(* signal are a free choice.                                               *)
(***************************************************************************)
EXTENDS Integers, SequencesExt, FiniteSetsExt

CONSTANTS Days, PerDay,   \* the archive: PerDay candles on each of Days days
          Candles,        \* records [low, high, close], in gain
          Stop, Targets,  \* initial stop and the targets, in gain
          Hold, Cooldown,
          Styles, NoTrade

VARIABLES
    style,    \* which replay runs
    candle,   \* candles replayed
    trade,
    wait,     \* the next candle that may signal: "ichimoku" cools down, "research" skips
    action,   \* the previous candle's signal ("ichimoku")
    trades

candles == <<style, candle, trade, wait, action, trades>>

DayOf(c)   == ((c - 1) \div PerDay) + 1
Final      == Len(Targets)
LastCandle == Days * PerDay
Fresh(c)   == [entry |-> c, sl |-> Stop, best |-> 0]   \* best: targets reached so far

Init ==
    /\ style \in Styles
    /\ candle = 0
    /\ trade = NoTrade /\ wait = 1 /\ action = "none" /\ trades = << >>

-----------------------------------------------------------------------------
Reached(b)   == Max({0} \cup {k \in 1..Final : b.high >= Targets[k]})
Behind(k)    == IF k = 1 THEN 0 ELSE Targets[k - 1]     \* the stop after target k

StopName(t, b) == IF t.best = 0 THEN "STOP LOSS"
                  ELSE IF t.best = 1 THEN "BREAKEVEN STOP" ELSE "PROFIT-LOCKED STOP"

\* Mutant: the target is taken first.
OutcomeAtBest(t, b, held) ==
    CASE b.high >= Targets[1] -> [reason |-> "TARGET HIT", at |-> Targets[1]]
      [] b.low <= t.sl        -> [reason |-> "STOP LOSS", at |-> t.sl]
      [] b.high < Targets[1] /\ b.low > t.sl /\ held >= Hold ->
             [reason |-> "TIME EXIT", at |-> b.close]
      [] OTHER -> [reason |-> "none", at |-> 0]

\* One target and a fixed stop: the stop is taken as filled first.
Outcome(t, b, held) ==
    CASE b.low <= t.sl -> [reason |-> "STOP LOSS", at |-> t.sl]
      [] b.low > t.sl /\ b.high >= Targets[1] -> [reason |-> "TARGET HIT", at |-> Targets[1]]
      [] b.low > t.sl /\ b.high < Targets[1] /\ held >= Hold ->
             [reason |-> "TIME EXIT", at |-> b.close]
      [] OTHER -> [reason |-> "none", at |-> 0]

\* The dynamic engine trails the stop behind the targets the candle reached, which may
\* be fewer than an earlier one did.
Trailed(t, b) == IF Reached(b) = 0 THEN t
                 ELSE [t EXCEPT !.best = Reached(b), !.sl = Behind(Reached(b))]

OutcomeDsr(t, b, held) ==
    CASE b.low <= t.sl -> [reason |-> StopName(t, b), at |-> t.sl]
      [] b.low > t.sl /\ Reached(b) = Final -> [reason |-> "TARGET HIT", at |-> Targets[Final]]
      [] b.low > t.sl /\ Reached(b) < Final /\ held >= Hold ->
             [reason |-> "TIME EXIT", at |-> b.close]
      [] OTHER -> [reason |-> "none", at |-> 0]

Verdict(t, c, b) ==
    LET held == c - t.entry
        own  == IF style = "dsr" THEN OutcomeDsr(t, b, held) ELSE Outcome(t, b, held)
    IN  IF own.reason = "none" /\ style = "research" /\ c = LastCandle
        THEN [reason |-> "TIME EXIT", at |-> b.close] ELSE own

\* Ichimoku rests after a stop; research looks again only past the whole window it scanned.
Resumes(t, c, reason) ==
    CASE style = "ichimoku" /\ reason = "STOP LOSS" -> c + Cooldown
      [] style = "research" -> t.entry + Hold + 1
      [] OTHER -> wait

\* Whether the candle may open a trade.  Ichimoku's signal must have changed, the dynamic
\* engine needs a day before; a research signal fills at the next candle.
MayEnter(c, signal) ==
    /\ signal # "none" /\ c >= wait'
    /\ style = "ichimoku" => signal # action
    /\ style = "dsr" => DayOf(c) > 1
    /\ style = "research" => c < LastCandle

Report(t, c, b, reason, points) ==
    [entry |-> t.entry, exit |-> c, reason |-> reason, points |-> points, low |-> b.low, sl |-> t.sl]

\* The dynamic engine's day ends flat, be the trade as young as this candle.
Forced(t, c) == style = "dsr" /\ t # NoTrade /\ c % PerDay = 0

\* One candle: the open trade first, then perhaps a new one, at its close.
Replay(b, signal) ==
    LET c      == candle + 1
        out    == IF trade = NoTrade THEN [reason |-> "none", at |-> 0] ELSE Verdict(trade, c, b)
        closed == out.reason # "none"
        held   == CASE trade # NoTrade /\ ~closed ->
                           IF style = "dsr" THEN Trailed(trade, b) ELSE trade
                    [] (trade = NoTrade \/ closed) /\ MayEnter(c, signal) ->
                           Fresh(IF style = "research" THEN c + 1 ELSE c)
                    [] OTHER -> NoTrade
    IN  /\ candle < LastCandle
        /\ candle' = c
        /\ wait' = IF closed THEN Resumes(trade, c, out.reason) ELSE wait
        /\ action' = IF style = "ichimoku" THEN signal ELSE action
        /\ trade' = IF Forced(held, c) THEN NoTrade ELSE held
        /\ trades' = trades
               \o (IF closed THEN <<Report(trade, c, b, out.reason, out.at)>> ELSE << >>)
               \o (IF Forced(held, c)
                   THEN <<IF held.entry = c THEN Report(held, c, b, "TIME EXIT", 0)
                     ELSE Report(trade, c, b, "TIME EXIT", b.close)>>
                   ELSE << >>)
        /\ UNCHANGED style

Next == \E b \in Candles, signal \in {"none", "buy", "sell"} : Replay(b, signal)

-----------------------------------------------------------------------------
TypeOK ==
    /\ style \in Styles /\ candle \in 0..LastCandle
    /\ trade # NoTrade => trade.sl \in {Stop, 0} \cup ToSet(Targets) /\ trade.best \in 0..Final
    /\ wait \in Nat /\ action \in {"none", "buy", "sell"}
    /\ \A t \in ToSet(trades) : t.reason \in {"STOP LOSS", "BREAKEVEN STOP", "PROFIT-LOCKED STOP",
                                              "TARGET HIT", "TIME EXIT"}

\* A candle that touched both sides is booked as the loss: the order inside it is unknown.
WorstIsAssumed ==
    \A t \in ToSet(trades) :
        ~(style = "dsr" /\ t.entry = t.exit) /\ t.low <= t.sl => t.points = t.sl

\* What a stop is called says what it earned, whatever the trade went through before.
NameMatchesResult ==
    \A t \in ToSet(trades) :
        /\ t.reason = "STOP LOSS" => t.points < 0
        /\ t.reason = "BREAKEVEN STOP" => t.points = 0
        /\ t.reason \in {"PROFIT-LOCKED STOP", "TARGET HIT"} => t.points > 0

\* The dynamic engine never carries a trade overnight.
DayTradesOnly ==
    style = "dsr" =>
        /\ \A t \in ToSet(trades) : DayOf(t.entry) = DayOf(t.exit)
        /\ trade # NoTrade => DayOf(trade.entry) = DayOf(candle)

\* Trades do not overlap, and those of a research run do not even share the window in which
\* an earlier one might have stayed open: their results count as independent.
NoOverlap ==
    \A i \in 1..(Len(trades) - 1) :
        /\ trades[i].exit <= trades[i + 1].entry
        /\ style = "research" => trades[i + 1].entry > trades[i].entry + Hold
=============================================================================
