----------------------------- MODULE ExitEngine -----------------------------
(***************************************************************************)
(* The candle replays with a ladder of targets: the Dynamic S/R engine and *)
(* exit engine V4 (src/exit_engine_v4.py, and the two simulations of       *)
(* src/backtest.py that drive one position at a time through a day's       *)
(* candles).  Prices are distances from the entry, in the direction of the *)
(* position: a SELL is a BUY seen from below.  One step is one candle.     *)
(***************************************************************************)
EXTENDS Integers, FiniteSetsExt

CONSTANTS Prices,   \* what a candle may touch
          Stops,    \* initial stops, capped by max_sl_atr_mult or not
          Targets,  \* compute_adaptive_targets: three distances, rising
          Origin,   \* the level whose break was the entry
          Trigger,  \* the gain that fires the Break Even Engine
          Trails,   \* distances of the trailing candidates behind the close
          MaxHold,  \* max_hold_minutes, in candles
          LastCandle

VARIABLES engine,    \* "dsr" or "v4"
          breakeven, \* the Break Even Engine is on
          position,  \* the open position, or Flat
          candle,    \* candles of the day so far
          trade      \* the last finished trade, with the stop that was in force before its candle

exits == <<engine, breakeven, position, candle, trade>>

Flat     == [open |-> FALSE, sl |-> 0, best |-> 0, even |-> FALSE, held |-> 0]
Position == [open : {TRUE}, sl : Int, best : 0..3, even : BOOLEAN, held : 0..MaxHold]
Early    == {"OPPOSITE SIGNAL", "VWAP CROSS", "MOMENTUM FADE"}
StopOuts == {"STOP LOSS", "BREAKEVEN STOP", "PROFIT-LOCKED STOP"}
Reasons  == StopOuts \cup Early \cup {"TARGET HIT", "STRUCTURE BREAK", "TIME EXIT"}
NoTrade  == [reason |-> "none", points |-> 0, held |-> 0, best |-> 0, sl |-> 0]

TypeOK ==
    /\ engine \in {"dsr", "v4"} /\ breakeven \in BOOLEAN
    /\ position \in Position \cup {Flat} /\ candle \in 0..LastCandle
    /\ trade.reason \in Reasons \cup {"none"} /\ trade.points \in Int /\ trade.held \in 0..MaxHold

Init ==
    /\ engine \in {"dsr", "v4"} /\ breakeven \in (IF engine = "v4" THEN BOOLEAN ELSE {FALSE})
    /\ position = Flat /\ candle = 0 /\ trade = NoTrade

Candles == {c \in [low : Prices, close : Prices, high : Prices] : c.low <= c.close /\ c.close <= c.high}

-----------------------------------------------------------------------------
\* The highest target a candle reaches; with best_target_hit = i the stop is the target before.
Hit(c) == Max({0} \cup {i \in DOMAIN Targets : c.high >= Targets[i]})
Behind(i) == IF i = 1 THEN 0 ELSE Targets[i - 1]

\* Mutant: V4 too forgets what it has reached.
RatchetedAnyway(p, c) == IF Hit(c) = 0 THEN p ELSE [p EXCEPT !.best = Hit(c), !.sl = Behind(Hit(c))]
Ratcheted(p, c) ==
    IF Hit(c) = 0 \/ (engine = "v4" /\ Hit(c) <= p.best) THEN p
    ELSE [p EXCEPT !.best = Hit(c), !.sl = Behind(Hit(c))]

\* check_breakeven_trigger.
Even(p, c) ==
    IF breakeven /\ c.high >= Trigger THEN [p EXCEPT !.sl = Max({@, 0}), !.even = TRUE] ELSE p

\* update_trailing_stop: the closer of the ATR trail and the nearest cleared rung.
Trailed(p, c, trail) == [p EXCEPT !.sl = Max({@, c.close - trail})]

StopReason(p) ==
    CASE p.best >= 2 -> "PROFIT-LOCKED STOP"
      [] p.best = 1 \/ (p.best = 0 /\ p.even) -> "BREAKEVEN STOP"
      [] OTHER -> "STOP LOSS"

Finish(p, reason, points) ==
    trade' = [reason |-> reason, points |-> points, held |-> p.held, best |-> p.best, sl |-> position.sl]

\* A flat replay may enter at the close of any candle, the one that ended a position included;
\* at the last candle of the day what is open is closed.
Opened == {Flat} \cup {[Flat EXCEPT !.open = TRUE, !.sl = s] : s \in Stops}

Exit(p, reason, points) ==
    /\ Finish(p, reason, points)
    /\ position' \in (IF candle + 1 = LastCandle THEN {Flat} ELSE Opened)

Stay(p, c) ==
    IF candle + 1 = LastCandle
    THEN Finish(p, "TIME EXIT", c.close) /\ position' = Flat
    ELSE position' = p /\ UNCHANGED trade

\* manage_exit, in its order: the stop the candles before have left, targets, breakeven, the
\* early exits, the time, and the trail last.
ManageV4(p, c) ==
    LET ratcheted == Ratcheted(p, c)
        even      == Even(ratcheted, c) IN
    CASE c.low <= p.sl -> Exit(p, StopReason(p), p.sl)
      [] c.low > p.sl /\ ratcheted.best = 3 -> Exit(ratcheted, "TARGET HIT", Targets[3])
      [] c.low > p.sl /\ ratcheted.best < 3 /\ c.close < Origin -> Exit(even, "STRUCTURE BREAK", c.close)
      [] OTHER ->
           \/ \E reason \in Early : Exit(even, reason, c.close)
           \/ even.held = MaxHold /\ Exit(even, "TIME EXIT", c.close)
           \/ even.held < MaxHold /\ \E trail \in Trails : Stay(Trailed(even, c, trail), c)

ManageDsr(p, c) ==
    LET ratcheted == Ratcheted(p, c) IN
    CASE c.low <= p.sl -> Exit(p, StopReason(p), p.sl)
      [] c.low > p.sl /\ ratcheted.best = 3 -> Exit(ratcheted, "TARGET HIT", Targets[3])
      [] c.low > p.sl /\ ratcheted.best < 3 /\ ratcheted.held = MaxHold -> Exit(ratcheted, "TIME EXIT", c.close)
      [] OTHER -> Stay(ratcheted, c)

Manage ==
    /\ candle < LastCandle /\ position.open
    /\ LET p == [position EXCEPT !.held = @ + 1] IN
       \E c \in Candles : IF engine = "v4" THEN ManageV4(p, c) ELSE ManageDsr(p, c)
    /\ candle' = candle + 1
    /\ UNCHANGED <<engine, breakeven>>

\* A position opened at the last candle is closed at its own entry.
Enter ==
    /\ candle < LastCandle /\ ~position.open
    /\ IF candle + 1 = LastCandle
       THEN position' = Flat /\ trade' \in {trade, [NoTrade EXCEPT !.reason = "TIME EXIT"]}
       ELSE position' \in Opened /\ UNCHANGED trade
    /\ candle' = candle + 1
    /\ UNCHANGED <<engine, breakeven>>

NextDay == candle = LastCandle /\ candle' = 0 /\ UNCHANGED <<engine, breakeven, position, trade>>

Next == Manage \/ Enter \/ NextDay

-----------------------------------------------------------------------------
\* A stop-out after a target or the Break Even Engine is never a loss, whatever the trail, the
\* ratchet and the breakeven did to the stop in between.
ProtectedIsNoLoss == trade.reason \in {"BREAKEVEN STOP", "PROFIT-LOCKED STOP", "TARGET HIT"} => trade.points >= 0

\* No lookahead: a position is stopped out at the stop that the candles before had left, never
\* at one computed from the candle that hit it.
StoppedWhereItStood == trade.reason \in StopOuts => trade.points = trade.sl

\* V4 never forgets a target: a candle that pulls back and clears a nearer one changes nothing.
TargetsOnlyAdvance ==
    [][(engine = "v4" /\ position.open /\ position'.open /\ position'.held > position.held)
          => position'.best >= position.best]_exits
=============================================================================
