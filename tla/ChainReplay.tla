---------------------------- MODULE ChainReplay ----------------------------
(***************************************************************************)
(* The option-chain replays of backtest.py: simulate_trades ("oi"),        *)
(* simulate_sr_engine_trades ("sr"), simulate_v2_engine_trades ("v2") and  *)
(* simulate_v3_engine_trades ("v3") walk the logged cycles in order, manage*)
(* the one open trade, and otherwise ask their engine for a signal.        *)
(*                                                                         *)
(* The engines' own verdict is a free choice, and so is the premium of a   *)
(* cycle, known by the side of the stop or target it is on; a cycle may    *)
(* not carry the strike at all.  What is kept is which recorded data each  *)
(* decision may read, and when it was recorded: a day's market-structure   *)
(* snapshot is saved at some cycle of that day, or never.                  *)
(***************************************************************************)
EXTENDS Integers, SequencesExt, FiniteSetsExt

CONSTANTS Days, PerDay,   \* the logged cycles: PerDay on each of Days days
          Night,          \* minutes between two days' cycles; one minute between cycles
          Hold, Cap,      \* the time exit, and the ceiling of an adaptive one
          Cooldown,       \* minutes without entries after an exit
          Persistence,    \* cycles a bias must last ("oi")
          Engines, NoTrade

VARIABLES
    engine,
    snap,    \* snap[d]: the cycle of the day at which d's snapshot was saved, 0: never
    cycle,   \* cycles replayed
    price,   \* the open trade's premium in the cycle just replayed
    trade,   \* the open trade
    until,   \* cooldown_until
    streak,  \* bias_streak
    trades   \* the trades reported

replay == <<engine, snap, cycle, price, trade, until, streak, trades>>

DayOf(c) == ((c - 1) \div PerDay) + 1
Time(c)  == c + Night * (DayOf(c) - 1)
Of(d, n) == PerDay * (d - 1) + n         \* the n-th cycle of day d
Prices   == {"none", "stop", "between", "target"}

Init ==
    /\ engine \in Engines
    /\ snap \in [1..Days -> 0..PerDay]
    /\ cycle = 0 /\ price = "none" /\ trade = NoTrade
    /\ until = 0 /\ streak = [bias |-> "none", count |-> 0]
    /\ trades = << >>

-----------------------------------------------------------------------------
\* What the replay may look at.

\* Mutant: a snapshot serves its whole day.
KnownAllDay(c) == snap[DayOf(c)] # 0

\* The day's snapshot, once it has been saved.
Known(c) == snap[DayOf(c)] # 0 /\ Time(Of(DayOf(c), snap[DayOf(c)])) <= Time(c)

\* The day whose close is "yesterday" for the cycle: the last earlier one with a snapshot.
Closed(c)   == {d \in 1..Days : d < DayOf(c) /\ snap[d] # 0}

PrevDay(c)  == IF Closed(c) = {} THEN {} ELSE {Max(Closed(c))}

\* When each piece of data the engine is handed was there to be read.
Structure(c) == IF Known(c) THEN {Time(Of(DayOf(c), snap[DayOf(c)]))} ELSE {}
Yesterday(c) == {Time(Of(d, PerDay)) : d \in PrevDay(c)}
Inputs(c) ==
    {Time(c)} \cup (CASE engine = "oi" -> {}
                      [] engine \in {"sr", "v2"} -> Structure(c)
                      [] engine = "v3" -> Structure(c) \cup Yesterday(c))

\* Whether the engine is asked at all: the first one once its bias has lasted; v2 with the
\* day's levels, which are those of the day before, whenever they were saved; v3 with the
\* structure, and only once it is known.
Lasting   == streak'.count >= Persistence
Levels(c) == snap[DayOf(c)] # 0
Ready(c)  == CASE engine = "oi" -> Lasting [] engine = "sr" -> TRUE
               [] engine = "v2" -> Levels(c) [] engine = "v3" -> Known(c)

Opened(c, signal) == IF signal /\ Time(c) >= until /\ Ready(c)
                     THEN [entry |-> Time(c), used |-> Inputs(c)] ELSE NoTrade

-----------------------------------------------------------------------------
\* The one open trade.

Reason(held, p, pause) ==
    CASE p = "none"   -> "none"
      [] p = "target" -> "TARGET HIT"
      [] p = "stop"   -> "STOP LOSS"
      [] p = "between" /\ engine \in {"v2", "v3"} /\ held >= Cap -> "TIME EXIT"
      [] p = "between" /\ held >= Hold /\ ~(pause /\ engine \in {"v2", "v3"}) -> "TIME EXIT"
      [] OTHER -> "none"

RestUntil(c, reason) == IF engine = "v2" THEN until ELSE Time(c) + Cooldown

Manage(p, pause) ==
    LET c      == cycle + 1
        reason == Reason(Time(c) - trade.entry, p, pause)
    IN  /\ trade # NoTrade /\ cycle < Days * PerDay
        /\ cycle' = c /\ price' = p
        /\ IF reason = "none" THEN UNCHANGED <<trade, trades, until>>
           ELSE /\ trades' = Append(trades, [entry |-> trade.entry, used |-> trade.used,
                                             exit |-> Time(c), reason |-> reason])
                /\ trade' = NoTrade
                /\ until' = RestUntil(c, reason)
        /\ UNCHANGED <<engine, snap, streak>>

\* Without one: the bias streak grows, and outside a cooldown the engine may signal.
Evaluate(bias, signal) ==
    LET c == cycle + 1
    IN  /\ trade = NoTrade /\ cycle < Days * PerDay
        /\ cycle' = c /\ price' = "none"
        /\ streak' = IF engine # "oi" THEN streak
                     ELSE [bias |-> bias, count |-> IF streak.bias # bias THEN 1
                               ELSE IF streak.count = Persistence THEN Persistence ELSE streak.count + 1]
        /\ trade' = Opened(c, signal)
        /\ UNCHANGED <<engine, snap, until, trades>>

Next ==
    \/ \E p \in Prices, pause \in BOOLEAN : Manage(p, pause)
    \/ \E bias \in {"up", "down"}, signal \in BOOLEAN : Evaluate(bias, signal)

-----------------------------------------------------------------------------
TypeOK ==
    /\ engine \in Engines /\ price \in Prices
    /\ snap \in [1..Days -> 0..PerDay]
    /\ cycle \in 0..(Days * PerDay)
    /\ trade = NoTrade \/ trade.entry \in 1..Time(cycle)
    /\ until \in Nat /\ streak.count \in 0..Persistence
    /\ \A t \in ToSet(trades) : t.reason \in {"TARGET HIT", "STOP LOSS", "TIME EXIT"}

\* No lookahead: whatever a trade was decided on had been recorded by then
\* (the LOOKAHEAD-BIAS GUARD of every replay).
NoLookahead ==
    /\ trade # NoTrade => \A u \in trade.used : u <= trade.entry
    /\ \A t \in ToSet(trades) : \A u \in t.used : u <= t.entry

\* The reported trades follow one another, with the pause the caller asked for between two.
OneAtATime ==
    \A i \in 1..(Len(trades) - 1) :
        /\ trades[i].exit < trades[i + 1].entry
        /\ engine # "v2" => trades[i + 1].entry >= trades[i].exit + Cooldown

\* A trade outlives its time only while its strike has no price, or an adaptive exit
\* waits on the candles below its ceiling.
OverdueIsUnpriced ==
    trade # NoTrade /\ price # "none" =>
        Time(cycle) - trade.entry < IF engine \in {"v2", "v3"} THEN Cap ELSE Hold
=============================================================================
