------------------------------ MODULE MCMarket ------------------------------
(***************************************************************************)
(* The parts that follow the market and tell people of it, checked side by *)
(* side: each behaviour exercises one of them.  The constants and variables*)
(* of the virtual trailing are those of its module.                        *)
(***************************************************************************)
EXTENDS Integers, Sequences, FiniteSets, TLC, VirtualTrailing, SequenceTheorems, FiniteSetTheorems, TLAPS

CONSTANTS Exercised, \* the parts that a run exercises
          TickPrices, Ticks, Remembered, MaxTicks, WriteFaults, RecorderDeaths, \* of the candle recorder
          Nothing

VARIABLES part,
          now, recorder_market, forming, completed, table, owed, healed, seen, faults,
          recorder_deaths,
          symbol_market, streak, symbol_baseline, structure, scalp, symbol_cycle, opposed,
          alert,
          candles, remembered, told, restarts,
          window, shown,
          loop, alert_baseline, retry, sent, alert_deaths, unlogged, failed, burst

\* A break up, a fall through and a move away, for the structure alerts.
Candle(from, high, low, to, volume) ==
    [open |-> from, high |-> high, low |-> low, close |-> to, volume |-> volume]
Breaking == {Candle(20, 30, 20, 30, 3), Candle(5, 6, 2, 6, 1), Candle(30, 40, 28, 40, 1)}
Trending == {[ema |-> 0, vwap |-> 0, structure |-> 0, momentum |-> 0],
             [ema |-> 1, vwap |-> -1, structure |-> 0, momentum |-> 0]}

\* Candles that step over rungs of the ladder, one of them in a blackout.
Rung(from, high, low, to, volume, blackout) ==
    [open |-> from, high |-> high, low |-> low, close |-> to, volume |-> volume, blackout |-> blackout]
Steps == {Rung(5, 6, 4, 5, 1, FALSE), Rung(5, 9, 5, 9, 2, FALSE), Rung(9, 14, 9, 13, 3, FALSE),
          Rung(3, 3, -1, -1, 2, FALSE), Rung(13, 14, 12, 13, 0, FALSE), Rung(5, 10, 0, 7, 2, FALSE),
          Rung(5, 9, 5, 9, 2, TRUE)}

Recorder == INSTANCE CandleRecorder WITH
    market <- recorder_market, deaths <- recorder_deaths, Prices <- TickPrices, PerBucket <- Ticks,
    Kept <- Remembered, MaxTime <- MaxTicks, MaxFaults <- WriteFaults, MaxDeaths <- RecorderDeaths,
    Nothing <- Nothing

\* Of the recorder: prices and bounds are naturals, a candle takes a tick at least, one is kept at least,
\* and no candle is no candle.
RecorderConstants ==
    /\ TickPrices \subseteq Nat /\ Ticks \in Nat \ {0} /\ Remembered \in Nat \ {0}
    /\ MaxTicks \in Nat /\ WriteFaults \in Nat /\ RecorderDeaths \in Nat
    /\ Nothing \notin Recorder!Candles
ASSUME RecorderAssumption == RecorderConstants

SymbolCycle == INSTANCE SymbolLoop WITH
    market <- symbol_market, baseline <- symbol_baseline, cycle <- symbol_cycle,
    Persistence <- 2, Grace <- 1, Retry <- 1

Breaks == INSTANCE StructureAlerts WITH
    Candles <- Breaking,
    Sources <- {[price |-> 0, kind |-> k] : k \in {"pivot", "swing", "oi", "round_number"}},
    Trends <- Trending, Vwaps <- {0, 100}, Buffer <- 20, Tolerance <- 5, Margin <- 5,
    Lookback <- 1, MaxRetest <- 2, Window <- 2, MaxTold <- 2, Length <- 6, MaxRestarts <- 1,
    Nothing <- Nothing

Ladder == INSTANCE DynamicLevels WITH
    High <- 8, Low <- 0, Candles <- Steps, Prices <- {-9, 4, 25},
    Trends <- {"bullish", "bearish", "sideways"}, Period <- 2, Tradeable <- 600,
    Nothing <- Nothing

Alerting == INSTANCE Alerts WITH
    baseline <- alert_baseline, deaths <- alert_deaths, Symbols <- {"s1", "s2"},
    Ranks <- [s \in {"s1", "s2"} |-> IF s = "s1" THEN {1, 2} ELSE {1}], SymbolLimit <- 1,
    TotalLimit <- 1, MaxAttempts <- 2, MaxDeaths <- 1

recorderVars == <<now, recorder_market, forming, completed, table, owed, healed, seen,
                    faults, recorder_deaths>>
symbolVars == <<symbol_market, streak, symbol_baseline, structure, scalp, symbol_cycle,
                  opposed, alert>>
breaksVars == <<candles, remembered, told, restarts>>
ladderVars == <<window, shown>>
alertVars == <<loop, alert_baseline, retry, sent, alert_deaths, unlogged, failed, burst>>
trailingVars == <<row, paused, open, cycle, resets>>

\* What a part that is not the one exercised starts with, where it could choose.
Settled ==
    /\ part # "symbol" => symbol_market = [open |-> TRUE, dev |-> FALSE]

AllInit == /\ part \in Exercised
           /\ Recorder!Init
           /\ SymbolCycle!Init
           /\ Breaks!Init
           /\ Ladder!Init
           /\ Alerting!Init
           /\ Init
           /\ Settled

Resting(p, state) == \/ part = p
                     \/ part # p /\ UNCHANGED state

AllNext ==
    /\ UNCHANGED part
    /\ \/ part = "recorder" /\ Recorder!Next
       \/ part = "symbol" /\ SymbolCycle!Next
       \/ part = "breaks" /\ Breaks!Next
       \/ part = "ladder" /\ Ladder!Next
       \/ part = "alert" /\ Alerting!Next
       \/ part = "trailing" /\ Next
    /\ Resting("recorder", recorderVars)
    /\ Resting("symbol", symbolVars)
    /\ Resting("breaks", breaksVars)
    /\ Resting("ladder", ladderVars)
    /\ Resting("alert", alertVars)
    /\ Resting("trailing", trailingVars)

allVars == <<part, recorderVars, symbolVars, breaksVars, ladderVars, alertVars, trailingVars>>

AllSpec == AllInit /\ [][AllNext]_allVars

\* Every tick ends in one candle of memory and table, oldest first, whatever fails or
\* restarts.
CandlesAreKept ==
    part = "recorder" => /\ Recorder!TypeOK
                         /\ Recorder!OldestFirst
                         /\ Recorder!NoTickIsLost
                         /\ Recorder!TableKeepsUp

\* An alert rests on readings that were there, for as many cycles as promised, and is told
\* once and within the limits; ladders and breaks treat both sides alike.
AlertsAreEarned ==
    /\ [](part = "symbol" => /\ SymbolCycle!TypeOK
                             /\ SymbolCycle!DoneMeansFetched
                             /\ SymbolCycle!PriorReadingsOnly)
    /\ [](part = "breaks" => /\ Breaks!TypeOK
                             /\ Breaks!SpacedApart
                             /\ Breaks!ToldOncePerRetest
                             /\ Breaks!ReversalIsConfirmed
                             /\ Breaks!SidesMirror
                             /\ Breaks!StopBeyondLevel)
    /\ [](part = "ladder" => /\ Ladder!TypeOK
                             /\ Ladder!LadderReaches
                             /\ Ladder!StopIsNearestRung
                             /\ Ladder!SidesMirror)
    /\ [](part = "alert" => /\ Alerting!TypeOK
                            /\ Alerting!WithinLimits
                            /\ Alerting!FailureIsRemembered
                            /\ Alerting!OncePerRank)
    /\ SymbolCycle!AlertIsSustained
    /\ SymbolCycle!AlertsAlternate

-----------------------------------------------------------------------------
(* Proofs about the virtual trailing.                                         *)

LEMMA MaxOfTwo ==
    ASSUME NEW a \in Int, NEW b \in Int
    PROVE  Max({a, b}) = IF a >= b THEN a ELSE b
<1> DEFINE m == IF a >= b THEN a ELSE b
<1>1. m \in {a, b} /\ \A y \in {a, b} : m >= y
  OBVIOUS
<1>2. \A x \in {a, b} : (\A y \in {a, b} : x >= y) => x = m
  OBVIOUS
<1> QED  BY <1>1, <1>2 DEF Max

LEMMA MaxOfThree ==
    ASSUME NEW a \in Int, NEW b \in Int, NEW c \in Int
    PROVE  /\ Max({a, b, c}) \in {a, b, c}
           /\ Max({a, b, c}) >= a /\ Max({a, b, c}) >= b /\ Max({a, b, c}) >= c
<1>1. \E x \in {a, b, c} : \A y \in {a, b, c} : x >= y
  <2>1. CASE a >= b /\ a >= c  BY <2>1
  <2>2. CASE b >= a /\ b >= c  BY <2>2
  <2>3. CASE c >= a /\ c >= b  BY <2>3
  <2> QED  BY <2>1, <2>2, <2>3
<1> QED  BY <1>1 DEF Max

\* A trail is a positive distance, so that the stop it gives stays below the highest premium.
LEMMA TrailIsPositive ==
    ASSUME NEW gain \in Int, NEW floor \in Nat
    PROVE  TrailAmount(gain, floor) \in Nat
<1> DEFINE reached == {i \in DOMAIN Trails : gain >= Trails[i][1]}
<1>1. CASE reached = {}
  BY <1>1 DEF TrailAmount, Unset
<1>2. CASE reached # {}
  <2>1. DOMAIN Trails = 1..3 /\ \A i \in 1..3 : i = 1 \/ i = 2 \/ i = 3
    BY DEF Trails
  <2>2. \E m \in reached : \A i \in reached : m <= i
    <3>1. CASE 1 \in reached  BY <3>1, <2>1
    <3>2. CASE 1 \notin reached /\ 2 \in reached  BY <3>2, <2>1
    <3>3. CASE 1 \notin reached /\ 2 \notin reached  BY <3>3, <1>2, <2>1
    <3> QED  BY <3>1, <3>2, <3>3
  <2>3. Min(reached) \in 1..3
    BY <2>1, <2>2 DEF Min
  <2>4. Trails[Min(reached)][2] \in Nat
    BY <2>1, <2>3 DEF Trails
  <2> QED  BY <1>2, <2>4, MaxOfTwo DEF TrailAmount
<1> QED  BY <1>1, <1>2

\* A row as the engine leaves it.
Proper(r) ==
    /\ r \in Row /\ r.sl \in FirstStop..r.highest
    /\ r.highest - Entry >= Breakeven => r.sl >= Entry /\ r.locked = r.sl - Entry

\* One evaluation keeps a row so, lowers no stop, and leaves an exit alone.
LEMMA EvaluationKeeps ==
    ASSUME ConstantsFit, NEW s, Proper(s), NEW premium \in Premiums, NEW floor \in Floors
    PROVE  /\ Proper(Evaluated(s, premium, floor))
           /\ Evaluated(s, premium, floor).sl >= s.sl
           /\ s.state = "EXITED" => Evaluated(s, premium, floor) = s
<1> DEFINE r       == Raised(s, premium, floor)
           highest == Max({s.highest, premium})
           gain    == highest - Entry
           locked  == [r EXCEPT !.locked = Max({0, r.sl - Entry})]
<1>0. /\ Entry \in Nat /\ FirstStop \in Nat /\ Target \in Nat /\ FirstStop <= Entry
      /\ premium \in Nat /\ floor \in Nat /\ premium \in Premiums
      /\ s.highest \in Nat /\ s.sl \in Nat /\ s.locked \in Nat /\ s.sl <= s.highest /\ FirstStop <= s.sl
      /\ s \in Row /\ s.highest \in Premiums \cup {Entry}
  <2>1. /\ Entry \in Nat /\ FirstStop \in Nat /\ Target \in Nat /\ FirstStop <= Entry
        /\ premium \in Nat /\ floor \in Nat /\ Premiums \subseteq Nat
    BY DEF ConstantsFit
  <2>2. s \in Row /\ s.sl \in FirstStop..s.highest
    BY DEF Proper
  <2>3. s.highest \in Premiums \cup {Entry} /\ s.locked \in Nat /\ s.sl \in Nat
    BY <2>2 DEF Row
  <2>4. s.highest \in Nat
    BY <2>1, <2>3
  <2> QED  BY <2>1, <2>2, <2>3, <2>4
<1>1. highest \in Nat /\ highest \in Premiums \cup {Entry} /\ highest >= s.highest /\ gain \in Int
  BY <1>0, MaxOfTwo
<1> HIDE DEF highest
<1>2. /\ r \in Row /\ r.highest = highest /\ r.state = s.state
      /\ r.sl \in Nat /\ r.sl >= s.sl /\ r.sl <= highest
      /\ gain >= Breakeven => r.sl >= Entry
  <2> DEFINE amount    == TrailAmount(gain, floor)
             candidate == IF amount = Unset THEN Entry ELSE highest - amount
             risen     == [s EXCEPT !.highest = highest, !.sl = Max({@, candidate, Entry})]
  <2>1. CASE gain < Breakeven
    <3>1. r = [s EXCEPT !.highest = highest]
      BY <2>1, <1>1 DEF Raised, highest, Breakeven, Runner
    <3> QED  BY <3>1, <2>1, <1>0, <1>1 DEF Row, Breakeven
  <2>2. CASE gain >= Breakeven
    <3>1. amount \in Nat
      BY <1>0, <1>1, TrailIsPositive
    <3> HIDE DEF amount
    <3>2. candidate \in Int /\ (candidate <= highest)
      BY <1>0, <1>1, <2>2, <3>1 DEF Breakeven
    <3> HIDE DEF candidate
    <3>3. /\ Max({s.sl, candidate, Entry}) \in Nat
          /\ Max({s.sl, candidate, Entry}) >= s.sl /\ Max({s.sl, candidate, Entry}) >= Entry
          /\ Max({s.sl, candidate, Entry}) <= highest
      <4> DEFINE m == Max({s.sl, candidate, Entry})
      <4>1. m \in {s.sl, candidate, Entry} /\ m >= s.sl /\ m >= Entry
        <5>1. s.sl \in Int /\ candidate \in Int /\ Entry \in Int
          BY <1>0, <3>2
        <5> QED  BY <5>1, MaxOfThree
      <4>2. Entry <= highest /\ s.sl <= highest
        BY <1>0, <1>1, <2>2 DEF Breakeven
      <4> HIDE DEF m
      <4>3. m \in Int /\ m <= highest
        BY <1>0, <3>2, <4>1, <4>2
      <4> QED  BY <1>0, <4>1, <4>3 DEF m
    <3>4. /\ risen \in Row /\ risen.highest = highest /\ risen.state = s.state
          /\ risen.sl = Max({s.sl, candidate, Entry})
      BY <1>0, <1>1, <3>3 DEF Row
    <3>5. r = risen \/ r = [risen EXCEPT !.runner = TRUE, !.target = Unset]
      BY <2>2, <1>1 DEF Raised, highest, candidate, amount, Breakeven, Runner
    <3> QED  BY <3>3, <3>4, <3>5 DEF Row
  <2> QED  BY <1>0, <1>1, <2>1, <2>2 DEF Breakeven
<1> HIDE DEF r
<1>3. Max({0, r.sl - Entry}) \in Nat /\ (gain >= Breakeven => Max({0, r.sl - Entry}) = r.sl - Entry)
  BY <1>0, <1>2, MaxOfTwo
<1>4. locked \in Row /\ locked.highest = highest /\ locked.sl = r.sl /\ locked.locked = Max({0, r.sl - Entry})
  BY <1>2, <1>3 DEF Row
<1>5. CASE Frozen(s)
  BY <1>0, <1>5 DEF Evaluated, Frozen
<1>6. CASE ~Frozen(s)
  <2>1. \/ Evaluated(s, premium, floor) = locked
        \/ Evaluated(s, premium, floor) = [locked EXCEPT !.state = "EXITED", !.exit = premium]
    BY <1>6 DEF Evaluated, r
  <2>2. Evaluated(s, premium, floor) \in Row
    BY <1>0, <1>4, <2>1 DEF Row
  <2>3. /\ Evaluated(s, premium, floor).sl = r.sl /\ Evaluated(s, premium, floor).highest = highest
        /\ Evaluated(s, premium, floor).locked = Max({0, r.sl - Entry})
    BY <1>4, <2>1 DEF Row
  <2> QED  BY <1>0, <1>1, <1>2, <1>3, <1>6, <2>2, <2>3 DEF Proper, Frozen, Breakeven
<1> QED  BY <1>5, <1>6

\* The cycle writes back what it read, and nobody else writes but to delete.
IInv ==
    /\ TypeOK
    /\ row # NoRow => Proper(row)
    /\ cycle.at \in {"priced", "read"} => cycle.premium \in Premiums
    /\ cycle.at = "read" => Proper(cycle.row) /\ (row = NoRow \/ row = cycle.row)
    /\ cycle \in [at : {"idle", "listed", "priced", "read"}, premium : Premiums \cup {Unset},
                   row : Row \cup {NoRow}]

LEMMA InitialIsKept ==
    ASSUME ConstantsFit
    PROVE  Proper(Initial)
BY DEF ConstantsFit, Proper, Initial, Row, Breakeven, Unset

LEMMA InvariantHolds ==
    ASSUME ConstantsFit
    PROVE  Spec => []IInv
<1>1. Init => IInv
  <2>1. 0 \in 0..MaxResets
    BY DEF ConstantsFit
  <2>2. Init => cycle \in [at : {"idle", "listed", "priced", "read"}, premium : Premiums \cup {Unset},
                           row : Row \cup {NoRow}]
    BY DEF Init, Rest
  <2>3. Init => TypeOK
    <3>1. Init => cycle.at = "idle" /\ cycle.row = NoRow /\ cycle.premium = Unset
      BY DEF Init, Rest
    <3>2. Init => row = NoRow /\ paused = FALSE /\ open = TRUE /\ resets = 0
      BY DEF Init
    <3> QED  BY <2>1, <3>1, <3>2 DEF TypeOK
  <2> QED  BY <2>2, <2>3 DEF Init, IInv, Rest
<1>2. IInv /\ [Next]_trailing => IInv'
  <2> SUFFICES ASSUME IInv, [Next]_trailing PROVE IInv'
    OBVIOUS
  <2>0. NoRow \notin Row /\ MaxResets \in Nat
    BY DEF NoRow, Row, ConstantsFit
  <2>1. CASE Begin
    BY <2>1 DEF Begin, IInv, TypeOK, Rest
  <2>2. CASE Price
    <3>1. CASE cycle' = Rest
      BY <2>2, <3>1 DEF Price, IInv, TypeOK, Rest
    <3>2. CASE \E premium \in Premiums : cycle' = [cycle EXCEPT !.at = "priced", !.premium = premium]
      BY <2>2, <3>2 DEF Price, IInv, TypeOK
    <3> QED  BY <2>2, <3>1, <3>2 DEF Price
  <2>3. CASE Read
    BY <2>0, <2>3, InitialIsKept DEF Read, IInv, TypeOK, Proper
  <2>4. CASE Write
    <3>1. PICK floor \in Floors : row' = Evaluated(cycle.row, cycle.premium, floor)
      BY <2>4 DEF Write
    <3>2. Proper(row')
      BY <2>4, <3>1, EvaluationKeeps DEF Write, IInv
    <3> QED  BY <2>0, <2>4, <3>2 DEF Write, IInv, TypeOK, Rest, Proper
  <2>5. CASE SetPaused
    BY <2>5 DEF SetPaused, IInv, TypeOK
  <2>6. CASE Reset
    BY <2>0, <2>6 DEF Reset, IInv, TypeOK
  <2>7. CASE RealClose
    BY <2>7 DEF RealClose, IInv, TypeOK
  <2>8. CASE Death
    BY <2>8 DEF Death, IInv, TypeOK, Rest
  <2>9. CASE UNCHANGED trailing
    BY <2>9 DEF trailing, IInv, TypeOK, Proper
  <2> QED  BY <2>1, <2>2, <2>3, <2>4, <2>5, <2>6, <2>7, <2>8, <2>9 DEF Next
<1> QED  BY <1>1, <1>2, PTL DEF Spec

\* For any premiums, entry, stop and volatility, however often the engine is paused, reset or
\* killed: the virtual stop never moves down, an exit is final, and from breakeven on the
\* shadow holds its cost.
THEOREM CapitalIsProtected == Spec => TrailingProtects
<1> USE TrailingAssumption
<1>1. IInv => TypeOK /\ CostIsProtected
  BY DEF IInv, Proper, CostIsProtected, Live
<1>2. IInv /\ [Next]_trailing =>
        [(Live(row) /\ Live(row')) => /\ row'.sl >= row.sl
                                      /\ row.state = "EXITED" => row' = row]_trailing
  <2> SUFFICES ASSUME IInv, Next, Live(row), Live(row')
               PROVE  row'.sl >= row.sl /\ (row.state = "EXITED" => row' = row)
    OBVIOUS
  <2>1. CASE Write
    <3>1. PICK floor \in Floors : row' = Evaluated(cycle.row, cycle.premium, floor)
      BY <2>1 DEF Write
    <3>2. row = cycle.row /\ Proper(row) /\ cycle.premium \in Premiums
      BY <2>1 DEF Write, IInv, Live
    <3> QED  BY <3>1, <3>2, EvaluationKeeps
  <2>2. CASE row' = row
    <3>1. row.sl \in Nat
      BY DEF IInv, Proper, Row, Live
    <3> QED  BY <2>2, <3>1
  <2>3. CASE Reset
    BY <2>3 DEF Reset, Live
  <2> QED  BY <2>1, <2>2, <2>3 DEF Next, Begin, Price, Read, SetPaused, RealClose, Death
<1> QED  BY <1>1, <1>2, InvariantHolds, PTL DEF Spec, TrailingProtects, NeverMovesDown

-----------------------------------------------------------------------------
(* Proofs about the candle recorder: its candles are sorted by their time.   *)
\* Of finitely many candles of different times, each has its place by the number of those before it.
LEMMA PlaceByTime ==
    ASSUME NEW S, IsFiniteSet(S), \A x \in S : x.start \in Nat,
           \A x, y \in S : x.start = y.start => x = y
    PROVE  \E r \in [S -> 1..Cardinality(S)] :
              /\ \A x, y \in S : x.start < y.start => r[x] < r[y]
              /\ \A i \in 1..Cardinality(S) : \E x \in S : r[x] = i
<1> DEFINE n == Cardinality(S)
           before(x) == {y \in S : y.start < x.start}
           r == [x \in S |-> Cardinality(before(x)) + 1]
<1>0. n \in Nat
  BY FS_CardinalityType
<1>1. ASSUME NEW x \in S
      PROVE  /\ IsFiniteSet(before(x)) /\ Cardinality(before(x)) \in Nat /\ Cardinality(before(x)) < n
  <2>1. before(x) \subseteq S /\ x \notin before(x)
    OBVIOUS
  <2>2. IsFiniteSet(before(x)) /\ Cardinality(before(x)) <= n /\ (Cardinality(before(x)) = n => before(x) = S)
    BY <2>1, FS_Subset
  <2> QED BY <1>0, <2>1, <2>2, FS_CardinalityType
<1>2. r \in [S -> 1..n]
  <2> HIDE DEF before
  <2>1. \A x \in S : Cardinality(before(x)) + 1 \in 1..n
    BY <1>0, <1>1
  <2> QED BY <2>1
<1>3. ASSUME NEW x \in S, NEW y \in S, x.start < y.start
      PROVE  r[x] < r[y]
  <2>1. before(x) \subseteq before(y) /\ x \in before(y) /\ x \notin before(x)
    BY <1>3
  <2>2. Cardinality(before(x)) <= Cardinality(before(y)) /\ Cardinality(before(x)) # Cardinality(before(y))
    BY <1>1, <2>1, FS_Subset
  <2> HIDE DEF before
  <2> QED BY <1>1, <2>2
<1>4. r \in Injection(S, 1..n)
  <2>1. ASSUME NEW x \in S, NEW y \in S, r[x] = r[y] PROVE x = y
    <3> HIDE DEF r
    <3>1. r[x] \in Int /\ r[y] \in Int
      BY <1>0, <1>2
    <3> QED BY <1>3, <2>1, <3>1
  <2> HIDE DEF r
  <2> QED BY <1>2, <2>1 DEF Injection, IsInjective
<1>5. r \in Surjection(S, 1..n)
  <2>1. IsFiniteSet(1..n) /\ Cardinality(1..n) = n
    BY <1>0, FS_Interval
  <2> HIDE DEF r
  <2> QED BY <1>4, <2>1, FS_Injection
<1> HIDE DEF r
<1>6. \A i \in 1..n : \E x \in S : r[x] = i
  BY <1>5 DEF Surjection
<1> QED BY <1>2, <1>3, <1>6

LEMMA OrderedFacts ==
    ASSUME NEW S, IsFiniteSet(S), \A x \in S : x.start \in Nat,
           \A x, y \in S : x.start = y.start => x = y
    PROVE  /\ Recorder!Ordered(S) \in Seq(S) /\ Len(Recorder!Ordered(S)) = Cardinality(S)
           /\ \A i, j \in 1..Len(Recorder!Ordered(S)) :
                 i < j => Recorder!Ordered(S)[i].start < Recorder!Ordered(S)[j].start
           /\ \A x \in S : \E i \in 1..Len(Recorder!Ordered(S)) : Recorder!Ordered(S)[i] = x
<1> DEFINE n == Cardinality(S)
           Sorted(s) == \A i, j \in DOMAIN s : i < j => s[i].start < s[j].start
           o == CHOOSE s \in [1..n -> S] : Sorted(s)
<1>0. n \in Nat
  BY FS_CardinalityType
<1>1. PICK r \in [S -> 1..n] : /\ \A x, y \in S : x.start < y.start => r[x] < r[y]
                               /\ \A i \in 1..n : \E x \in S : r[x] = i
  BY PlaceByTime
<1> DEFINE g == [i \in 1..n |-> CHOOSE x \in S : r[x] = i]
<1>2. \A i \in 1..n : g[i] \in S /\ r[g[i]] = i
  BY <1>1
<1>3. g \in [1..n -> S]
  BY <1>2
<1> HIDE DEF g
<1>4. ASSUME NEW i \in 1..n, NEW j \in 1..n, i < j
      PROVE  g[i].start < g[j].start
  <2>1. g[i] \in S /\ g[j] \in S /\ r[g[i]] = i /\ r[g[j]] = j
    BY <1>2
  <2>2. g[i].start \in Nat /\ g[j].start \in Nat
    BY <2>1
  <2>3. ~(g[j].start < g[i].start)
    <3> SUFFICES ASSUME g[j].start < g[i].start PROVE FALSE
      OBVIOUS
    <3>1. r[g[j]] < r[g[i]]
      BY <1>1, <2>1
    <3> QED BY <1>0, <1>4, <2>1, <3>1
  <2>4. g[j].start # g[i].start
    <3> SUFFICES ASSUME g[j].start = g[i].start PROVE FALSE
      OBVIOUS
    <3>1. g[j] = g[i]
      BY <2>1
    <3> QED BY <1>0, <1>4, <2>1, <3>1
  <2> QED BY <2>2, <2>3, <2>4
<1>5. Sorted(g)
  BY <1>3, <1>4
<1> HIDE DEF Sorted
<1>6. o \in [1..n -> S] /\ Sorted(o)
  BY <1>3, <1>5
<1>7. Recorder!Ordered(S) = o
  BY DEF Recorder!Ordered, Recorder!Cardinality, Cardinality, Sorted
<1> HIDE DEF o
<1>8. o \in Seq(S) /\ Len(o) = n /\ DOMAIN o = 1..n
  BY <1>0, <1>6
<1>9. \A i, j \in 1..n : i < j => o[i].start < o[j].start
  BY <1>6, <1>8 DEF Sorted
<1>10. o \in Injection(1..n, S)
  <2>1. ASSUME NEW i \in 1..n, NEW j \in 1..n, o[i] = o[j] PROVE i = j
    <3>1. o[i].start \in Nat /\ o[i].start = o[j].start
      BY <1>6, <2>1
    <3> QED BY <1>0, <1>9, <3>1
  <2> QED BY <1>6, <2>1 DEF Injection, IsInjective
<1>11. o \in Surjection(1..n, S)
  <2>1. IsFiniteSet(1..n) /\ Cardinality(1..n) = n
    BY <1>0, FS_Interval
  <2> QED BY <1>10, <2>1, FS_Injection
<1>12. \A x \in S : \E i \in 1..n : o[i] = x
  BY <1>11 DEF Surjection
<1> QED BY <1>7, <1>8, <1>9, <1>12

-----------------------------------------------------------------------------
(* The candles of memory and table.                                          *)
LEMMA DivGrows ==
    ASSUME NEW k \in Nat \ {0}, NEW n \in Nat, NEW m \in Nat, n <= m
    PROVE  n \div k \in Nat /\ m \div k \in Nat /\ n \div k <= m \div k
<1> DEFINE a == n \div k
           b == m \div k
<1>1. /\ a \in Int /\ k * a <= n /\ n < k * a + k
      /\ b \in Int /\ k * b <= m /\ m < k * b + k
  OBVIOUS
<1>2. a \in Nat /\ b \in Nat
  OBVIOUS
<1> HIDE DEF a, b
<1>3. SUFFICES ASSUME b < a PROVE FALSE
  BY <1>1, <1>2
<1>4. k * (b + 1) <= k * a
  BY <1>1, <1>3
<1>5. k * (b + 1) = k * b + k
  BY <1>1
<1> QED BY <1>1, <1>4, <1>5

\* A candle that tells of a tick t, a time and a price.
Covers(c, t) == c # Nothing /\ c.start = t[1] /\ c.low <= t[2] /\ t[2] <= c.high

RecorderTyped ==
    /\ now \in 0..MaxTicks /\ faults \in 0..WriteFaults /\ recorder_deaths \in 0..RecorderDeaths
    /\ DOMAIN recorder_market = Recorder!Buckets /\ DOMAIN table = Recorder!Buckets
    /\ \A b \in Recorder!Buckets :
          /\ recorder_market[b] # Nothing => recorder_market[b] \in Recorder!Candles /\ recorder_market[b].start = b
          /\ table[b] # Nothing => table[b] \in Recorder!Candles /\ table[b].start = b
    /\ completed \in Seq(Recorder!Candles) /\ Len(completed) <= Remembered /\ owed \in Seq(Recorder!Candles)
    /\ healed \in BOOLEAN /\ seen \subseteq Recorder!Buckets \X TickPrices

\* What is recorded is of the past, and the exchange has a bar for the candle in progress.
OfThePast ==
    /\ \A i \in 1..Len(completed) : completed[i].start <= Recorder!Bucket
    /\ forming # Nothing => /\ forming \in Recorder!Candles /\ forming.start <= Recorder!Bucket
                            /\ recorder_market[forming.start] # Nothing

\* Before the day's reconciliation, and while its bars are written, no two candles are of one time; the
\* tick after it may begin a second one.
Apart == \A i, j \in 1..Len(completed) : i < j => completed[i].start < completed[j].start
InOrder ==
    /\ \A i, j \in 1..Len(completed) : i < j => completed[i].start <= completed[j].start
    /\ forming # Nothing => \A i \in 1..Len(completed) : completed[i].start <= forming.start
    /\ ~healed \/ owed # <<>> => Apart
    /\ ~healed => /\ owed = <<>> /\ (forming = Nothing => completed = <<>>)
                  /\ forming # Nothing => \A i \in 1..Len(completed) : completed[i].start < forming.start

\* The exchange's bars cover every tick this process was told, and so do its candles until they are
\* forgotten for their age.
Heard    == \A t \in seen : Covers(recorder_market[t[1]], t)
Recorded ==
    \A t \in seen : \/ \E i \in 1..Len(completed) : Covers(completed[i], t)
                    \/ Covers(forming, t)
                    \/ Len(completed) = Remembered /\ t[1] <= completed[1].start

\* The table has the last candle of a time, or will have it when the broker's bars are written.
Stored ==
    /\ \A i \in 1..Len(completed), k \in 1..Len(owed) :
          completed[i].start = owed[k].start => completed[i] = owed[k]
    /\ faults = 0 =>
          \A i \in 1..Len(completed) :
             \/ \E j \in 1..Len(completed) : j > i /\ completed[j].start = completed[i].start
             \/ table[completed[i].start] = completed[i]
             \/ \E k \in 1..Len(owed) : owed[k] = completed[i]

RecorderInv == RecorderTyped /\ OfThePast /\ InOrder /\ Heard /\ Recorded /\ Stored

LEMMA CandleFacts ==
    ASSUME RecorderConstants, NEW c \in Recorder!Candles, NEW p \in TickPrices
    PROVE  /\ c # Nothing /\ c.start \in Recorder!Buckets /\ c.start \in Nat /\ c.low \in Nat /\ c.high \in Nat
           /\ Recorder!Widened(c, p) \in Recorder!Candles /\ Recorder!Widened(c, p).start = c.start
           /\ Recorder!Widened(c, p).low <= p /\ p <= Recorder!Widened(c, p).high
           /\ Recorder!Widened(c, p).low <= c.low /\ c.high <= Recorder!Widened(c, p).high
           /\ Recorder!Widened(c, p).low \in Nat /\ Recorder!Widened(c, p).high \in Nat
<1>1. /\ c \in Recorder!Candles /\ c # Nothing /\ c.start \in Recorder!Buckets
      /\ c.low \in TickPrices /\ c.high \in TickPrices
  BY DEF RecorderConstants, Recorder!Candles
<1>2. p \in Nat /\ c.low \in Nat /\ c.high \in Nat
  BY <1>1 DEF RecorderConstants
<1>3. c.start \in Nat
  BY <1>1 DEF Recorder!Buckets
<1> DEFINE h == IF p > c.high THEN p ELSE c.high
           l == IF p < c.low THEN p ELSE c.low
<1>4. h \in TickPrices /\ l \in TickPrices
  BY <1>1
<1>5. l <= p /\ p <= h /\ l <= c.low /\ c.high <= h /\ l \in Nat /\ h \in Nat
  BY <1>2
<1>6. Recorder!Widened(c, p) = [c EXCEPT !.high = h, !.low = l, !.close = p]
  BY DEF Recorder!Widened
<1> HIDE DEF h, l
<1>7. /\ Recorder!Widened(c, p) \in Recorder!Candles /\ Recorder!Widened(c, p).start = c.start
      /\ Recorder!Widened(c, p).high = h /\ Recorder!Widened(c, p).low = l
  BY <1>4, <1>6 DEF Recorder!Candles
<1> QED BY <1>1, <1>2, <1>3, <1>5, <1>7

LEMMA FreshFacts ==
    ASSUME RecorderConstants, NEW b \in Recorder!Buckets, NEW p \in TickPrices
    PROVE  /\ Recorder!Fresh(b, p) \in Recorder!Candles /\ Recorder!Fresh(b, p).start = b
           /\ Recorder!Fresh(b, p).low <= p /\ p <= Recorder!Fresh(b, p).high
<1>1. p \in Nat
  BY DEF RecorderConstants
<1>2. Recorder!Fresh(b, p) \in Recorder!Candles
  BY DEF Recorder!Fresh, Recorder!Candles
<1>3. Recorder!Fresh(b, p).start = b /\ Recorder!Fresh(b, p).low = p /\ Recorder!Fresh(b, p).high = p
  BY DEF Recorder!Fresh
<1> QED BY <1>1, <1>2, <1>3

LEMMA BucketFacts ==
    ASSUME RecorderConstants, now \in 0..MaxTicks
    PROVE  Recorder!Bucket \in Recorder!Buckets /\ Recorder!Bucket \in Nat
<1>1. now \in Nat /\ MaxTicks \in Nat /\ now <= MaxTicks /\ Ticks \in Nat \ {0}
  BY DEF RecorderConstants
<1>2. now \div Ticks \in Nat /\ MaxTicks \div Ticks \in Nat /\ now \div Ticks <= MaxTicks \div Ticks
  BY <1>1, DivGrows
<1> QED BY <1>2 DEF Recorder!Bucket, Recorder!Buckets

LEMMA MarketMoves ==
    ASSUME RecorderConstants, RecorderTyped, Heard, now < MaxTicks, now' = now + 1, NEW p \in TickPrices,
           recorder_market' = [recorder_market EXCEPT ![Recorder!Bucket] =
               IF @ = Nothing THEN Recorder!Fresh(Recorder!Bucket, p) ELSE Recorder!Widened(@, p)]
    PROVE  /\ now' \in 0..MaxTicks /\ Recorder!Bucket \in Recorder!Buckets /\ Recorder!Bucket \in Nat
           /\ Recorder!Bucket' \in Nat /\ Recorder!Bucket <= Recorder!Bucket'
           /\ DOMAIN recorder_market' = Recorder!Buckets
           /\ \A b \in Recorder!Buckets :
                recorder_market'[b] # Nothing => recorder_market'[b] \in Recorder!Candles /\ recorder_market'[b].start = b
           /\ \A b \in Recorder!Buckets : recorder_market[b] # Nothing => recorder_market'[b] # Nothing
           /\ recorder_market'[Recorder!Bucket] # Nothing
           /\ Covers(recorder_market'[Recorder!Bucket], <<Recorder!Bucket, p>>)
           /\ \A t \in seen : Covers(recorder_market'[t[1]], t)
<1> DEFINE B == Recorder!Bucket
           old == recorder_market[B]
           new == IF old = Nothing THEN Recorder!Fresh(B, p) ELSE Recorder!Widened(old, p)
<1>1. now \in 0..MaxTicks /\ now' \in 0..MaxTicks /\ now \in Nat /\ now + 1 \in Nat
  BY DEF RecorderTyped, RecorderConstants
<1>2. B \in Recorder!Buckets /\ B \in Nat
  BY <1>1, BucketFacts
<1>3. B' \in Nat /\ B <= B'
  <2>1. Ticks \in Nat \ {0}
    BY DEF RecorderConstants
  <2>2. (now + 1) \div Ticks \in Nat /\ now \div Ticks <= (now + 1) \div Ticks
    BY <1>1, <2>1, DivGrows
  <2> QED BY <2>2 DEF Recorder!Bucket
<1>4. old # Nothing => old \in Recorder!Candles /\ old.start = B
  BY <1>2 DEF RecorderTyped
<1>5. /\ new \in Recorder!Candles /\ new.start = B /\ new.low <= p /\ p <= new.high /\ new # Nothing
      /\ old # Nothing => new.low <= old.low /\ old.high <= new.high
  <2>1. CASE old = Nothing
    BY <1>2, <2>1, FreshFacts DEF RecorderConstants
  <2>2. CASE old # Nothing
    BY <1>4, <2>2, CandleFacts DEF RecorderConstants
  <2> QED BY <2>1, <2>2
<1>6. /\ DOMAIN recorder_market' = Recorder!Buckets /\ recorder_market'[B] = new
      /\ \A b \in Recorder!Buckets \ {B} : recorder_market'[b] = recorder_market[b]
  BY <1>2 DEF RecorderTyped
<1> HIDE DEF new
<1>7. \A b \in Recorder!Buckets :
        recorder_market'[b] # Nothing => recorder_market'[b] \in Recorder!Candles /\ recorder_market'[b].start = b
  BY <1>5, <1>6 DEF RecorderTyped
<1>8. Covers(recorder_market'[B], <<B, p>>)
  BY <1>5, <1>6 DEF Covers
<1>9. ASSUME NEW t \in seen PROVE Covers(recorder_market'[t[1]], t)
  <2>1. t[1] \in Recorder!Buckets /\ t[2] \in Nat /\ Covers(recorder_market[t[1]], t)
    BY DEF RecorderTyped, RecorderConstants, Heard
  <2>2. CASE t[1] = B
    <3>1. old # Nothing /\ old.low \in Nat /\ old.high \in Nat /\ new.low \in Nat /\ new.high \in Nat
      BY <1>4, <1>5, <2>1, <2>2, CandleFacts DEF Covers
    <3> QED BY <1>5, <1>6, <2>1, <2>2, <3>1 DEF Covers
  <2>3. CASE t[1] # B
    BY <1>6, <2>1, <2>3
  <2> QED BY <2>2, <2>3
<1> QED BY <1>1, <1>2, <1>3, <1>5, <1>6, <1>7, <1>8, <1>9

LEMMA LatestFacts ==
    ASSUME RecorderConstants, NEW s \in Seq(Recorder!Candles)
    PROVE  /\ Recorder!Latest(s) \in Seq(Recorder!Candles)
           /\ Len(Recorder!Latest(s)) = IF Len(s) <= Remembered THEN Len(s) ELSE Remembered
           /\ \A i \in 1..Len(Recorder!Latest(s)) :
                 /\ i + (Len(s) - Len(Recorder!Latest(s))) \in 1..Len(s)
                 /\ Recorder!Latest(s)[i] = s[i + (Len(s) - Len(Recorder!Latest(s)))]
<1>1. Remembered \in Nat /\ Remembered > 0 /\ Len(s) \in Nat
  BY DEF RecorderConstants
<1>2. CASE Len(s) <= Remembered
  BY <1>1, <1>2 DEF Recorder!Latest
<1>3. CASE ~(Len(s) <= Remembered)
  <2> DEFINE m == Len(s) - Remembered + 1
  <2>1. m \in 1..(Len(s) + 1) /\ Len(s) \in (m - 1)..Len(s) /\ Len(s) - m + 1 = Remembered /\ m <= Len(s)
    BY <1>1, <1>3
  <2>2. /\ SubSeq(s, m, Len(s)) \in Seq(Recorder!Candles) /\ Len(SubSeq(s, m, Len(s))) = Remembered
        /\ \A i \in 1..Remembered : SubSeq(s, m, Len(s))[i] = s[m + i - 1]
    BY <1>1, <2>1, SubSeqProperties
  <2>3. Recorder!Latest(s) = SubSeq(s, m, Len(s))
    BY <1>3 DEF Recorder!Latest
  <2>4. \A i \in 1..Remembered : m + i - 1 = i + (Len(s) - Remembered) /\ i + (Len(s) - Remembered) \in 1..Len(s)
    BY <1>1, <1>3
  <2> HIDE DEF m
  <2> QED BY <1>3, <2>2, <2>3, <2>4
<1> QED BY <1>2, <1>3

LEMMA PersistFacts ==
    ASSUME RecorderConstants, RecorderTyped, NEW c \in Recorder!Candles, Recorder!Persist(c)
    PROVE  /\ faults' \in 0..WriteFaults /\ DOMAIN table' = Recorder!Buckets
           /\ \A b \in Recorder!Buckets : table'[b] # Nothing => table'[b] \in Recorder!Candles /\ table'[b].start = b
           /\ faults' = 0 => /\ faults = 0 /\ table'[c.start] = c
                             /\ \A b \in Recorder!Buckets : b # c.start => table'[b] = table[b]
<1>1. c.start \in Recorder!Buckets
  BY DEF Recorder!Candles
<1>2. faults \in 0..WriteFaults /\ WriteFaults \in Nat
  BY DEF RecorderTyped, RecorderConstants
<1>3. /\ DOMAIN table = Recorder!Buckets
      /\ \A b \in Recorder!Buckets : table[b] # Nothing => table[b] \in Recorder!Candles /\ table[b].start = b
  BY DEF RecorderTyped
<1>4. CASE table' = [table EXCEPT ![c.start] = c] /\ UNCHANGED faults
  BY <1>1, <1>2, <1>3, <1>4
<1>5. CASE faults < WriteFaults /\ faults' = faults + 1 /\ UNCHANGED table
  <2>1. faults' \in 0..WriteFaults /\ faults' # 0
    BY <1>2, <1>5
  <2> QED BY <1>3, <1>5, <2>1
<1> QED BY <1>4, <1>5 DEF Recorder!Persist

LEMMA TradeUnheard ==
    ASSUME RecorderConstants, RecorderInv, now < MaxTicks, now' = now + 1, NEW p \in TickPrices,
           recorder_market' = [recorder_market EXCEPT ![Recorder!Bucket] =
               IF @ = Nothing THEN Recorder!Fresh(Recorder!Bucket, p) ELSE Recorder!Widened(@, p)],
           UNCHANGED <<forming, completed, table, seen, faults, owed, healed, recorder_deaths>>
    PROVE  RecorderInv'
<1>1. RecorderTyped /\ OfThePast /\ InOrder /\ Heard /\ Recorded /\ Stored
  BY DEF RecorderInv
<1>2. /\ now' \in 0..MaxTicks /\ Recorder!Bucket \in Recorder!Buckets /\ Recorder!Bucket \in Nat
      /\ Recorder!Bucket' \in Nat /\ Recorder!Bucket <= Recorder!Bucket'
      /\ DOMAIN recorder_market' = Recorder!Buckets
      /\ \A b \in Recorder!Buckets :
           recorder_market'[b] # Nothing => recorder_market'[b] \in Recorder!Candles /\ recorder_market'[b].start = b
      /\ \A b \in Recorder!Buckets : recorder_market[b] # Nothing => recorder_market'[b] # Nothing
      /\ \A t \in seen : Covers(recorder_market'[t[1]], t)
  BY <1>1, MarketMoves
<1>3. Recorder!Buckets' = Recorder!Buckets /\ Recorder!Candles' = Recorder!Candles
  BY DEF Recorder!Buckets, Recorder!Candles
<1>4. RecorderTyped'
  BY <1>1, <1>2, <1>3 DEF RecorderTyped
<1>5. OfThePast'
  <2>1. \A i \in 1..Len(completed) : completed[i] \in Recorder!Candles
    BY <1>1 DEF RecorderTyped
  <2>2. \A i \in 1..Len(completed) : completed[i].start \in Nat /\ completed[i].start <= Recorder!Bucket
    BY <1>1, <2>1 DEF OfThePast, Recorder!Candles, Recorder!Buckets
  <2>3. forming # Nothing => /\ forming \in Recorder!Candles /\ forming.start \in Recorder!Buckets
                             /\ forming.start \in Nat /\ forming.start <= Recorder!Bucket
                             /\ recorder_market[forming.start] # Nothing
    BY <1>1 DEF OfThePast, Recorder!Candles, Recorder!Buckets
  <2>4. completed' = completed /\ forming' = forming
    OBVIOUS
  <2>5. \A i \in 1..Len(completed) : completed[i].start <= Recorder!Bucket'
    BY <1>2, <2>2
  <2>6. forming # Nothing => forming.start <= Recorder!Bucket'
    BY <1>2, <2>3
  <2> QED BY <1>2, <1>3, <2>3, <2>4, <2>5, <2>6 DEF OfThePast
<1>6. InOrder'
  BY <1>1 DEF InOrder, Apart
<1>7. Heard'
  <2>1. \A t \in seen' : Covers(recorder_market'[t[1]], t)
    BY <1>2
  <2> QED BY <2>1 DEF Heard, Covers
<1>8. Recorded'
  BY <1>1 DEF Recorded, Covers
<1>9. Stored'
  BY <1>1 DEF Stored
<1> QED BY <1>4, <1>5, <1>6, <1>7, <1>8, <1>9 DEF RecorderInv

LEMMA DieKeeps ==
    ASSUME RecorderConstants, RecorderInv, Recorder!Die
    PROVE  RecorderInv'
<1>1. RecorderTyped
  BY DEF RecorderInv
<1>2. /\ forming' = Nothing /\ completed' = <<>> /\ owed' = <<>> /\ healed' = FALSE /\ seen' = {}
      /\ recorder_deaths' \in 0..RecorderDeaths /\ UNCHANGED <<now, recorder_market, table, faults>>
  BY <1>1 DEF Recorder!Die, RecorderTyped, RecorderConstants
<1>3. Len(completed') = 0 /\ completed' \in Seq(Recorder!Candles) /\ owed' \in Seq(Recorder!Candles)
      /\ Remembered \in Nat
  BY <1>2 DEF RecorderConstants
<1>4. Recorder!Buckets' = Recorder!Buckets /\ Recorder!Candles' = Recorder!Candles
  BY DEF Recorder!Buckets, Recorder!Candles
<1>5. RecorderTyped'
  <2>1. completed' \in Seq(Recorder!Candles') /\ Len(completed') <= Remembered /\ owed' \in Seq(Recorder!Candles')
    BY <1>3, <1>4
  <2>2. healed' \in BOOLEAN /\ seen' \subseteq Recorder!Buckets' \X TickPrices
    BY <1>2
  <2> QED BY <1>1, <1>2, <1>4, <2>1, <2>2 DEF RecorderTyped
<1>6. OfThePast' /\ InOrder' /\ Heard' /\ Recorded' /\ Stored'
  BY <1>2, <1>3 DEF OfThePast, InOrder, Apart, Heard, Recorded, Stored
<1> QED BY <1>5, <1>6 DEF RecorderInv

LEMMA WriteKeeps ==
    ASSUME RecorderConstants, RecorderInv, Recorder!WriteOwed
    PROVE  RecorderInv'
<1>1. RecorderTyped /\ OfThePast /\ InOrder /\ Heard /\ Recorded /\ Stored
  BY DEF RecorderInv
<1>2. /\ owed # <<>> /\ Recorder!Persist(Head(owed)) /\ owed' = Tail(owed)
      /\ UNCHANGED <<now, recorder_market, forming, completed, healed, seen, recorder_deaths>>
  BY DEF Recorder!WriteOwed
<1>3. owed \in Seq(Recorder!Candles) /\ completed \in Seq(Recorder!Candles)
  BY <1>1 DEF RecorderTyped
<1> DEFINE c == Head(owed)
<1>4. /\ c \in Recorder!Candles /\ c = owed[1] /\ 1 \in 1..Len(owed) /\ Tail(owed) \in Seq(Recorder!Candles)
      /\ \A k \in 1..Len(Tail(owed)) : k + 1 \in 1..Len(owed) /\ Tail(owed)[k] = owed[k + 1]
      /\ \A k \in 1..Len(owed) : k # 1 => k - 1 \in 1..Len(Tail(owed)) /\ Tail(owed)[k - 1] = owed[k]
  BY <1>2, <1>3
<1>5. /\ faults' \in 0..WriteFaults /\ DOMAIN table' = Recorder!Buckets
      /\ \A b \in Recorder!Buckets : table'[b] # Nothing => table'[b] \in Recorder!Candles /\ table'[b].start = b
      /\ faults' = 0 => /\ faults = 0 /\ table'[c.start] = c
                        /\ \A b \in Recorder!Buckets : b # c.start => table'[b] = table[b]
  BY <1>1, <1>2, <1>4, PersistFacts
<1>6. Recorder!Buckets' = Recorder!Buckets /\ Recorder!Candles' = Recorder!Candles /\ Recorder!Bucket' = Recorder!Bucket
  BY <1>2 DEF Recorder!Buckets, Recorder!Candles, Recorder!Bucket
<1> HIDE DEF c
<1>7. RecorderTyped'
  BY <1>1, <1>2, <1>4, <1>5, <1>6 DEF RecorderTyped
<1>8. OfThePast'
  BY <1>1, <1>2, <1>6 DEF OfThePast
<1>9. healed /\ Apart
  BY <1>1, <1>2 DEF InOrder
<1>10. InOrder'
  BY <1>1, <1>2, <1>9 DEF InOrder, Apart
<1>11. Heard' /\ Recorded'
  BY <1>1, <1>2 DEF Heard, Recorded, Covers
<1>12. \A i \in 1..Len(completed), k \in 1..Len(owed) :
         completed[i].start = owed[k].start => completed[i] = owed[k]
  BY <1>1 DEF Stored
<1>13. \A i \in 1..Len(completed), k \in 1..Len(owed') :
         completed[i].start = owed'[k].start => completed[i] = owed'[k]
  BY <1>2, <1>4, <1>12
<1>14. ASSUME faults' = 0, NEW i \in 1..Len(completed)
       PROVE  \/ \E j \in 1..Len(completed) : j > i /\ completed[j].start = completed[i].start
              \/ table'[completed[i].start] = completed[i]
              \/ \E k \in 1..Len(owed') : owed'[k] = completed[i]
  <2>1. \/ \E j \in 1..Len(completed) : j > i /\ completed[j].start = completed[i].start
        \/ table[completed[i].start] = completed[i]
        \/ \E k \in 1..Len(owed) : owed[k] = completed[i]
    BY <1>1, <1>5, <1>14 DEF Stored
  <2>2. completed[i] \in Recorder!Candles
    BY <1>3
  <2>3. completed[i].start \in Recorder!Buckets
    BY <2>2 DEF Recorder!Candles
  <2>4. CASE completed[i].start = c.start
    <3>1. completed[i] = c
      BY <1>4, <1>12, <2>4
    <3> QED BY <1>5, <1>14, <3>1
  <2>5. CASE completed[i].start # c.start
    <3>1. table'[completed[i].start] = table[completed[i].start]
      BY <1>5, <1>14, <2>3, <2>5
    <3>2. ASSUME NEW k \in 1..Len(owed), owed[k] = completed[i]
          PROVE  \E l \in 1..Len(owed') : owed'[l] = completed[i]
      <4>1. k # 1
        BY <1>4, <2>5, <3>2
      <4>2. k - 1 \in 1..Len(Tail(owed)) /\ Tail(owed)[k - 1] = completed[i]
        BY <1>4, <3>2, <4>1
      <4> QED BY <1>2, <4>2
    <3> QED BY <2>1, <3>1, <3>2
  <2> QED BY <2>4, <2>5
<1>15. completed' = completed
  BY <1>2
<1>16. Stored'
  BY <1>13, <1>14, <1>15 DEF Stored
<1> QED BY <1>7, <1>8, <1>10, <1>11, <1>16 DEF RecorderInv

\* What a tick that is heard changes of the past and of what was heard, whichever candle it goes to.
LEMMA TickHeard ==
    ASSUME RecorderConstants, RecorderInv, now < MaxTicks, now' = now + 1, NEW p \in TickPrices,
           recorder_market' = [recorder_market EXCEPT ![Recorder!Bucket] =
               IF @ = Nothing THEN Recorder!Fresh(Recorder!Bucket, p) ELSE Recorder!Widened(@, p)],
           seen' = seen \union {<<Recorder!Bucket, p>>}
    PROVE  /\ \A i \in 1..Len(completed) : /\ completed[i] \in Recorder!Candles /\ completed[i].start \in Nat
                                           /\ completed[i].start <= Recorder!Bucket
           /\ forming # Nothing => /\ forming \in Recorder!Candles /\ forming.start \in Nat
                                   /\ forming.start <= Recorder!Bucket
           /\ seen' \subseteq Recorder!Buckets \X TickPrices /\ Heard'
<1>1. RecorderTyped /\ OfThePast /\ Heard
  BY DEF RecorderInv
<1>2. /\ Recorder!Bucket \in Recorder!Buckets
      /\ Covers(recorder_market'[Recorder!Bucket], <<Recorder!Bucket, p>>)
      /\ \A t \in seen : Covers(recorder_market'[t[1]], t)
  BY <1>1, MarketMoves
<1>3. \A i \in 1..Len(completed) : completed[i] \in Recorder!Candles
  BY <1>1 DEF RecorderTyped
<1>4. \A i \in 1..Len(completed) : completed[i].start \in Nat /\ completed[i].start <= Recorder!Bucket
  BY <1>1, <1>3 DEF OfThePast, Recorder!Candles, Recorder!Buckets
<1>5. forming # Nothing => /\ forming \in Recorder!Candles /\ forming.start \in Nat
                           /\ forming.start <= Recorder!Bucket
  BY <1>1 DEF OfThePast, Recorder!Candles, Recorder!Buckets
<1>6. seen' \subseteq Recorder!Buckets \X TickPrices
  BY <1>1, <1>2 DEF RecorderTyped
<1>7. \A t \in seen' : Covers(recorder_market'[t[1]], t)
  <2> SUFFICES ASSUME NEW t \in seen' PROVE Covers(recorder_market'[t[1]], t)
    OBVIOUS
  <2>1. CASE t \in seen
    BY <1>2, <2>1
  <2>2. CASE t = <<Recorder!Bucket, p>>
    BY <1>2, <2>2
  <2> QED BY <2>1, <2>2
<1>8. Heard'
  BY <1>7 DEF Heard, Covers
<1> QED BY <1>3, <1>4, <1>5, <1>6, <1>8

\* A tick of the bucket in progress.
LEMMA TickWidens ==
    ASSUME RecorderConstants, RecorderInv, now < MaxTicks, now' = now + 1, NEW p \in TickPrices,
           recorder_market' = [recorder_market EXCEPT ![Recorder!Bucket] =
               IF @ = Nothing THEN Recorder!Fresh(Recorder!Bucket, p) ELSE Recorder!Widened(@, p)],
           seen' = seen \union {<<Recorder!Bucket, p>>},
           forming = Nothing \/ forming.start = Recorder!Bucket,
           forming' = IF forming = Nothing THEN Recorder!Fresh(Recorder!Bucket, p) ELSE Recorder!Widened(forming, p),
           UNCHANGED <<completed, table, faults, owed, healed, recorder_deaths>>
    PROVE  RecorderInv'
<1> DEFINE B == Recorder!Bucket
<1>1. RecorderTyped /\ OfThePast /\ InOrder /\ Recorded /\ Stored /\ Heard
  BY DEF RecorderInv
<1>2. /\ now' \in 0..MaxTicks /\ B \in Recorder!Buckets /\ B \in Nat
      /\ Recorder!Bucket' \in Nat /\ B <= Recorder!Bucket'
      /\ DOMAIN recorder_market' = Recorder!Buckets
      /\ \A b \in Recorder!Buckets :
           recorder_market'[b] # Nothing => recorder_market'[b] \in Recorder!Candles /\ recorder_market'[b].start = b
      /\ recorder_market'[B] # Nothing
  BY <1>1, MarketMoves
<1>3. /\ \A i \in 1..Len(completed) : /\ completed[i] \in Recorder!Candles /\ completed[i].start \in Nat
                                      /\ completed[i].start <= B
      /\ forming # Nothing => forming \in Recorder!Candles
      /\ seen' \subseteq Recorder!Buckets \X TickPrices /\ Heard'
  BY TickHeard
<1>4. Recorder!Buckets' = Recorder!Buckets /\ Recorder!Candles' = Recorder!Candles
  BY DEF Recorder!Buckets, Recorder!Candles
<1>5. /\ forming' \in Recorder!Candles /\ forming'.start = B /\ forming' # Nothing
      /\ forming'.low <= p /\ p <= forming'.high
      /\ forming # Nothing => /\ forming'.low <= forming.low /\ forming.high <= forming'.high
                              /\ forming.low \in Nat /\ forming.high \in Nat
      /\ forming'.low \in Nat /\ forming'.high \in Nat
  <2>1. CASE forming = Nothing
    <3>1. forming' = Recorder!Fresh(B, p)
      BY <2>1
    <3>2. forming' \in Recorder!Candles /\ forming'.start = B /\ forming'.low <= p /\ p <= forming'.high
      BY <1>2, <3>1, FreshFacts
    <3> QED BY <2>1, <3>2, CandleFacts
  <2>2. CASE forming # Nothing
    <3>1. forming' = Recorder!Widened(forming, p) /\ forming.start = B /\ forming \in Recorder!Candles
      BY <1>3, <2>2
    <3>2. /\ forming' \in Recorder!Candles /\ forming'.start = B
          /\ forming'.low <= p /\ p <= forming'.high
          /\ forming'.low <= forming.low /\ forming.high <= forming'.high
          /\ forming.low \in Nat /\ forming.high \in Nat /\ forming'.low \in Nat /\ forming'.high \in Nat
      BY <3>1, CandleFacts
    <3> QED BY <3>2 DEF RecorderConstants
  <2> QED BY <2>1, <2>2
<1>6. RecorderTyped'
  BY <1>1, <1>2, <1>3, <1>4 DEF RecorderTyped
<1>7. OfThePast'
  <2>1. completed' = completed
    OBVIOUS
  <2>2. \A i \in 1..Len(completed) : completed[i].start <= Recorder!Bucket'
    BY <1>2, <1>3
  <2>3. forming'.start <= Recorder!Bucket' /\ recorder_market'[forming'.start] # Nothing
    BY <1>2, <1>5
  <2>4. forming' \in Recorder!Candles'
    BY <1>4, <1>5
  <2> QED BY <2>1, <2>2, <2>3, <2>4 DEF OfThePast
<1>8. InOrder'
  <2>1. forming' # Nothing /\ \A i \in 1..Len(completed) : completed[i].start <= forming'.start
    BY <1>3, <1>5
  <2>2. ASSUME ~healed
        PROVE  \A i \in 1..Len(completed) : completed[i].start < forming'.start
    <3>1. CASE forming = Nothing
      <4>1. completed = <<>>
        BY <1>1, <2>2, <3>1 DEF InOrder
      <4> QED BY <4>1
    <3>2. CASE forming # Nothing
      <4>1. forming.start = forming'.start
        BY <1>5, <3>2
      <4> QED BY <1>1, <2>2, <3>2, <4>1 DEF InOrder
    <3> QED BY <3>1, <3>2
  <2>3. UNCHANGED <<completed, healed, owed>>
    OBVIOUS
  <2> QED BY <1>1, <2>1, <2>2, <2>3 DEF InOrder, Apart
<1>9. Recorded'
  <2>1. SUFFICES ASSUME NEW t \in seen'
                 PROVE  \/ \E i \in 1..Len(completed) : Covers(completed[i], t)
                        \/ Covers(forming', t)
                        \/ Len(completed) = Remembered /\ t[1] <= completed[1].start
    BY DEF Recorded, Covers
  <2>2. CASE t = <<B, p>>
    <3>1. t[1] = B /\ t[2] = p
      BY <2>2
    <3> QED BY <1>5, <3>1 DEF Covers
  <2>3. CASE t \in seen
    <3>1. t[2] \in Nat
      BY <1>1, <2>3 DEF RecorderTyped, RecorderConstants
    <3>2. ASSUME Covers(forming, t) PROVE Covers(forming', t)
      <4>1. forming # Nothing /\ forming.start = t[1] /\ forming.low <= t[2] /\ t[2] <= forming.high
        BY <3>2 DEF Covers
      <4>2. forming'.start = t[1]
        BY <1>5, <4>1
      <4>3. forming'.low <= t[2] /\ t[2] <= forming'.high
        BY <1>5, <3>1, <4>1
      <4> QED BY <1>5, <4>2, <4>3 DEF Covers
    <3> QED BY <1>1, <2>3, <3>2 DEF Recorded
  <2> QED BY <2>2, <2>3
<1>10. Stored'
  BY <1>1 DEF Stored
<1> QED BY <1>3, <1>6, <1>7, <1>8, <1>9, <1>10 DEF RecorderInv

\* What is kept of candles to which one is added.
LEMMA ClosedFacts ==
    ASSUME RecorderConstants, completed \in Seq(Recorder!Candles), Len(completed) <= Remembered,
           NEW c \in Recorder!Candles, completed' = Recorder!Latest(Append(completed, c))
    PROVE  /\ completed' \in Seq(Recorder!Candles) /\ Len(completed') <= Remembered /\ Len(completed') \in 1..(Len(completed) + 1)
           /\ completed'[Len(completed')] = c
           /\ \/ /\ Len(completed') = Len(completed) + 1
                 /\ \A i \in 1..Len(completed) : completed'[i] = completed[i]
              \/ /\ Len(completed') = Len(completed) /\ Len(completed') = Remembered
                 /\ \A i \in 1..(Len(completed') - 1) : completed'[i] = completed[i + 1]
<1> DEFINE s == Append(completed, c)
           d == completed'
<1>1. /\ s \in Seq(Recorder!Candles) /\ Len(s) = Len(completed) + 1 /\ s[Len(completed) + 1] = c
      /\ \A i \in 1..Len(completed) : s[i] = completed[i]
      /\ Len(completed) \in Nat /\ Remembered \in Nat /\ Remembered > 0
  BY DEF RecorderConstants
<1> HIDE DEF s
<1> HIDE DEF d
<1>2. /\ d \in Seq(Recorder!Candles)
      /\ Len(d) = IF Len(s) <= Remembered THEN Len(s) ELSE Remembered
      /\ \A i \in 1..Len(d) : /\ i + (Len(s) - Len(d)) \in 1..Len(s)
                              /\ d[i] = s[i + (Len(s) - Len(d))]
  BY <1>1, LatestFacts DEF s, d
<1>3. CASE Len(s) <= Remembered
  <2>1. Len(d) = Len(completed) + 1 /\ Len(d) \in 1..Len(d)
    BY <1>1, <1>2, <1>3
  <2>2. \A i \in 1..Len(d) : d[i] = s[i]
    BY <1>1, <1>2, <1>3, <2>1
  <2> QED BY <1>1, <1>2, <1>3, <2>1, <2>2 DEF d
<1>4. CASE ~(Len(s) <= Remembered)
  <2>1. Len(d) = Remembered /\ Len(completed) = Remembered /\ Len(s) - Len(d) = 1
    BY <1>1, <1>2, <1>4
  <2>2. \A i \in 1..Len(d) : i + 1 \in 1..Len(s) /\ d[i] = s[i + 1]
    BY <1>1, <1>2, <2>1
  <2>3. d[Len(d)] = c
    BY <1>1, <2>1, <2>2
  <2>4. \A i \in 1..(Len(d) - 1) : d[i] = completed[i + 1]
    BY <1>1, <2>1, <2>2
  <2> QED BY <1>1, <1>2, <2>1, <2>3, <2>4 DEF d
<1> QED BY <1>3, <1>4

\* The first tick of a later bucket.
LEMMA TickCloses ==
    ASSUME RecorderConstants, RecorderInv, now < MaxTicks, now' = now + 1, NEW p \in TickPrices,
           recorder_market' = [recorder_market EXCEPT ![Recorder!Bucket] =
               IF @ = Nothing THEN Recorder!Fresh(Recorder!Bucket, p) ELSE Recorder!Widened(@, p)],
           seen' = seen \union {<<Recorder!Bucket, p>>},
           forming # Nothing, forming.start # Recorder!Bucket, owed = <<>>,
           forming' = Recorder!Fresh(Recorder!Bucket, p),
           completed' = Recorder!Latest(Append(completed, forming)), Recorder!Persist(forming),
           UNCHANGED <<owed, healed, recorder_deaths>>
    PROVE  RecorderInv'
<1> DEFINE B == Recorder!Bucket
           n == Len(completed)
           m == Len(completed')
<1>1. RecorderTyped /\ OfThePast /\ InOrder /\ Recorded /\ Stored /\ Heard
  BY DEF RecorderInv
<1>2. /\ now' \in 0..MaxTicks /\ B \in Recorder!Buckets /\ B \in Nat
      /\ Recorder!Bucket' \in Nat /\ B <= Recorder!Bucket'
      /\ DOMAIN recorder_market' = Recorder!Buckets
      /\ \A b \in Recorder!Buckets :
           recorder_market'[b] # Nothing => recorder_market'[b] \in Recorder!Candles /\ recorder_market'[b].start = b
      /\ recorder_market'[B] # Nothing
  BY <1>1, MarketMoves
<1>3. /\ \A i \in 1..n : /\ completed[i] \in Recorder!Candles /\ completed[i].start \in Nat
                         /\ completed[i].start <= B
      /\ forming \in Recorder!Candles /\ forming.start \in Nat /\ forming.start <= B
      /\ seen' \subseteq Recorder!Buckets \X TickPrices /\ Heard'
  BY TickHeard
<1>4. Recorder!Buckets' = Recorder!Buckets /\ Recorder!Candles' = Recorder!Candles
  BY DEF Recorder!Buckets, Recorder!Candles
<1>5. /\ forming' \in Recorder!Candles /\ forming'.start = B /\ forming' # Nothing
      /\ Covers(forming', <<B, p>>)
  <2>1. /\ forming' \in Recorder!Candles /\ forming'.start = B /\ forming'.low <= p /\ p <= forming'.high
    BY <1>2, FreshFacts
  <2> QED BY <2>1 DEF RecorderConstants, Covers
<1>6. completed \in Seq(Recorder!Candles) /\ n <= Remembered /\ n \in Nat
  BY <1>1 DEF RecorderTyped
<1>7. /\ completed' \in Seq(Recorder!Candles) /\ m <= Remembered /\ m \in 1..(n + 1)
      /\ completed'[m] = forming
      /\ \/ /\ m = n + 1
            /\ \A i \in 1..n : completed'[i] = completed[i]
         \/ /\ m = n /\ m = Remembered
            /\ \A i \in 1..(m - 1) : completed'[i] = completed[i + 1]
  BY <1>3, <1>6, ClosedFacts
<1>8. /\ faults' \in 0..WriteFaults /\ DOMAIN table' = Recorder!Buckets
      /\ \A b \in Recorder!Buckets : table'[b] # Nothing => table'[b] \in Recorder!Candles /\ table'[b].start = b
      /\ faults' = 0 => /\ faults = 0 /\ table'[forming.start] = forming
                        /\ \A b \in Recorder!Buckets : b # forming.start => table'[b] = table[b]
  BY <1>1, <1>3, PersistFacts
<1>9. /\ \A i, j \in 1..n : i < j => completed[i].start <= completed[j].start
      /\ \A i \in 1..n : completed[i].start <= forming.start
      /\ ~healed => Apart /\ \A i \in 1..n : completed[i].start < forming.start
      /\ ~healed => owed = <<>>
  BY <1>1 DEF InOrder
\* The oldest candle is forgotten when there is no room for it.
<1>10. PICK d \in {0, 1} :
         /\ m = n + 1 - d /\ (d = 1 => m = Remembered)
         /\ \A i \in 1..m : i # m => i + d \in 1..n /\ completed'[i] = completed[i + d]
         /\ \A l \in 1..n : l > d => l - d \in 1..m /\ l - d # m /\ completed'[l - d] = completed[l]
  <2>1. CASE m = n + 1 /\ \A x \in 1..n : completed'[x] = completed[x]
    <3>1. \A i \in 1..m : i # m => i + 0 \in 1..n /\ completed'[i] = completed[i + 0]
      BY <1>6, <2>1
    <3>2. \A l \in 1..n : l > 0 => l - 0 \in 1..m /\ l - 0 # m /\ completed'[l - 0] = completed[l]
      BY <1>6, <2>1
    <3> QED BY <1>6, <2>1, <3>1, <3>2
  <2>2. CASE m = n /\ m = Remembered /\ \A x \in 1..(m - 1) : completed'[x] = completed[x + 1]
    <3>1. \A i \in 1..m : i # m => i + 1 \in 1..n /\ completed'[i] = completed[i + 1]
      BY <1>6, <2>2
    <3>2. \A l \in 1..n : l > 1 => l - 1 \in 1..m /\ l - 1 # m /\ completed'[l - 1] = completed[l]
      BY <1>6, <2>2
    <3> QED BY <1>6, <2>2, <3>1, <3>2
  <2> QED BY <1>7, <2>1, <2>2
<1> HIDE DEF m
<1>11. \A i \in 1..m : /\ completed'[i].start \in Nat /\ completed'[i].start <= forming.start
                       /\ ~healed /\ i # m => completed'[i].start < forming.start
  <2> SUFFICES ASSUME NEW i \in 1..m
               PROVE  /\ completed'[i].start \in Nat /\ completed'[i].start <= forming.start
                      /\ ~healed /\ i # m => completed'[i].start < forming.start
    OBVIOUS
  <2>1. CASE i = m
    BY <1>3, <1>7, <2>1
  <2>2. CASE i # m
    <3>1. i + d \in 1..n /\ completed'[i] = completed[i + d]
      BY <1>10, <2>2
    <3> QED BY <1>3, <1>9, <2>2, <3>1
  <2> QED BY <2>1, <2>2
<1>12. ASSUME NEW i \in 1..m, NEW j \in 1..m, i < j
       PROVE  /\ completed'[i].start <= completed'[j].start
              /\ ~healed => completed'[i].start < completed'[j].start
  <2>0. i # m
    BY <1>7, <1>12
  <2>1. CASE j = m
    BY <1>7, <1>11, <2>0, <2>1
  <2>2. CASE j # m
    <3>1. /\ i + d \in 1..n /\ completed'[i] = completed[i + d]
          /\ j + d \in 1..n /\ completed'[j] = completed[j + d]
      BY <1>10, <2>0, <2>2
    <3>2. i + d < j + d
      BY <1>7, <1>10, <1>12
    <3> QED BY <1>9, <3>1, <3>2 DEF Apart
  <2> QED BY <2>1, <2>2
<1>13. RecorderTyped'
  <2>1. completed' \in Seq(Recorder!Candles') /\ Len(completed') <= Remembered
    BY <1>4, <1>7 DEF m
  <2> QED BY <1>1, <1>2, <1>3, <1>4, <1>8, <2>1 DEF RecorderTyped
<1>14. OfThePast'
  <2>1. \A i \in 1..m : completed'[i].start <= Recorder!Bucket'
    BY <1>2, <1>3, <1>11
  <2>2. forming'.start <= Recorder!Bucket' /\ recorder_market'[forming'.start] # Nothing
    BY <1>2, <1>5
  <2>3. forming' \in Recorder!Candles'
    BY <1>4, <1>5
  <2> QED BY <2>1, <2>2, <2>3 DEF OfThePast, m
<1>15. InOrder'
  <2>1. forming.start < B
    BY <1>2, <1>3
  <2>2. \A i \in 1..m : completed'[i].start < forming'.start
    BY <1>2, <1>3, <1>5, <1>11, <2>1
  <2>3. \A i, j \in 1..m : i < j => /\ completed'[i].start <= completed'[j].start
                                    /\ ~healed => completed'[i].start < completed'[j].start
    BY <1>12
  <2>4. forming' # Nothing /\ owed' = <<>> /\ healed' = healed
    BY <1>5
  <2>5. ~healed => Apart'
    BY <2>3 DEF Apart, m
  <2>6. \A i \in 1..m : completed'[i].start <= forming'.start
    BY <1>2, <1>5, <1>11, <2>2
  <2> QED BY <2>2, <2>3, <2>4, <2>5, <2>6 DEF InOrder, m
<1>16. Recorded'
  <2>1. SUFFICES ASSUME NEW t \in seen'
                 PROVE  \/ \E i \in 1..m : Covers(completed'[i], t)
                        \/ Covers(forming', t)
                        \/ m = Remembered /\ t[1] <= completed'[1].start
    BY DEF Recorded, Covers, m
  <2>2. CASE t = <<B, p>>
    BY <1>5, <2>2
  <2>3. CASE t \in seen
    <3>0. t[1] \in Nat /\ m \in 1..m /\ 1 \in 1..m
      <4>1. t[1] \in Recorder!Buckets
        BY <1>1, <2>3 DEF RecorderTyped
      <4> QED BY <1>7, <4>1 DEF Recorder!Buckets
    <3>1. CASE Covers(forming, t)
      BY <1>7, <3>0, <3>1
    <3>2. ASSUME NEW i \in 1..n, Covers(completed[i], t), i > d
          PROVE  \E x \in 1..m : Covers(completed'[x], t)
      BY <1>10, <3>2
    <3>3. ASSUME NEW i \in 1..n, t[1] <= completed[i].start, d = 1, i = 1
          PROVE  m = Remembered /\ t[1] <= completed'[1].start
      <4>1. completed[1].start \in Nat /\ completed'[1].start \in Nat /\ completed[1].start <= completed'[1].start
        <5>1. CASE m = 1
          BY <1>3, <1>7, <1>9, <3>3, <5>1
        <5>2. CASE m # 1
          <6>1. 1 \in 1..n /\ 2 \in 1..n /\ completed'[1] = completed[2]
            BY <1>10, <3>0, <3>3, <5>2
          <6> QED BY <1>3, <1>9, <6>1
        <5> QED BY <5>1, <5>2
      <4> QED BY <1>10, <3>0, <3>3, <4>1
    <3>4. ASSUME NEW i \in 1..n, Covers(completed[i], t), ~(i > d)
          PROVE  m = Remembered /\ t[1] <= completed'[1].start
      <4>1. d = 1 /\ i = 1
        BY <1>10, <3>4
      <4>2. t[1] = completed[i].start /\ completed[i].start \in Nat
        BY <1>3, <3>4 DEF Covers
      <4> QED BY <3>3, <4>1, <4>2
    <3>5. ASSUME n = Remembered, t[1] <= completed[1].start
          PROVE  m = Remembered /\ t[1] <= completed'[1].start
      <4>1. d = 1 /\ 1 \in 1..n
        BY <1>6, <1>7, <1>10, <3>5 DEF RecorderConstants
      <4> QED BY <3>3, <3>5, <4>1
    <3> QED BY <1>1, <2>3, <3>1, <3>2, <3>4, <3>5 DEF Recorded
  <2> QED BY <2>2, <2>3
<1>17. Stored'
  <2>1. ASSUME faults' = 0, NEW i \in 1..m
        PROVE  \/ \E j \in 1..m : j > i /\ completed'[j].start = completed'[i].start
               \/ table'[completed'[i].start] = completed'[i]
    <3>1. CASE i = m
      BY <1>7, <1>8, <2>1, <3>1
    <3>2. CASE i # m
      <4>1. m \in 1..m /\ m > i /\ completed'[m] = forming
        BY <1>7, <3>2
      <4>2. CASE completed'[i].start = forming.start
        BY <4>1, <4>2
      <4>3. CASE completed'[i].start # forming.start
        <5>1. i + d \in 1..n /\ completed'[i] = completed[i + d]
          BY <1>10, <3>2
        <5>2. completed[i + d].start \in Recorder!Buckets
          BY <1>3, <5>1 DEF Recorder!Candles
        <5>3. table'[completed[i + d].start] = table[completed[i + d].start]
          BY <1>8, <2>1, <4>3, <5>1, <5>2
        <5>4. \/ \E l \in 1..n : l > i + d /\ completed[l].start = completed[i + d].start
              \/ table[completed[i + d].start] = completed[i + d]
          BY <1>1, <1>8, <2>1, <5>1 DEF Stored
        <5>5. ASSUME NEW l \in 1..n, l > i + d, completed[l].start = completed[i + d].start
              PROVE  \E j \in 1..m : j > i /\ completed'[j].start = completed'[i].start
          <6>1. l - d \in 1..m /\ completed'[l - d] = completed[l]
            BY <1>10, <5>5
          <6>2. l - d > i
            BY <1>10, <5>5
          <6> QED BY <5>1, <5>5, <6>1, <6>2
        <5> QED BY <5>1, <5>3, <5>4, <5>5
      <4> QED BY <4>2, <4>3
    <3> QED BY <3>1, <3>2
  <2>2. owed' = <<>>
    OBVIOUS
  <2> QED BY <2>1, <2>2 DEF Stored, m
<1> QED BY <1>3, <1>13, <1>14, <1>15, <1>16, <1>17 DEF RecorderInv

LEMMA OrderedCandles ==
    ASSUME RecorderConstants, NEW S, S \subseteq Recorder!Candles, \A x, y \in S : x.start = y.start => x = y
    PROVE  /\ Recorder!Ordered(S) \in Seq(Recorder!Candles)
           /\ \A i \in 1..Len(Recorder!Ordered(S)) : Recorder!Ordered(S)[i] \in S
           /\ \A i, j \in 1..Len(Recorder!Ordered(S)) :
                 i < j => Recorder!Ordered(S)[i].start < Recorder!Ordered(S)[j].start
           /\ \A x \in S : \E i \in 1..Len(Recorder!Ordered(S)) : Recorder!Ordered(S)[i] = x
<1>1. \A x \in S : x.start \in Recorder!Buckets
  BY DEF Recorder!Candles
<1>2. \A x \in S : x.start \in Nat
  BY <1>1 DEF Recorder!Buckets
<1>3. IsFiniteSet(Recorder!Buckets)
  <2>1. MaxTicks \div Ticks \in Int
    BY DEF RecorderConstants
  <2> QED BY <2>1, FS_Interval DEF Recorder!Buckets
<1> DEFINE f == [x \in S |-> x.start]
<1>4. f \in Injection(S, Recorder!Buckets)
  <2>1. f \in [S -> Recorder!Buckets]
    BY <1>1
  <2>2. \A x, y \in S : f[x] = f[y] => x = y
    OBVIOUS
  <2> HIDE DEF f
  <2> QED BY <2>1, <2>2 DEF Injection, IsInjective
<1> HIDE DEF f
<1>5. IsFiniteSet(S)
  BY <1>3, <1>4, FS_Injection
<1> DEFINE o == Recorder!Ordered(S)
<1>6. /\ o \in Seq(S)
      /\ \A i, j \in 1..Len(o) : i < j => o[i].start < o[j].start
      /\ \A x \in S : \E i \in 1..Len(o) : o[i] = x
  BY <1>2, <1>5, OrderedFacts
<1> HIDE DEF o
<1>7. \A i \in 1..Len(o) : o[i] \in S
  BY <1>6
<1>8. o \in Seq(Recorder!Candles)
  BY <1>6
<1> QED BY <1>6, <1>7, <1>8 DEF o

LEMMA BarsFacts ==
    ASSUME RecorderConstants, NEW by, NEW B, B \subseteq Recorder!Buckets,
           \A b \in Recorder!Buckets : by[b] # Nothing => by[b] \in Recorder!Candles /\ by[b].start = b
    PROVE  /\ Recorder!Bars(by, B) \in Seq(Recorder!Candles)
           /\ \A i \in 1..Len(Recorder!Bars(by, B)) :
                 /\ Recorder!Bars(by, B)[i].start \in B
                 /\ Recorder!Bars(by, B)[i] = by[Recorder!Bars(by, B)[i].start]
           /\ \A i, j \in 1..Len(Recorder!Bars(by, B)) :
                 i < j => Recorder!Bars(by, B)[i].start < Recorder!Bars(by, B)[j].start
           /\ \A b \in B : by[b] # Nothing => \E i \in 1..Len(Recorder!Bars(by, B)) : Recorder!Bars(by, B)[i] = by[b]
<1> DEFINE S == {by[b] : b \in {b \in B : by[b] # Nothing}}
           o == Recorder!Ordered(S)
<1>1. \A x \in S : x \in Recorder!Candles /\ x.start \in B /\ x = by[x.start]
  OBVIOUS
<1>2. \A x, y \in S : x.start = y.start => x = y
  BY <1>1
<1>3. \A b \in B : by[b] # Nothing => by[b] \in S
  OBVIOUS
<1>4. Recorder!Bars(by, B) = o
  BY DEF Recorder!Bars
<1> HIDE DEF S
<1>5. S \subseteq Recorder!Candles
  BY <1>1
<1>6. /\ o \in Seq(Recorder!Candles)
      /\ \A i \in 1..Len(o) : o[i] \in S
      /\ \A i, j \in 1..Len(o) : i < j => o[i].start < o[j].start
      /\ \A x \in S : \E i \in 1..Len(o) : o[i] = x
  BY <1>2, <1>5, OrderedCandles
<1> HIDE DEF o
<1>7. \A i \in 1..Len(o) : o[i].start \in B /\ o[i] = by[o[i].start]
  BY <1>1, <1>6
<1>8. \A b \in B : by[b] # Nothing => \E i \in 1..Len(o) : o[i] = by[b]
  BY <1>3, <1>6
<1> QED BY <1>4, <1>6, <1>7, <1>8

LEMMA MergedFacts ==
    ASSUME RecorderConstants, completed \in Seq(Recorder!Candles), Apart, NEW bars \in Seq(Recorder!Candles),
           \A i, j \in 1..Len(bars) : i < j => bars[i].start < bars[j].start
    PROVE  /\ Recorder!Merged(bars) \in Seq(Recorder!Candles)
           /\ \A i, j \in 1..Len(Recorder!Merged(bars)) :
                 i < j => Recorder!Merged(bars)[i].start < Recorder!Merged(bars)[j].start
           /\ \A i \in 1..Len(Recorder!Merged(bars)) :
                 \/ \E k \in 1..Len(bars) : Recorder!Merged(bars)[i] = bars[k]
                 \/ \E k \in 1..Len(completed) : /\ Recorder!Merged(bars)[i] = completed[k]
                                                 /\ completed[k].start \notin Recorder!Starts(bars)
           /\ \A k \in 1..Len(bars) : \E i \in 1..Len(Recorder!Merged(bars)) : Recorder!Merged(bars)[i] = bars[k]
           /\ \A k \in 1..Len(completed) :
                 completed[k].start \notin Recorder!Starts(bars) =>
                    \E i \in 1..Len(Recorder!Merged(bars)) : Recorder!Merged(bars)[i] = completed[k]
<1> DEFINE n == Len(completed)
           old == {i \in DOMAIN completed :
                     completed[i].start \notin Recorder!Starts(bars) /\ Recorder!LastOfItsTime(i)}
           S == {bars[i] : i \in DOMAIN bars} \union {completed[i] : i \in old}
           o == Recorder!Ordered(S)
<1>1. /\ DOMAIN bars = 1..Len(bars) /\ DOMAIN completed = 1..n
      /\ \A k \in 1..Len(bars) : bars[k] \in Recorder!Candles /\ bars[k].start \in Nat
      /\ \A k \in 1..n : completed[k] \in Recorder!Candles /\ completed[k].start \in Nat
  <2>1. /\ DOMAIN bars = 1..Len(bars) /\ DOMAIN completed = 1..n
        /\ \A k \in 1..Len(bars) : bars[k] \in Recorder!Candles
        /\ \A k \in 1..n : completed[k] \in Recorder!Candles
    OBVIOUS
  <2>2. \A c \in Recorder!Candles : c.start \in Nat
    BY DEF Recorder!Candles, Recorder!Buckets
  <2> QED BY <2>1, <2>2
<1>2. old = {i \in 1..n : completed[i].start \notin Recorder!Starts(bars)}
  <2>1. \A i \in 1..n : Recorder!LastOfItsTime(i)
    BY <1>1 DEF Recorder!LastOfItsTime, Apart
  <2> QED BY <1>1, <2>1
<1> HIDE DEF old
<1>3. \A x \in S : \/ \E k \in 1..Len(bars) : x = bars[k]
                   \/ \E k \in 1..n : x = completed[k] /\ completed[k].start \notin Recorder!Starts(bars)
  BY <1>1, <1>2
<1>4. /\ \A k \in 1..Len(bars) : bars[k] \in S
      /\ \A k \in 1..n : completed[k].start \notin Recorder!Starts(bars) => completed[k] \in S
  BY <1>1, <1>2
<1>5. Recorder!Merged(bars) = o
  BY DEF Recorder!Merged, old
<1> HIDE DEF S
<1>6. \A k \in 1..Len(bars) : bars[k].start \in Recorder!Starts(bars)
  BY <1>1 DEF Recorder!Starts
<1>7. ASSUME NEW x \in S, NEW y \in S, x.start = y.start PROVE x = y
  <2>1. \A i, j \in 1..Len(bars) : bars[i].start = bars[j].start => bars[i] = bars[j]
    <3> SUFFICES ASSUME NEW i \in 1..Len(bars), NEW j \in 1..Len(bars), bars[i].start = bars[j].start
                 PROVE  i = j
      OBVIOUS
    <3> QED BY <1>1
  <2>2. \A i, j \in 1..n : completed[i].start = completed[j].start => completed[i] = completed[j]
    <3> SUFFICES ASSUME NEW i \in 1..n, NEW j \in 1..n, completed[i].start = completed[j].start
                 PROVE  i = j
      OBVIOUS
    <3> QED BY <1>1 DEF Apart
  <2> QED BY <1>3, <1>6, <1>7, <2>1, <2>2
<1>8. S \subseteq Recorder!Candles
  BY <1>1, <1>3
<1>9. /\ o \in Seq(Recorder!Candles)
      /\ \A i \in 1..Len(o) : o[i] \in S
      /\ \A i, j \in 1..Len(o) : i < j => o[i].start < o[j].start
      /\ \A x \in S : \E i \in 1..Len(o) : o[i] = x
  BY <1>7, <1>8, OrderedCandles
<1> HIDE DEF o
<1>10. \A i \in 1..Len(o) :
         \/ \E k \in 1..Len(bars) : o[i] = bars[k]
         \/ \E k \in 1..n : o[i] = completed[k] /\ completed[k].start \notin Recorder!Starts(bars)
  BY <1>3, <1>9
<1>11. /\ \A k \in 1..Len(bars) : \E i \in 1..Len(o) : o[i] = bars[k]
       /\ \A k \in 1..n : completed[k].start \notin Recorder!Starts(bars) => \E i \in 1..Len(o) : o[i] = completed[k]
  BY <1>4, <1>9
<1> QED BY <1>5, <1>9, <1>10, <1>11

\* When memory is full of candles that no bar replaces, and a bar is before them, those are what is kept.
LEMMA FullOfKept ==
    ASSUME RecorderConstants, completed \in Seq(Recorder!Candles), Apart, Len(completed) = Remembered,
           NEW M \in Seq(Recorder!Candles), \A i, j \in 1..Len(M) : i < j => M[i].start < M[j].start,
           \A k \in 1..Len(completed) : \E i \in 1..Len(M) : M[i] = completed[k],
           NEW b \in 1..Len(M), M[b].start < completed[1].start
    PROVE  /\ Len(M) > Remembered
           /\ completed[1].start <= M[Len(M) - Remembered + 1].start
<1> DEFINE R == Remembered
           L == Len(M)
           f == [k \in 1..R |-> CHOOSE i \in 1..L : M[i] = completed[k]]
<1>1. R \in Nat /\ R > 0 /\ L \in Nat /\ 1 \in 1..R
  BY DEF RecorderConstants
<1>2. \A k \in 1..R : f[k] \in 1..L /\ M[f[k]] = completed[k]
  OBVIOUS
<1> HIDE DEF f
<1>3. /\ \A k \in 1..R : completed[k].start \in Nat
      /\ \A i \in 1..L : M[i].start \in Nat
  <2>1. /\ \A k \in 1..R : completed[k] \in Recorder!Candles
        /\ \A i \in 1..L : M[i] \in Recorder!Candles
    OBVIOUS
  <2>2. \A c \in Recorder!Candles : c.start \in Nat
    BY DEF Recorder!Candles, Recorder!Buckets
  <2> QED BY <2>1, <2>2
<1>4. \A k, l \in 1..R : k < l => completed[k].start < completed[l].start
  BY DEF Apart
<1>5. \A k \in 1..R : k # 1 => f[1] < f[k]
  <2> SUFFICES ASSUME NEW k \in 1..R, k # 1 PROVE f[1] < f[k]
    OBVIOUS
  <2>1. M[f[1]].start < M[f[k]].start
    BY <1>1, <1>2, <1>4
  <2>2. f[1] \in 1..L /\ f[k] \in 1..L
    BY <1>1, <1>2
  <2>3. M[f[1]].start \in Nat /\ M[f[k]].start \in Nat
    BY <1>3, <2>2
  <2>4. ~(f[k] < f[1])
    <3> SUFFICES ASSUME f[k] < f[1] PROVE FALSE
      OBVIOUS
    <3>1. M[f[k]].start < M[f[1]].start
      BY <2>2
    <3> QED BY <2>1, <2>3, <3>1
  <2>5. f[k] # f[1]
    BY <2>1, <2>3
  <2> QED BY <1>1, <2>2, <2>4, <2>5
<1>6. \A k, l \in 1..R : f[k] = f[l] => k = l
  <2>1. ASSUME NEW k \in 1..R, NEW l \in 1..R, f[k] = f[l]
        PROVE  ~(k < l)
    <3>1. completed[k] = completed[l] /\ completed[k].start \in Nat
      BY <1>2, <1>3, <2>1
    <3> QED BY <1>4, <3>1
  <2>2. ASSUME NEW k \in 1..R, NEW l \in 1..R, f[k] = f[l]
        PROVE  k = l
    <3>1. ~(k < l) /\ ~(l < k)
      BY <2>1, <2>2
    <3> QED BY <1>1, <3>1
  <2> QED BY <2>2
<1>7. b < f[1]
  <2>1. M[b].start < M[f[1]].start /\ f[1] \in 1..L
    BY <1>1, <1>2
  <2>2. ~(f[1] < b) /\ f[1] # b
    BY <1>1, <1>3, <2>1
  <2> QED BY <1>1, <2>1, <2>2
<1>8. f[1] <= L - R + 1
  <2> SUFFICES ASSUME ~(f[1] <= L - R + 1) PROVE FALSE
    OBVIOUS
  <2> DEFINE T == (L - R + 2)..L
             D == 1..R
             g == [k \in D |-> f[k]]
  <2>1. \A k \in 1..R : f[k] \in T
    <3> SUFFICES ASSUME NEW k \in 1..R PROVE f[k] \in T
      OBVIOUS
    <3>1. f[1] \in 1..L /\ f[k] \in 1..L
      BY <1>1, <1>2
    <3>2. f[1] <= f[k]
      BY <1>1, <1>5, <3>1
    <3>3. L - R + 2 <= f[k] /\ f[k] <= L /\ f[k] \in Int
      BY <1>1, <3>1, <3>2
    <3> QED BY <3>3
  <2>2. g \in [D -> T] /\ \A k, l \in D : g[k] = g[l] => k = l
    BY <1>6, <2>1
  <2>3. IsFiniteSet(D) /\ Cardinality(D) = R
    <3>1. 1 \in Int /\ R \in Int /\ ~(1 > R) /\ R - 1 + 1 = R
      BY <1>1
    <3>2. IsFiniteSet(D) /\ Cardinality(D) = IF 1 > R THEN 0 ELSE R - 1 + 1
      BY <3>1, FS_Interval
    <3> HIDE DEF D
    <3> QED BY <3>1, <3>2
  <2>4. IsFiniteSet(T) /\ Cardinality(T) < R
    <3>1. L - R + 2 \in Int /\ L \in Int
      BY <1>1
    <3>2. IsFiniteSet(T) /\ Cardinality(T) = IF L - R + 2 > L THEN 0 ELSE L - (L - R + 2) + 1
      BY <3>1, FS_Interval
    <3> HIDE DEF T
    <3> QED BY <1>1, <3>2
  <2> HIDE DEF T, D, g
  <2>5. \E k, l \in D : k # l /\ g[k] = g[l]
    BY <2>2, <2>3, <2>4, FS_PigeonHole
  <2> QED BY <2>2, <2>5
<1>9. L - R + 1 \in 1..L /\ L > R /\ f[1] \in 1..L
  <2>1. f[1] \in 1..L
    BY <1>1, <1>2
  <2>2. b \in Int /\ f[1] \in Int /\ 1 <= b
    BY <1>1, <2>1
  <2>3. 1 < L - R + 1
    BY <1>1, <1>7, <1>8, <2>2
  <2>4. L > R /\ L - R + 1 <= L
    BY <1>1, <2>3
  <2> QED BY <1>1, <2>1, <2>3, <2>4
<1>10. completed[1].start <= M[L - R + 1].start
  <2>1. CASE f[1] = L - R + 1
    BY <1>1, <1>2, <1>3, <1>9, <2>1
  <2>2. CASE f[1] < L - R + 1
    <3>1. M[f[1]].start < M[L - R + 1].start
      BY <1>9, <2>2
    <3>2. M[f[1]] = completed[1] /\ M[f[1]].start \in Nat /\ M[L - R + 1].start \in Nat
      BY <1>1, <1>2, <1>3, <1>9
    <3> QED BY <3>1, <3>2
  <2>3. f[1] \in Int /\ L - R + 1 \in Int
    BY <1>9
  <2>4. f[1] = L - R + 1 \/ f[1] < L - R + 1
    BY <1>8, <2>3
  <2> QED BY <2>1, <2>2, <2>4
<1> QED BY <1>9, <1>10

\* The day's fetch replaces what was recorded.
LEMMA FetchMerges ==
    ASSUME RecorderConstants, RecorderInv, ~healed, owed = <<>>, forming # Nothing,
           NEW upto \in 0..Recorder!Bucket, NEW bars, bars = Recorder!Bars(recorder_market, 0..upto), bars # <<>>,
           completed' = Recorder!Latest(Recorder!Merged(bars)),
           forming' = IF forming.start \in Recorder!Starts(Recorder!Merged(bars)) THEN Nothing ELSE forming,
           owed' = bars, healed' = TRUE,
           UNCHANGED <<now, recorder_market, table, seen, faults, recorder_deaths>>
    PROVE  RecorderInv'
<1> DEFINE M == Recorder!Merged(bars)
           L == Len(M)
           n == Len(completed)
           m == Len(completed')
           B == Recorder!Bucket
<1>1. RecorderTyped /\ OfThePast /\ InOrder /\ Heard /\ Recorded /\ Stored
  BY DEF RecorderInv
<1>2. /\ Recorder!Buckets' = Recorder!Buckets /\ Recorder!Candles' = Recorder!Candles /\ Recorder!Bucket' = B
      /\ \A c \in Recorder!Candles : c.start \in Recorder!Buckets /\ c.start \in Nat /\ c # Nothing
  BY DEF Recorder!Buckets, Recorder!Candles, Recorder!Bucket, RecorderConstants
<1>3. /\ B \in Recorder!Buckets /\ B \in Nat /\ upto \in Nat /\ upto <= B /\ 0..upto \subseteq Recorder!Buckets
  <2>1. B \in Recorder!Buckets /\ B \in Nat
    BY <1>1, BucketFacts DEF RecorderTyped
  <2>2. upto \in Nat /\ upto <= B
    BY <2>1
  <2> DEFINE X == MaxTicks \div Ticks
  <2>3. X \in Int /\ Recorder!Buckets = 0..X
    BY DEF RecorderConstants, Recorder!Buckets
  <2> HIDE DEF X
  <2> QED BY <2>1, <2>2, <2>3
<1>4. /\ bars \in Seq(Recorder!Candles)
      /\ \A i \in 1..Len(bars) : bars[i].start \in 0..upto /\ bars[i] = recorder_market[bars[i].start]
      /\ \A i, j \in 1..Len(bars) : i < j => bars[i].start < bars[j].start
      /\ \A b \in 0..upto : recorder_market[b] # Nothing => \E i \in 1..Len(bars) : bars[i] = recorder_market[b]
  <2>1. \A b \in Recorder!Buckets :
          recorder_market[b] # Nothing => recorder_market[b] \in Recorder!Candles /\ recorder_market[b].start = b
    BY <1>1 DEF RecorderTyped
  <2> DEFINE D == 0..upto
             o == Recorder!Bars(recorder_market, D)
  <2>2. D \subseteq Recorder!Buckets
    BY <1>3
  <2> HIDE DEF D
  <2>3. /\ o \in Seq(Recorder!Candles)
        /\ \A i \in 1..Len(o) : o[i].start \in D /\ o[i] = recorder_market[o[i].start]
        /\ \A i, j \in 1..Len(o) : i < j => o[i].start < o[j].start
        /\ \A b \in D : recorder_market[b] # Nothing => \E i \in 1..Len(o) : o[i] = recorder_market[b]
    BY <2>1, <2>2, BarsFacts
  <2>4. bars = o
    BY DEF D
  <2> HIDE DEF o
  <2> QED BY <2>3, <2>4 DEF D
<1>5. /\ completed \in Seq(Recorder!Candles) /\ n <= Remembered /\ n \in Nat /\ Remembered \in Nat /\ Remembered > 0
      /\ Apart
      /\ \A k \in 1..n : /\ completed[k] \in Recorder!Candles /\ completed[k].start < forming.start
      /\ forming \in Recorder!Candles /\ forming.start <= B /\ recorder_market[forming.start] # Nothing
  BY <1>1 DEF RecorderTyped, InOrder, OfThePast, RecorderConstants
<1>6. /\ M \in Seq(Recorder!Candles)
      /\ \A i, j \in 1..L : i < j => M[i].start < M[j].start
      /\ \A i \in 1..L : \/ \E k \in 1..Len(bars) : M[i] = bars[k]
                         \/ \E k \in 1..n : M[i] = completed[k] /\ completed[k].start \notin Recorder!Starts(bars)
      /\ \A k \in 1..Len(bars) : \E i \in 1..L : M[i] = bars[k]
      /\ \A k \in 1..n : completed[k].start \notin Recorder!Starts(bars) => \E i \in 1..L : M[i] = completed[k]
  BY <1>4, <1>5, MergedFacts
<1>7. /\ Recorder!Starts(M) = {M[i].start : i \in 1..L}
      /\ Recorder!Starts(bars) = {bars[i].start : i \in 1..Len(bars)}
  BY <1>4, <1>6 DEF Recorder!Starts
<1>8. /\ completed' \in Seq(Recorder!Candles)
      /\ m = IF L <= Remembered THEN L ELSE Remembered
      /\ \A i \in 1..m : i + (L - m) \in 1..L /\ completed'[i] = M[i + (L - m)]
  BY <1>6, LatestFacts
<1>9. forming' = IF forming.start \in Recorder!Starts(M) THEN Nothing ELSE forming
  OBVIOUS
<1> HIDE DEF M, m
<1>10. L \in Nat /\ m \in Nat /\ m <= L /\ m <= Remembered
  BY <1>5, <1>6, <1>8
<1>11. \A i \in 1..L : M[i] \in Recorder!Candles /\ M[i].start \in Nat
  BY <1>2, <1>6
\* A time up to that of the fetch is one of the bars when the exchange has a bar for it.
<1>12. \A b \in 0..upto : recorder_market[b] # Nothing => \E i \in 1..L : M[i] = recorder_market[b]
  <2> SUFFICES ASSUME NEW b \in 0..upto, recorder_market[b] # Nothing
               PROVE  \E i \in 1..L : M[i] = recorder_market[b]
    OBVIOUS
  <2>1. PICK k \in 1..Len(bars) : bars[k] = recorder_market[b]
    BY <1>4
  <2> QED BY <1>6, <2>1
<1>13. \A i \in 1..L : M[i].start \in 0..upto \/ M[i].start < forming.start
  <2> SUFFICES ASSUME NEW i \in 1..L PROVE M[i].start \in 0..upto \/ M[i].start < forming.start
    OBVIOUS
  <2>1. ASSUME NEW k \in 1..Len(bars), M[i] = bars[k] PROVE M[i].start \in 0..upto
    BY <1>4, <2>1
  <2>2. ASSUME NEW k \in 1..n, M[i] = completed[k] PROVE M[i].start < forming.start
    BY <1>5, <2>2
  <2> QED BY <1>6, <2>1, <2>2
<1>14. forming' # Nothing => /\ forming' = forming /\ upto < forming.start
                             /\ \A i \in 1..L : M[i].start < forming.start
  <2> SUFFICES ASSUME forming' # Nothing
               PROVE  /\ forming' = forming /\ upto < forming.start
                      /\ \A i \in 1..L : M[i].start < forming.start
    OBVIOUS
  <2>1. forming.start \notin Recorder!Starts(M) /\ forming' = forming
    BY <1>9
  <2>2. forming.start \in Nat /\ forming.start \in Recorder!Buckets
    BY <1>2, <1>5
  <2>3. upto < forming.start
    <3> SUFFICES ASSUME forming.start <= upto PROVE FALSE
      BY <1>3, <2>2
    <3>1. PICK i \in 1..L : M[i] = recorder_market[forming.start]
      BY <1>3, <1>5, <1>12, <2>2
    <3>2. recorder_market[forming.start].start = forming.start
      BY <1>1, <1>5, <2>2 DEF RecorderTyped
    <3> QED BY <1>7, <2>1, <3>1, <3>2
  <2>4. \A i \in 1..L : M[i].start < forming.start
    BY <1>3, <1>11, <1>13, <2>2, <2>3
  <2> QED BY <2>1, <2>3, <2>4
<1>15. \A i, j \in 1..m : i < j => completed'[i].start < completed'[j].start
  <2> SUFFICES ASSUME NEW i \in 1..m, NEW j \in 1..m, i < j PROVE completed'[i].start < completed'[j].start
    OBVIOUS
  <2>1. /\ i + (L - m) \in 1..L /\ completed'[i] = M[i + (L - m)]
        /\ j + (L - m) \in 1..L /\ completed'[j] = M[j + (L - m)]
    BY <1>8
  <2>2. i + (L - m) < j + (L - m)
    BY <1>10
  <2> QED BY <1>6, <2>1, <2>2
<1>16. \A i \in 1..m : /\ completed'[i].start \in Nat /\ completed'[i].start <= B
                       /\ forming' # Nothing => completed'[i].start < forming'.start
  <2> SUFFICES ASSUME NEW i \in 1..m
               PROVE  /\ completed'[i].start \in Nat /\ completed'[i].start <= B
                      /\ forming' # Nothing => completed'[i].start < forming'.start
    OBVIOUS
  <2>1. PICK k \in 1..L : completed'[i] = M[k]
    BY <1>8
  <2>2. M[k].start <= B
    BY <1>2, <1>3, <1>5, <1>11, <1>13
  <2> QED BY <1>11, <1>14, <2>1, <2>2
<1>17. RecorderTyped'
  <2>1. completed' \in Seq(Recorder!Candles') /\ Len(completed') <= Remembered
    BY <1>2, <1>8, <1>10 DEF m
  <2>2. owed' \in Seq(Recorder!Candles') /\ healed' \in BOOLEAN
    BY <1>2, <1>4
  <2> QED BY <1>1, <1>2, <2>1, <2>2 DEF RecorderTyped
<1>18. OfThePast'
  <2>1. \A i \in 1..Len(completed') : completed'[i].start <= Recorder!Bucket'
    BY <1>2, <1>16 DEF m
  <2> QED BY <1>1, <1>2, <1>14, <2>1 DEF OfThePast
<1>19. InOrder'
  <2>1. Apart'
    BY <1>15 DEF Apart, m
  <2>2. \A i, j \in 1..m : i < j => completed'[i].start <= completed'[j].start
    BY <1>15, <1>16
  <2>3. forming' # Nothing => \A i \in 1..m : completed'[i].start <= forming'.start
    BY <1>14, <1>16, <1>2, <1>5
  <2> QED BY <2>1, <2>2, <2>3 DEF InOrder, m
<1>20. Heard'
  BY <1>1 DEF Heard, Covers
\* A tick that some merged candle covers is kept, or forgotten for its age.
<1>21. ASSUME NEW t \in seen, NEW i \in 1..L, Covers(M[i], t)
       PROVE  \/ \E k \in 1..m : Covers(completed'[k], t)
              \/ m = Remembered /\ t[1] <= completed'[1].start
  <2>1. CASE i > L - m
    <3>1. i - (L - m) \in 1..m /\ (i - (L - m)) + (L - m) = i
      BY <1>10, <2>1
    <3> QED BY <1>8, <1>21, <3>1
  <2>2. CASE ~(i > L - m)
    <3>1. m = Remembered /\ 1 \in 1..m
      BY <1>5, <1>8, <1>10, <2>2
    <3>2. 1 + (L - m) \in 1..L /\ completed'[1] = M[1 + (L - m)]
      BY <1>8, <3>1
    <3> DEFINE f == 1 + (L - m)
    <3>3. i < f
      BY <1>10, <2>2
    <3> HIDE DEF f
    <3>4. M[i].start < completed'[1].start
      BY <1>6, <3>2, <3>3 DEF f
    <3>5. M[i].start = t[1]
      BY <1>21 DEF Covers
    <3> QED BY <1>11, <1>16, <3>1, <3>4, <3>5
  <2> QED BY <2>1, <2>2
<1>22. Recorded'
  <2>1. SUFFICES ASSUME NEW t \in seen
                 PROVE  \/ \E i \in 1..m : Covers(completed'[i], t)
                        \/ Covers(forming', t)
                        \/ m = Remembered /\ t[1] <= completed'[1].start
    BY DEF Recorded, Covers, m
  <2>2. /\ t[1] \in Nat /\ t[1] \in Recorder!Buckets
        /\ Covers(recorder_market[t[1]], t) /\ recorder_market[t[1]] # Nothing
    BY <1>1 DEF RecorderTyped, Heard, Covers, Recorder!Buckets
  <2>3. CASE t[1] <= upto
    <3>1. PICK i \in 1..L : M[i] = recorder_market[t[1]]
      BY <1>3, <1>12, <2>2, <2>3
    <3> QED BY <1>21, <2>2, <3>1
  <2>4. CASE ~(t[1] <= upto)
    <3>1. CASE Covers(forming, t)
      <4>1. forming.start = t[1]
        BY <3>1 DEF Covers
      <4>2. CASE forming' = forming
        BY <3>1, <4>2
      <4>3. CASE forming' # forming
        <5>1. forming.start \in Recorder!Starts(M)
          BY <1>9, <4>3
        <5>2. PICK i \in 1..L : M[i].start = forming.start
          BY <1>7, <5>1
        <5> QED BY <1>3, <1>11, <1>13, <2>2, <2>4, <4>1, <5>2
      <4> QED BY <4>2, <4>3
    <3>2. ASSUME NEW k \in 1..n, t[1] <= completed[k].start
          PROVE  completed[k].start \notin Recorder!Starts(bars)
      <4>1. completed[k].start \in Nat
        BY <1>2, <1>5
      <4> QED BY <1>3, <1>4, <1>7, <2>2, <2>4, <3>2, <4>1
    <3>3. ASSUME NEW k \in 1..n, Covers(completed[k], t)
          PROVE  \E i \in 1..L : Covers(M[i], t)
      <4>1. t[1] <= completed[k].start
        BY <2>2, <3>3 DEF Covers
      <4>2. PICK i \in 1..L : M[i] = completed[k]
        BY <1>6, <3>2, <4>1
      <4> QED BY <3>3, <4>2
    <3>4. ASSUME n = Remembered, t[1] <= completed[1].start
          PROVE  m = Remembered /\ t[1] <= completed'[1].start
      <4>1. 1 \in 1..n /\ \A k \in 1..n : completed[1].start <= completed[k].start
        <5>1. 1 \in 1..n /\ \A k \in 1..n : completed[k].start \in Nat
          BY <1>2, <1>5, <3>4
        <5> QED BY <1>5, <5>1 DEF Apart
      <4>2. \A k \in 1..n : completed[k].start \in Nat
        BY <1>2, <1>5
      <4>3. \A k \in 1..n : \E i \in 1..L : M[i] = completed[k]
        <5> SUFFICES ASSUME NEW k \in 1..n PROVE \E i \in 1..L : M[i] = completed[k]
          OBVIOUS
        <5>1. t[1] <= completed[k].start
          BY <2>2, <3>4, <4>1, <4>2
        <5> QED BY <1>6, <3>2, <5>1
      <4>4. 1 \in 1..Len(bars)
        BY <1>4
      <4>5. PICK b \in 1..L : M[b] = bars[1]
        BY <1>6, <4>4
      <4>6. M[b].start < completed[1].start
        BY <1>3, <1>4, <2>2, <2>4, <3>4, <4>1, <4>2, <4>4, <4>5
      <4>7. L > Remembered /\ completed[1].start <= M[L - Remembered + 1].start
        BY <1>5, <1>6, <3>4, <4>3, <4>6, FullOfKept
      <4>8. m = Remembered /\ 1 \in 1..m /\ 1 + (L - m) = L - Remembered + 1
        <5>1. m = Remembered
          BY <1>5, <1>8, <1>10, <4>7
        <5> QED BY <1>5, <1>10, <5>1
      <4>9. completed'[1] = M[L - Remembered + 1] /\ L - Remembered + 1 \in 1..L
        BY <1>8, <4>8
      <4> QED BY <1>11, <2>2, <3>4, <4>1, <4>2, <4>7, <4>8, <4>9
    <3> QED BY <1>1, <1>21, <3>1, <3>3, <3>4 DEF Recorded
  <2> QED BY <2>3, <2>4
<1>23. Stored'
  <2>1. ASSUME NEW i \in 1..m, NEW k \in 1..Len(bars), completed'[i].start = bars[k].start
        PROVE  completed'[i] = bars[k]
    <3>1. PICK x \in 1..L : completed'[i] = M[x]
      BY <1>8
    <3>2. PICK y \in 1..L : M[y] = bars[k]
      BY <1>6
    <3>3. M[x].start = M[y].start /\ M[x].start \in Nat
      BY <1>11, <2>1, <3>1, <3>2
    <3>4. ~(x < y) /\ ~(y < x)
      BY <1>6, <3>3
    <3>5. x = y
      BY <1>10, <3>4
    <3> QED BY <3>1, <3>2, <3>5
  <2>2. ASSUME faults = 0, NEW i \in 1..m
        PROVE  table[completed'[i].start] = completed'[i] \/ \E k \in 1..Len(bars) : bars[k] = completed'[i]
    <3>1. PICK x \in 1..L : completed'[i] = M[x]
      BY <1>8
    <3>2. ASSUME NEW k \in 1..n, M[x] = completed[k]
          PROVE  table[completed[k].start] = completed[k]
      <4>1. ~\E j \in 1..n : j > k /\ completed[j].start = completed[k].start
        <5> SUFFICES ASSUME NEW j \in 1..n, j > k, completed[j].start = completed[k].start PROVE FALSE
          OBVIOUS
        <5>1. completed[k].start < completed[j].start /\ completed[k].start \in Nat
          BY <1>2, <1>5 DEF Apart
        <5> QED BY <5>1
      <4>2. Len(owed) = 0
        OBVIOUS
      <4> QED BY <1>1, <2>2, <4>1, <4>2 DEF Stored
    <3>3. (\E k \in 1..Len(bars) : M[x] = bars[k]) \/ (\E k \in 1..n : M[x] = completed[k])
      BY <1>6
    <3>4. CASE \E k \in 1..Len(bars) : M[x] = bars[k]
      BY <3>1, <3>4
    <3>5. CASE \E k \in 1..n : M[x] = completed[k]
      BY <3>1, <3>2, <3>5
    <3> QED BY <3>3, <3>4, <3>5
  <2>3. owed' = bars /\ table' = table /\ faults' = faults
    OBVIOUS
  <2> QED BY <2>1, <2>2, <2>3 DEF Stored, m
<1> QED BY <1>17, <1>18, <1>19, <1>20, <1>22, <1>23 DEF RecorderInv

LEMMA RecorderRests ==
    ASSUME RecorderInv,
           UNCHANGED <<now, recorder_market, forming, completed, table, owed, healed, seen, faults, recorder_deaths>>
    PROVE  RecorderInv'
<1>1. Recorder!Buckets' = Recorder!Buckets /\ Recorder!Candles' = Recorder!Candles /\ Recorder!Bucket' = Recorder!Bucket
  BY DEF Recorder!Buckets, Recorder!Candles, Recorder!Bucket
<1>2. RecorderTyped' /\ OfThePast'
  BY <1>1 DEF RecorderInv, RecorderTyped, OfThePast
<1>3. InOrder' /\ Heard' /\ Recorded' /\ Stored'
  BY DEF RecorderInv, InOrder, Apart, Heard, Recorded, Covers, Stored
<1> QED BY <1>2, <1>3 DEF RecorderInv

LEMMA RecorderMoves ==
    ASSUME RecorderConstants, RecorderInv, Recorder!Next
    PROVE  RecorderInv'
<1>1. CASE Recorder!Trade
  <2>1. now < MaxTicks /\ now' = now + 1 /\ UNCHANGED <<owed, healed, recorder_deaths>>
    BY <1>1 DEF Recorder!Trade
  <2>2. PICK p \in TickPrices :
          /\ recorder_market' = [recorder_market EXCEPT ![Recorder!Bucket] =
                IF @ = Nothing THEN Recorder!Fresh(Recorder!Bucket, p) ELSE Recorder!Widened(@, p)]
          /\ \/ owed = <<>> /\ Recorder!Append_tick(p)
             \/ UNCHANGED <<forming, completed, table, seen, faults>>
    BY <1>1 DEF Recorder!Trade
  <2>3. CASE UNCHANGED <<forming, completed, table, seen, faults>>
    BY <2>1, <2>2, <2>3, TradeUnheard
  <2>4. CASE owed = <<>> /\ Recorder!Append_tick(p)
    <3>1. seen' = seen \union {<<Recorder!Bucket, p>>}
      BY <2>4 DEF Recorder!Append_tick
    <3>2. CASE forming = Nothing \/ forming.start = Recorder!Bucket
      <4>1. /\ forming' = IF forming = Nothing THEN Recorder!Fresh(Recorder!Bucket, p)
                                               ELSE Recorder!Widened(forming, p)
            /\ UNCHANGED <<completed, table, faults>>
        BY <2>4, <3>2 DEF Recorder!Append_tick
      <4> QED BY <2>1, <2>2, <3>1, <3>2, <4>1, TickWidens
    <3>3. CASE ~(forming = Nothing \/ forming.start = Recorder!Bucket)
      <4>1. /\ forming' = Recorder!Fresh(Recorder!Bucket, p)
            /\ completed' = Recorder!Latest(Append(completed, forming)) /\ Recorder!Persist(forming)
        BY <2>4, <3>3 DEF Recorder!Append_tick
      <4> QED BY <2>1, <2>2, <2>4, <3>1, <3>3, <4>1, TickCloses
    <3> QED BY <3>2, <3>3
  <2> QED BY <2>2, <2>3, <2>4
<1>2. CASE Recorder!Reconcile
  <2>1. /\ ~healed /\ owed = <<>> /\ forming # Nothing
        /\ UNCHANGED <<now, recorder_market, table, seen, faults, recorder_deaths>>
    BY <1>2 DEF Recorder!Reconcile
  <2>2. PICK bars \in Recorder!Fetched :
          IF bars = <<>> THEN UNCHANGED <<forming, completed, owed, healed>>
          ELSE /\ completed' = Recorder!Latest(Recorder!Merged(bars))
               /\ forming' = IF forming.start \in Recorder!Starts(Recorder!Merged(bars)) THEN Nothing ELSE forming
               /\ owed' = bars
               /\ healed' = TRUE
    BY <1>2 DEF Recorder!Reconcile
  <2>3. CASE bars = <<>>
    <3>1. UNCHANGED <<now, recorder_market, forming, completed, table, owed, healed, seen, faults, recorder_deaths>>
      BY <2>1, <2>2, <2>3
    <3> QED BY <3>1, RecorderRests
  <2>4. CASE bars # <<>>
    <3>1. PICK upto \in 0..Recorder!Bucket : bars = Recorder!Bars(recorder_market, 0..upto)
      BY <2>4 DEF Recorder!Fetched
    <3>2. /\ completed' = Recorder!Latest(Recorder!Merged(bars))
          /\ forming' = IF forming.start \in Recorder!Starts(Recorder!Merged(bars)) THEN Nothing ELSE forming
          /\ owed' = bars /\ healed' = TRUE
      BY <2>2, <2>4
    <3> HIDE <2>2
    <3> QED BY <2>1, <2>4, <3>1, <3>2, FetchMerges
  <2> QED BY <2>3, <2>4
<1>3. CASE Recorder!WriteOwed
  BY <1>3, WriteKeeps
<1>4. CASE Recorder!Die
  BY <1>4, DieKeeps
<1> QED BY <1>1, <1>2, <1>3, <1>4 DEF Recorder!Next

LEMMA RecorderBegins ==
    ASSUME RecorderConstants, Recorder!Init
    PROVE  RecorderInv
<1>1. /\ now = 0 /\ recorder_market = [b \in Recorder!Buckets |-> Nothing] /\ table = recorder_market
      /\ forming = Nothing /\ completed = <<>> /\ owed = <<>>
      /\ healed = FALSE /\ seen = {} /\ faults = 0 /\ recorder_deaths = 0
  BY DEF Recorder!Init
<1>2. Len(completed) = 0 /\ completed \in Seq(Recorder!Candles) /\ owed \in Seq(Recorder!Candles)
  BY <1>1
<1>3. RecorderTyped
  <2>1. now \in 0..MaxTicks /\ faults \in 0..WriteFaults /\ recorder_deaths \in 0..RecorderDeaths
    BY <1>1 DEF RecorderConstants
  <2>2. /\ DOMAIN recorder_market = Recorder!Buckets /\ DOMAIN table = Recorder!Buckets
        /\ \A b \in Recorder!Buckets : recorder_market[b] = Nothing /\ table[b] = Nothing
    BY <1>1
  <2>3. healed \in BOOLEAN /\ seen \subseteq Recorder!Buckets \X TickPrices
    BY <1>1
  <2>4. Len(completed) <= Remembered
    BY <1>2 DEF RecorderConstants
  <2> QED BY <1>2, <2>1, <2>2, <2>3, <2>4 DEF RecorderTyped
<1>4. OfThePast /\ InOrder /\ Heard /\ Recorded /\ Stored
  BY <1>1, <1>2 DEF OfThePast, InOrder, Apart, Heard, Recorded, Stored
<1> QED BY <1>3, <1>4 DEF RecorderInv

LEMMA RecorderSays ==
    ASSUME RecorderConstants, RecorderInv
    PROVE  Recorder!TypeOK /\ Recorder!OldestFirst /\ Recorder!NoTickIsLost /\ Recorder!TableKeepsUp
<1>1. RecorderTyped /\ OfThePast /\ InOrder /\ Recorded /\ Stored
  BY DEF RecorderInv
<1>2. Recorder!TypeOK
  BY <1>1 DEF RecorderTyped, OfThePast, Recorder!TypeOK
<1>3. DOMAIN completed = 1..Len(completed)
  BY <1>1 DEF RecorderTyped
<1>4. Recorder!OldestFirst
  <2>1. forming # Nothing => \A i \in DOMAIN completed : completed[i].start <= forming.start
    BY <1>1, <1>3 DEF InOrder
  <2>2. \A i, j \in DOMAIN Recorder!Recent : i < j => Recorder!Recent[i].start <= Recorder!Recent[j].start
    <3>1. CASE completed # <<>>
      <4>1. Recorder!Recent = completed
        BY <3>1 DEF Recorder!Recent
      <4> QED BY <1>1, <1>3, <4>1 DEF InOrder
    <3>2. CASE completed = <<>>
      <4> DEFINE D == Recorder!Buckets
                 o == Recorder!Bars(table, D)
      <4>1. Recorder!Recent = o
        BY <3>2 DEF Recorder!Recent
      <4>2. \A b \in D : table[b] # Nothing => table[b] \in Recorder!Candles /\ table[b].start = b
        BY <1>1 DEF RecorderTyped
      <4>3. o \in Seq(Recorder!Candles) /\ \A i, j \in 1..Len(o) : i < j => o[i].start < o[j].start
        BY <4>2, BarsFacts
      <4> HIDE DEF o
      <4>4. DOMAIN o = 1..Len(o) /\ \A i \in 1..Len(o) : o[i] \in Recorder!Candles
        BY <4>3
      <4>5. \A i \in 1..Len(o) : o[i].start \in Nat
        BY <4>4 DEF Recorder!Candles, Recorder!Buckets
      <4> QED BY <4>1, <4>3, <4>4, <4>5
    <3> QED BY <3>1, <3>2
  <2> QED BY <2>1, <2>2 DEF Recorder!OldestFirst
<1>5. Recorder!NoTickIsLost
  <2> SUFFICES ASSUME NEW t \in seen
               PROVE  \/ \E c \in {completed[i] : i \in DOMAIN completed} \union {forming} :
                            c # Nothing /\ c.start = t[1] /\ c.low <= t[2] /\ t[2] <= c.high
                      \/ Len(completed) = Remembered /\ t[1] <= Head(completed).start
    BY DEF Recorder!NoTickIsLost
  <2>1. CASE \E i \in 1..Len(completed) : Covers(completed[i], t)
    BY <1>3, <2>1 DEF Covers
  <2>2. CASE Covers(forming, t)
    BY <2>2 DEF Covers
  <2>3. CASE Len(completed) = Remembered /\ t[1] <= completed[1].start
    BY <2>3
  <2> QED BY <1>1, <2>1, <2>2, <2>3 DEF Recorded
<1>6. Recorder!TableKeepsUp
  <2> SUFFICES ASSUME faults = 0, owed = <<>>, NEW i \in 1..Len(completed), Recorder!LastOfItsTime(i)
               PROVE  table[completed[i].start] = completed[i]
    BY <1>3 DEF Recorder!TableKeepsUp
  <2>1. ~\E j \in 1..Len(completed) : j > i /\ completed[j].start = completed[i].start
    BY <1>3 DEF Recorder!LastOfItsTime
  <2>2. Len(owed) = 0
    OBVIOUS
  <2> QED BY <1>1, <2>1, <2>2 DEF Stored
<1> QED BY <1>2, <1>4, <1>5, <1>6

\* What is recorded stays so whatever part is exercised.
LEMMA RecorderStays ==
    ASSUME part = "recorder" => RecorderInv, [AllNext]_allVars
    PROVE  (part = "recorder" => RecorderInv)'
<1>1. RecorderConstants
  BY RecorderAssumption
<1>2. CASE AllNext
  <2> SUFFICES ASSUME part' = "recorder" PROVE RecorderInv'
    OBVIOUS
  <2>1. part = "recorder" /\ Recorder!Next
    BY <1>2 DEF AllNext
  <2> QED BY <1>1, <2>1, RecorderMoves
<1>3. CASE UNCHANGED allVars
  <2>1. part' = part
    BY <1>3 DEF allVars
  <2>2. UNCHANGED <<now, recorder_market, forming, completed, table, owed, healed, seen, faults, recorder_deaths>>
    BY <1>3 DEF allVars, recorderVars
  <2> QED BY <2>1, <2>2, RecorderRests
<1> QED BY <1>2, <1>3

\* Whatever the prices, the length of a candle, the room in memory and the failures: candles are kept as
\* CandlesAreKept states.
THEOREM CandlesStayKept == AllSpec => []CandlesAreKept
<1> DEFINE Kept == part = "recorder" => RecorderInv
<1>1. AllInit => Kept
  BY RecorderAssumption, RecorderBegins DEF AllInit
<1>2. Kept /\ [AllNext]_allVars => Kept'
  BY RecorderStays
<1>3. Kept => CandlesAreKept
  BY RecorderAssumption, RecorderSays DEF CandlesAreKept
<1> HIDE DEF Kept
<1> QED BY <1>1, <1>2, <1>3, PTL DEF AllSpec
=============================================================================
