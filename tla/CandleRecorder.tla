--------------------------- MODULE CandleRecorder ---------------------------
(* The candles of one symbol (trading_intelligence/candle_recorder): built   *)
(* from the ticks of the symbol's loop, kept in memory, written through to   *)
(* live_candles, and reconciled once a day with the candles of the broker.   *)
(* A tick may be missed, a write may fail, the process may die at any point. *)
EXTENDS Naturals, Sequences, FiniteSets

CONSTANTS Prices,
          PerBucket,   \* ticks of the clock in one candle
          Kept,        \* MAX_CANDLES_IN_MEMORY
          MaxTime, MaxFaults, MaxDeaths,
          Nothing

VARIABLES now,
          market,      \* by bucket, the candle as the exchange has it so far, or Nothing
          forming,     \* the bucket in progress, or Nothing
          completed,   \* candles in memory, oldest first
          table,       \* live_candles by bucket
          owed,        \* broker candles not yet written
          healed,      \* the day's fetch has succeeded in this process
          seen,        \* what this process was told: bucket and price
          faults, deaths

recorder == <<now, market, forming, completed, table, owed, healed, seen, faults, deaths>>

Buckets == 0 .. MaxTime \div PerBucket
Bucket  == now \div PerBucket      \* _bucket_start

Fresh(b, p) == [start |-> b, open |-> p, high |-> p, low |-> p, close |-> p]

Init == /\ now = 0 /\ market = [b \in Buckets |-> Nothing] /\ table = market
        /\ forming = Nothing /\ completed = <<>> /\ owed = <<>>
        /\ healed = FALSE /\ seen = {} /\ faults = 0 /\ deaths = 0

------------------------------------------------------------------------------
Widened(c, p) == [c EXCEPT !.high = IF p > @ THEN p ELSE @, !.low = IF p < @ THEN p ELSE @, !.close = p]

Latest(s) == IF Len(s) <= Kept THEN s ELSE SubSeq(s, Len(s) - Kept + 1, Len(s))

\* _persist_candle: INSERT OR REPLACE; a failure is swallowed.
\* Mutant: INSERT OR IGNORE.
PersistIgnoring(c) ==
    \/ /\ table' = IF table[c.start] = Nothing THEN [table EXCEPT ![c.start] = c] ELSE table
       /\ UNCHANGED faults
    \/ faults < MaxFaults /\ faults' = faults + 1 /\ UNCHANGED table
Persist(c) ==
    \/ table' = [table EXCEPT ![c.start] = c] /\ UNCHANGED faults
    \/ faults < MaxFaults /\ faults' = faults + 1 /\ UNCHANGED table

\* append_tick, under the lock: the first tick of a later bucket closes the one in progress.
Append_tick(p) ==
    /\ seen' = seen \union {<<Bucket, p>>}
    /\ IF forming = Nothing \/ forming.start = Bucket
         THEN /\ forming' = IF forming = Nothing THEN Fresh(Bucket, p) ELSE Widened(forming, p)
              /\ UNCHANGED <<completed, table, faults>>
         ELSE /\ forming' = Fresh(Bucket, p)
              /\ completed' = Latest(Append(completed, forming))
              /\ Persist(forming)

\* A trade on the exchange; the loop hears of it unless it is busy, or the quote fails.
Trade == /\ now < MaxTime
         /\ \E p \in Prices :
               /\ market' = [market EXCEPT ![Bucket] = IF @ = Nothing THEN Fresh(Bucket, p) ELSE Widened(@, p)]
               /\ \/ owed = <<>> /\ Append_tick(p)
                  \/ UNCHANGED <<forming, completed, table, seen, faults>>
         /\ now' = now + 1
         /\ UNCHANGED <<owed, healed, deaths>>

------------------------------------------------------------------------------
Starts(s) == {s[i].start : i \in DOMAIN s}

\* Candles of different times, oldest first.
Ordered(S) == CHOOSE s \in [1 .. Cardinality(S) -> S] : \A i, j \in DOMAIN s : i < j => s[i].start < s[j].start
Bars(by, B) == Ordered({by[b] : b \in {b \in B : by[b] # Nothing}})

LastOfItsTime(i) == \A j \in DOMAIN completed : j > i => completed[j].start # completed[i].start

\* What the fetch returns: nothing, or every bar up to some time, the one in progress included or not.
Fetched == {<<>>} \union {Bars(market, 0 .. upto) : upto \in 0 .. Bucket}

\* The broker's bar replaces the recorded one.
Merged(bars) ==
    Ordered({bars[i] : i \in DOMAIN bars} \union
            {completed[i] : i \in {i \in DOMAIN completed :
                completed[i].start \notin Starts(bars) /\ LastOfItsTime(i)}})

\* reconcile_from_broker_candles, in the cycle of the symbol's loop that fetched them.
Reconcile ==
    /\ ~healed /\ owed = <<>> /\ forming # Nothing
    /\ \E bars \in Fetched :
          IF bars = <<>> THEN UNCHANGED <<forming, completed, owed, healed>>
          ELSE /\ completed' = Latest(Merged(bars))
               /\ forming' = IF forming.start \in Starts(Merged(bars)) THEN Nothing ELSE forming
               /\ owed' = bars
               /\ healed' = TRUE
    /\ UNCHANGED <<now, market, table, seen, faults, deaths>>

\* ... and writes them one by one, outside the lock.
WriteOwed == /\ owed # <<>>
             /\ Persist(Head(owed)) /\ owed' = Tail(owed)
             /\ UNCHANGED <<now, market, forming, completed, healed, seen, deaths>>

Die == /\ deaths < MaxDeaths /\ deaths' = deaths + 1
       /\ forming' = Nothing /\ completed' = <<>> /\ owed' = <<>>
       /\ healed' = FALSE /\ seen' = {}
       /\ UNCHANGED <<now, market, table, faults>>

Next == Trade \/ Reconcile \/ WriteOwed \/ Die

------------------------------------------------------------------------------
\* get_recent_candles: memory first, the table only while memory is empty.
Recent == IF completed # <<>> THEN completed ELSE Bars(table, Buckets)

Candles == [start : Buckets, open : Prices, high : Prices, low : Prices, close : Prices]

TypeOK == /\ now \in 0 .. MaxTime /\ faults \in 0 .. MaxFaults /\ deaths \in 0 .. MaxDeaths
          /\ \A b \in Buckets : market[b] \in Candles \union {Nothing} /\ table[b] \in Candles \union {Nothing}
          /\ forming \in Candles \union {Nothing}
          /\ completed \in Seq(Candles) /\ Len(completed) <= Kept /\ owed \in Seq(Candles)
          /\ healed \in BOOLEAN /\ seen \subseteq Buckets \X Prices

\* Whoever reads the candles gets them oldest first, and none is later than the one in progress,
\* whatever was merged into them.
OldestFirst == /\ \A i, j \in DOMAIN Recent : i < j => Recent[i].start <= Recent[j].start
               /\ forming # Nothing => \A i \in DOMAIN completed : completed[i].start <= forming.start

\* A price the process was told lies within a candle of its time, until that candle is forgotten for its age.
NoTickIsLost ==
    \A t \in seen :
        \/ \E c \in {completed[i] : i \in DOMAIN completed} \union {forming} :
              c # Nothing /\ c.start = t[1] /\ c.low <= t[2] /\ t[2] <= c.high
        \/ Len(completed) = Kept /\ t[1] <= Head(completed).start

\* Unless a write failed, the table has the candle memory has last for its time, so that a restart reads the same.
TableKeepsUp ==
    faults = 0 /\ owed = <<>> =>
        \A i \in DOMAIN completed : LastOfItsTime(i) => table[completed[i].start] = completed[i]
=============================================================================
