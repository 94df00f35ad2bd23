---------------------------- MODULE PaperEngines ----------------------------
(***************************************************************************)
(* The paper trades of one symbol's engines (src/app.py): the S/R engine   *)
(* (swing), the scalping engine, engine V3 and Ichimoku.  Each keeps a     *)
(* bucket in memory (the open trade, a history, counters) and, Ichimoku    *)
(* apart, a row per trade in its own table; a restart rebuilds the bucket  *)
(* from the rows.  One cycle of the symbol's loop is one step.             *)
(***************************************************************************)
EXTENDS Integers, SequencesExt, FiniteSetsExt

CONSTANTS Quotes,    \* premiums a cycle may read
          Entry, Target, Stop,
          MaxTrades, \* bound: trades of the behaviour
          Cooldown,  \* cycles of cooldown after a stop
          Streak,    \* TIME_EXIT_COOLDOWN_THRESHOLD
          Contracts, \* the expiries, in order
          MaxFaults  \* bound: cycles whose writes fail

VARIABLES engine,   \* whose trades these are
          bucket,   \* the paper bucket of the symbol
          rows,     \* the engine's table
          front,    \* the nearest expiry
          cool,     \* what is left of the cooldown
          timeouts, \* consecutive_time_exits_by_symbol
          faults,   \* bound: failed cycles so far
          unclosed  \* history: rows whose close was not written

paper == <<engine, bucket, rows, front, cool, timeouts, faults, unclosed>>

Unknown == 0    \* no expiry, no row, no quote

\* How long a trade is held: new, 15 minutes, 30 (MAX_HOLD) and 60 (the hard cap).
Ages == 0..3
NoTrade == [row |-> Unknown, stop |-> Unknown, peak |-> Unknown, trailed |-> FALSE, expiry |-> Unknown, age |-> 0]
Trade == [row : 0..MaxTrades, stop : Stop..Target, peak : Entry..Max(Quotes), trailed : BOOLEAN,
          expiry : {Unknown} \cup Contracts, age : Ages]
Reasons == {"TARGET HIT", "STOP LOSS", "TRAILING SL", "TIME EXIT", "STAGNANT EXIT", "EXPIRED"}
Row == [status : {"OPEN", "CLOSED"}, expiry : {Unknown} \cup Contracts, reason : Reasons \cup {"none"},
        points : Int, age : Ages, today : BOOLEAN]
Empty == [open |-> NoTrade, history |-> <<>>, wins |-> 0, losses |-> 0, time_exits |-> 0, total_points |-> 0]

Persistent == engine # "ichimoku"
Holding    == bucket.open # NoTrade

TypeOK ==
    /\ engine \in {"swing", "scalp", "v3", "ichimoku"}
    /\ bucket.open \in Trade \cup {NoTrade}
    /\ \A i \in DOMAIN bucket.history : bucket.history[i].reason \in Reasons
    /\ \A i \in DOMAIN rows : rows[i] \in Row
    /\ Len(rows) <= MaxTrades /\ Len(bucket.history) <= MaxTrades
    /\ cool \in 0..Cooldown /\ timeouts \in 0..Streak - 1
    /\ faults \in 0..MaxFaults /\ unclosed \subseteq DOMAIN rows

PointsOf(history) == FoldLeft(LAMBDA sum, trade : sum + trade.points, 0, history)

Restored(row) == [row |-> row, stop |-> Stop, peak |-> Entry, trailed |-> FALSE, expiry |-> Unknown,
                  age |-> rows[row].age]

\* A table may hold an open trade from before expiry_date_at_entry existed.
Legacy == [status |-> "OPEN", expiry |-> Unknown, reason |-> "none", points |-> 0, age |-> 0, today |-> TRUE]
Init ==
    /\ engine \in {"swing", "scalp", "v3", "ichimoku"}
    /\ rows \in {<<>>} \cup (IF Persistent THEN {<<Legacy>>} ELSE {})
    /\ bucket = [Empty EXCEPT !.open = IF rows = <<>> THEN NoTrade ELSE Restored(1)]
    /\ front = Min(Contracts) /\ cool = 0 /\ timeouts = 0 /\ faults = 0 /\ unclosed = {}

-----------------------------------------------------------------------------
\* The swing engine's stop goes to breakeven at 30% of the way to the target, and from 60% on it
\* keeps 70% of the best gain.
Progress(peak) == ((peak - Entry) * 100) \div (Target - Entry)

Trailed(trade, quote) ==
    LET peak   == Max({trade.peak, quote})
        locked == Entry + ((peak - Entry) * 70) \div 100
        moved  == [trade EXCEPT !.peak = peak] IN
    IF Progress(peak) >= 60
    THEN IF locked > trade.stop THEN [moved EXCEPT !.stop = locked, !.trailed = TRUE] ELSE moved
    ELSE IF Progress(peak) >= 30 /\ trade.stop < Entry THEN [moved EXCEPT !.stop = Entry, !.trailed = TRUE] ELSE moved

\* Mutant: a candle that agrees with the trade puts the exit off without a ceiling.
TimeIsUpPaused(trade, paused) == trade.age >= 2 /\ ~(engine \in {"swing", "v3"} /\ paused)
TimeIsUp(trade, paused) ==
    CASE engine \in {"swing", "v3"} -> trade.age = 3 \/ (trade.age = 2 /\ ~paused)
      [] OTHER -> trade.age >= 2

Stagnates(trade, quote) ==
    /\ engine = "swing" /\ trade.age = 1
    /\ 10 * (IF quote > Entry THEN quote - Entry ELSE Entry - quote) < Target - Entry

ExitReason(trade, quote, paused) ==
    CASE quote >= Target -> "TARGET HIT"
      [] quote <= trade.stop -> IF trade.trailed THEN "TRAILING SL" ELSE "STOP LOSS"
      [] TimeIsUp(trade, paused) -> "TIME EXIT"
      [] Stagnates(trade, quote) -> "STAGNANT EXIT"
      [] OTHER -> "none"

\* Ichimoku books the target or the stop itself, the others the premium they read.
ExitPrice(reason, quote) ==
    CASE engine = "ichimoku" /\ reason = "TARGET HIT" -> Target
      [] engine = "ichimoku" /\ reason = "STOP LOSS" -> Stop
      [] OTHER -> quote

Counted(b, reason) ==
    CASE reason = "TARGET HIT" -> [b EXCEPT !.wins = @ + 1]
      [] reason \in {"STOP LOSS", "TRAILING SL"} -> [b EXCEPT !.losses = @ + 1]
      [] reason = "EXPIRED" -> b
      [] OTHER -> [b EXCEPT !.time_exits = @ + 1]

Booked(reason, points) ==
    LET entry == [reason |-> reason, points |-> points, row |-> bucket.open.row] IN
    Counted([bucket EXCEPT !.open = NoTrade, !.history = <<entry>> \o @, !.total_points = @ + points], reason)

\* db_backfill_*: only a row without an expiry takes one.
Backfilled(table, trade) ==
    IF trade.row = Unknown \/ table[trade.row].expiry # Unknown THEN table
    ELSE [table EXCEPT ![trade.row].expiry = front]

\* db_close_*: a trade without a row has nothing to write.
Closed(table, row, reason, points) ==
    IF row = Unknown THEN table
    ELSE [table EXCEPT ![row].status = "CLOSED", ![row].reason = reason, ![row].points = points, ![row].age = 0]

\* After a stop loss, and in the swing engine after a streak of time exits.
Cooled(reason) ==
    LET streak == IF reason \in {"TIME EXIT", "STAGNANT EXIT"} THEN timeouts + 1 ELSE 0
        rests  == engine = "swing" /\ streak >= Streak /\ reason = "TIME EXIT" IN
    /\ cool' = IF engine # "ichimoku" /\ (reason = "STOP LOSS" \/ rests) THEN Cooldown ELSE cool
    /\ timeouts' = CASE engine # "swing" \/ reason = "EXPIRED" -> timeouts
                     [] rests -> 0
                     [] OTHER -> Min({streak, Streak - 1})

Fault(works) == faults' = IF works THEN faults ELSE faults + 1
Written(works, table) == IF works THEN table ELSE rows

\* The trade leaves memory; when its close cannot be written its row stays open.
Close(trade, reason, price, table, works) ==
    LET points == price - Entry IN
    /\ bucket' = Booked(reason, points)
    /\ rows' = Written(works, Closed(table, trade.row, reason, points))
    /\ unclosed' = IF works \/ trade.row = Unknown THEN unclosed ELSE unclosed \cup {trade.row}
    /\ Cooled(reason)

Keep(trade, table, works) ==
    /\ bucket' = [bucket EXCEPT !.open = trade]
    /\ rows' = Written(works, table)
    /\ UNCHANGED <<cool, timeouts, unclosed>>

-----------------------------------------------------------------------------
\* A cycle that reads the chain.  The expiry is backfilled first; a trade whose contract has
\* rolled over is closed at a logged premium or kept for the next cycle.
Rolled(trade) == trade.expiry # Unknown /\ trade.expiry # front

Manage(quote, paused, works) ==
    LET known == Persistent /\ bucket.open.expiry = Unknown
        trade == IF known THEN [bucket.open EXCEPT !.expiry = front] ELSE bucket.open
        table == IF known THEN Backfilled(rows, trade) ELSE rows
        moved == IF engine = "swing" /\ quote # Unknown THEN Trailed(trade, quote) ELSE trade
        reason == IF quote = Unknown THEN "none" ELSE ExitReason(moved, quote, paused) IN
    /\ Holding
    /\ CASE Rolled(trade) /\ quote # Unknown -> Close(trade, "EXPIRED", quote, table, works)
         [] Rolled(trade) /\ quote = Unknown -> Keep(trade, table, works)
         [] ~Rolled(trade) /\ reason # "none" -> Close(moved, reason, ExitPrice(reason, quote), table, works)
         [] OTHER -> Keep(moved, table, works)

\* Scalp and V3 look at the cooldown; a swing trigger is taken whatever it is.
MayEnter == engine \in {"scalp", "v3"} => cool = 0

Enter(works) ==
    LET row == IF Persistent /\ works THEN Len(rows) + 1 ELSE Unknown IN
    /\ ~Holding /\ MayEnter
    /\ Len(rows) < MaxTrades /\ Len(bucket.history) < MaxTrades
    /\ bucket' = [bucket EXCEPT !.open = [row |-> row, stop |-> Stop, peak |-> Entry, trailed |-> FALSE,
                                          expiry |-> IF Persistent THEN front ELSE Unknown, age |-> 0]]
    /\ rows' = IF row = Unknown THEN rows
               ELSE Append(rows, [status |-> "OPEN", expiry |-> front, reason |-> "none", points |-> 0,
                                  age |-> 0, today |-> TRUE])
    /\ UNCHANGED <<cool, timeouts, unclosed>>

Cycle(works) ==
    /\ works \/ (Persistent /\ faults < MaxFaults)
    /\ \/ \E quote \in Quotes \cup {Unknown}, paused \in BOOLEAN : Manage(quote, paused, works)
       \/ Enter(works)
    /\ Fault(works)
    /\ UNCHANGED <<engine, front>>

\* The clock: trades age, in memory and in the table, and the cooldown runs out.
Elapse ==
    /\ bucket' = [bucket EXCEPT !.open.age = IF Holding THEN Min({@ + 1, 3}) ELSE @]
    /\ rows' = [i \in DOMAIN rows |-> [rows[i] EXCEPT !.age = IF @ = 3 \/ rows[i].status = "CLOSED" THEN @ ELSE @ + 1]]
    /\ cool' = IF cool = 0 THEN 0 ELSE cool - 1
    /\ UNCHANGED <<engine, front, timeouts, faults, unclosed>>

Midnight ==
    /\ rows' = [i \in DOMAIN rows |-> [rows[i] EXCEPT !.today = FALSE]]
    /\ UNCHANGED <<engine, bucket, front, cool, timeouts, faults, unclosed>>

ContractExpires ==
    /\ front' \in {c \in Contracts : c = front + 1}
    /\ UNCHANGED <<engine, bucket, rows, cool, timeouts, faults, unclosed>>

\* db_load_*_open_trade asks for rows with status OPEN.  Mutant: for any row.
OpenRowsAny == DOMAIN rows
OpenRows    == {i \in DOMAIN rows : rows[i].status = "OPEN"}

\* load_*_paper_state_from_db: the newest open row, today's closed rows, counted by their reason.
Reloaded ==
    LET entries == [i \in DOMAIN rows |-> [reason |-> rows[i].reason, points |-> rows[i].points, row |-> i]]
        closed  == Reverse(SelectSeq(entries, LAMBDA e : rows[e.row].status = "CLOSED" /\ rows[e.row].today))
        count(reasons) == Cardinality({i \in DOMAIN closed : closed[i].reason \in reasons}) IN
    [open         |-> IF OpenRows = {} THEN NoTrade ELSE Restored(Max(OpenRows)),
     history      |-> closed,
     wins         |-> count({"TARGET HIT"}),
     losses       |-> count({"STOP LOSS"}),
     time_exits   |-> count(Reasons \ {"TARGET HIT", "STOP LOSS"}),
     total_points |-> PointsOf(closed)]

Restart ==
    /\ bucket' = IF Persistent THEN Reloaded ELSE Empty
    /\ cool' = 0 /\ timeouts' = 0
    /\ UNCHANGED <<engine, rows, front, faults, unclosed>>

Next == Cycle(TRUE) \/ Cycle(FALSE) \/ Elapse \/ Midnight \/ ContractExpires \/ Restart

\* The loop manages a trade with a premium again and again, and the clock runs.
PricedCycle ==
    /\ \E quote \in Quotes, paused \in BOOLEAN : Manage(quote, paused, TRUE)
    /\ Fault(TRUE) /\ UNCHANGED <<engine, front>>

-----------------------------------------------------------------------------
\* The counters and the points are those of the trades in the history, however the trades
\* ended and however often the bucket was rebuilt.
RecordAddsUp ==
    /\ bucket.wins = Cardinality({i \in DOMAIN bucket.history : bucket.history[i].reason = "TARGET HIT"})
    /\ bucket.total_points = PointsOf(bucket.history)

\* A trade that was closed comes back, after a restart, only if its close was not written.
ClosedStaysClosed ==
    \A i \in DOMAIN bucket.history :
        LET row == bucket.history[i].row IN
        row # Unknown => /\ bucket.open.row = row => row \in unclosed
                         /\ rows[row].status = "OPEN" => row \in unclosed

\* As long as the best premium of a trade is remembered (a restart forgets it), its stop never
\* moves back.
StopOnlyRises ==
    [][(Holding /\ bucket'.open # NoTrade /\ bucket'.open.peak >= bucket.open.peak)
          => bucket'.open.stop >= bucket.open.stop]_paper

\* The expiry a row was entered on is never replaced by a later one.
RowExpiryKept ==
    [][\A i \in DOMAIN rows : rows[i].expiry # Unknown => rows'[i].expiry = rows[i].expiry]_paper

\* Every trade ends: the pause of a time exit has a ceiling, and a restart does not reset the clock.
TradesEnd == Holding ~> ~Holding
=============================================================================
