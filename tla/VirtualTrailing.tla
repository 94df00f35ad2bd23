--------------------------- MODULE VirtualTrailing --------------------------
(***************************************************************************)
(* The virtual trailing engine                                             *)
(* (src/agents/trading_intelligence/virtual_trailing.py): a shadow of one  *)
(* real paper trade, kept in a table of its own.  The cycle reads the row, *)
(* evaluates it and writes it back in separate transactions, while the     *)
(* control center pauses the engine or deletes the row, the real trade     *)
(* closes, and the process may end.                                        *)
(***************************************************************************)
EXTENDS Integers, FiniteSetsExt

CONSTANTS Premiums, \* what a cycle may read
          Floors,   \* half the volatility, or none
          Entry, FirstStop, Target,
          MaxResets \* bound: resets of the state

\* Option premiums are positive; a trade is opened above its stop.
ConstantsFit ==
    /\ Premiums \subseteq Nat \ {0} /\ Floors \subseteq Nat
    /\ {Entry, FirstStop, Target, MaxResets} \subseteq Nat /\ FirstStop <= Entry

ASSUME TrailingAssumption == ConstantsFit

Breakeven == 8
Runner    == 30
Trails    == << <<30, 10>>, <<20, 6>>, <<12, 4>> >>   \* gain and trail amount, highest first

VARIABLES row,    \* virtual_trailing_state of the trade, or NoRow
          paused, \* virtual_trailing_control
          open,   \* ti_store still lists the trade
          cycle,  \* where the running cycle is, the premium it read and the row it has
          resets

trailing == <<row, paused, open, cycle, resets>>

Unset == 0   \* NULL
NoRow == [state |-> "none"]
Row   == [state : {"ACTIVE", "EXITED"}, highest : Premiums \cup {Entry}, sl : Nat, target : {Target, Unset},
          runner : BOOLEAN, locked : Nat, exit : Premiums \cup {Unset}]
Rest  == [at |-> "idle", premium |-> Unset, row |-> NoRow]

TypeOK ==
    /\ row \in Row \cup {NoRow} /\ paused \in BOOLEAN /\ open \in BOOLEAN
    /\ cycle.at \in {"idle", "listed", "priced", "read"} /\ cycle.row \in Row \cup {NoRow}
    /\ row # NoRow => row.sl \in FirstStop..row.highest
    /\ cycle.premium \in Premiums \cup {Unset} /\ resets \in 0..MaxResets

Init == row = NoRow /\ paused = FALSE /\ open = TRUE /\ cycle = Rest /\ resets = 0

-----------------------------------------------------------------------------
\* _init_state
Initial == [state |-> "ACTIVE", highest |-> Entry, sl |-> FirstStop, target |-> Target, runner |-> FALSE,
            locked |-> 0, exit |-> Unset]

\* _candidate_trail_amount: the deepest tier reached, no tighter than half the volatility.
TrailAmount(gain, floor) ==
    LET reached == {i \in DOMAIN Trails : gain >= Trails[i][1]} IN
    IF reached = {} THEN Unset ELSE Max({Trails[Min(reached)][2], floor})

\* Mutant: a volatile symbol's trail may leave the stop below cost.
RaisedUnclamped(s, premium, floor) ==
    LET highest == Max({s.highest, premium}) gain == highest - Entry amount == TrailAmount(gain, floor) IN
    IF gain < Breakeven THEN [s EXCEPT !.highest = highest]
    ELSE [s EXCEPT !.highest = highest, !.sl = Max({@, highest - (IF amount = Unset THEN gain ELSE amount)})]

Raised(s, premium, floor) ==
    LET highest   == Max({s.highest, premium})
        gain      == highest - Entry
        amount    == TrailAmount(gain, floor)
        candidate == IF amount = Unset THEN Entry ELSE highest - amount
        risen     == [s EXCEPT !.highest = highest, !.sl = Max({@, candidate, Entry})] IN
    CASE gain < Breakeven -> [s EXCEPT !.highest = highest]
      [] gain >= Runner   -> [risen EXCEPT !.runner = TRUE, !.target = Unset]
      [] OTHER            -> risen

Frozen(s) == s.state # "ACTIVE"

Evaluated(s, premium, floor) ==
    IF Frozen(s) THEN s
    ELSE LET r      == Raised(s, premium, floor)
             locked == [r EXCEPT !.locked = Max({0, r.sl - Entry})] IN
         IF premium <= r.sl THEN [locked EXCEPT !.state = "EXITED", !.exit = premium] ELSE locked

-----------------------------------------------------------------------------
\* run_virtual_trailing_cycle: the pause is looked at once, then the open trades are listed.
Begin ==
    /\ cycle.at = "idle" /\ ~paused /\ open
    /\ cycle' = [Rest EXCEPT !.at = "listed"]
    /\ UNCHANGED <<row, paused, open, resets>>

\* Without a stored premium the trade is left for the next cycle.
Price ==
    /\ cycle.at = "listed"
    /\ \/ cycle' = Rest
       \/ \E premium \in Premiums : cycle' = [cycle EXCEPT !.at = "priced", !.premium = premium]
    /\ UNCHANGED <<row, paused, open, resets>>

Read ==
    /\ cycle.at = "priced"
    /\ cycle' = [cycle EXCEPT !.at = "read", !.row = IF row = NoRow THEN Initial ELSE row]
    /\ UNCHANGED <<row, paused, open, resets>>

\* upsert_state: whatever the row has become since it was read.
Write ==
    /\ cycle.at = "read"
    /\ \E floor \in Floors : row' = Evaluated(cycle.row, cycle.premium, floor)
    /\ cycle' = Rest
    /\ UNCHANGED <<paused, open, resets>>

-----------------------------------------------------------------------------
SetPaused == paused' \in BOOLEAN /\ UNCHANGED <<row, open, cycle, resets>>

Reset ==
    /\ row # NoRow /\ resets < MaxResets
    /\ row' = NoRow /\ resets' = resets + 1
    /\ UNCHANGED <<paused, open, cycle>>

\* The real trade closes; its shadow stays as it is.
RealClose == open /\ open' = FALSE /\ UNCHANGED <<row, paused, cycle, resets>>

Death == cycle # Rest /\ cycle' = Rest /\ UNCHANGED <<row, paused, open, resets>>

Next == Begin \/ Price \/ Read \/ Write \/ SetPaused \/ Reset \/ RealClose \/ Death

Spec == Init /\ [][Next]_trailing

-----------------------------------------------------------------------------
Live(r) == r # NoRow

\* Capital protection: until it is reset, a virtual stop never moves down, and an exit, its price
\* and what it locked stay as they are, whoever paused, resumed or died in between.
NeverMovesDown ==
    [][(Live(row) /\ Live(row')) => /\ row'.sl >= row.sl
                                    /\ row.state = "EXITED" => row' = row]_trailing

\* From breakeven on the shadow cannot lose: the stop is at cost or better, and what is recorded
\* as locked is what lies between them.
CostIsProtected ==
    (Live(row) /\ row.highest - Entry >= Breakeven) => /\ row.sl >= Entry
                                                       /\ row.locked = row.sl - Entry

\* The shadow protects the capital of its trade: its stop only rises and from breakeven on
\* holds the cost.
TrailingProtects == [](TypeOK /\ CostIsProtected) /\ NeverMovesDown
=============================================================================
