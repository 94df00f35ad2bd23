-------------------------- MODULE TradeCycleProofs --------------------------
(***************************************************************************)
(* Theorems about the trade cycle, for every number of cyclers, dashboard  *)
(* reads, trades, rollovers and aborts, and about the gate in front of its *)
(* entries, through an instance of EntryGate.                              *)
(***************************************************************************)
EXTENDS TradeCycle, FiniteSetTheorems, TLAPS

Leaving  == {"EXIT_INTENT", "EXIT", "COMPLETED"}
Entering == States \ Leaving

\* What a thread knows of the tables: the trades it saw open exist, the ones
\* it is completing are closed, and an entry never moves an execution out.
Knows(p) ==
    /\ at[p] \in {"backfill", "judge", "close", "create", "advance", "exit"} => mine[p] \in Ids
    /\ at[p] \in {"backfill", "judge", "close"} => trade[mine[p]].status # "absent"
    /\ at[p] \in {"advance", "exit"} => chain[p] # << >>
    /\ at[p] = "advance" => chain[p] \in Seq(Entering)
    /\ \A id \in before[p] : trade[id].status # "absent"
    /\ at[p] = "exit" => trade[mine[p]].status = "closed"
    /\ at[p] = "exit" => \A id \in before[p] : trade[id].status = "closed"
    /\ at[p] = "enter" => p \in Cyclers

\* A row that was not inserted carries no expiry.
BlankRows == \A id \in Ids : trade[id].status = "absent" => trade[id].expiry = Unknown

IInv == TypeOK /\ ExitFollowsClose /\ BlankRows /\ \A p \in Threads : Knows(p)

\* A row is never deleted and a closed one never opened again.
RowsAdvance ==
    \A id \in Ids : /\ trade[id].status # "absent" => trade'[id].status # "absent"
                    /\ trade[id].status = "closed" => trade'[id].status = "closed"

\* Thread p is the only one whose locals change.
OthersWait(p) ==
    \A q \in Threads \ {p} : at'[q] = at[q] /\ mine'[q] = mine[q] /\ chain'[q] = chain[q]
                             /\ before'[q] = before[q]

-----------------------------------------------------------------------------
\* What the other threads know stays true.
LEMMA OthersKnow ==
    ASSUME TypeOK, NEW p \in Threads, OthersWait(p), RowsAdvance, NEW q \in Threads \ {p}, Knows(q)
    PROVE  Knows(q)'
BY SMT DEF OthersWait, RowsAdvance, Knows, TypeOK

LEMMA EntryStates == Entry \in Seq(Entering) /\ Entry # << >> /\ Entry \in Seq(States)
BY DEF Entry, Entering, Leaving, States, Adjust

LEMMA ExitStates == Exit \in Seq(States) /\ Exit # << >>
BY DEF Exit, States, Adjust

\* The rest of a chain is a chain of the same states.
LEMMA Rest ==
    ASSUME NEW S, NEW c \in Seq(S), c # << >>
    PROVE  Head(c) \in S /\ Tail(c) \in Seq(S) /\ AfterRejection(c) \in Seq(S)
BY DEF AfterRejection

LEMMA InitIInv == Init => IInv
<1> SUFFICES ASSUME Init PROVE IInv
  OBVIOUS
<1>1. \A id \in Ids : trade[id] \in Trade
  <2>1. 1 \in Contracts
    BY CycleAssumption DEF Contracts
  <2>2. NoTrade \in Trade
    BY DEF NoTrade, Trade
  <2>3. Legacy \in Trade
    BY <2>1 DEF Legacy, NoTrade, Trade
  <2>4. \A id \in Ids : trade[id] = NoTrade \/ trade[id] = Legacy
    BY DEF Init
  <2> QED BY <2>2, <2>3, <2>4
<1>2. exec \in [Ids -> States \cup {"absent"}]
  BY DEF Init
<1>3. history \in Seq(Contracts) /\ Len(history) \in 1..2 /\ contract \in Contracts
  BY CycleAssumption DEF Init, Contracts
<1>4. /\ trade \in [Ids -> Trade]
      /\ before \in [Threads -> SUBSET Ids]
      /\ chain \in [Threads -> Seq(States)]
  BY <1>1 DEF Init
<1>5. aborts \in 0..MaxAborts
  BY CycleAssumption DEF Init
<1>6. TypeOK
  BY <1>2, <1>3, <1>4, <1>5 DEF Init, TypeOK, Places
<1>7. BlankRows
  BY DEF Init, BlankRows, Legacy, NoTrade
<1> QED BY <1>6, <1>7 DEF Init, IInv, ExitFollowsClose, Knows

\* Types of the locals after the helpers that end a thread's work.
LEMMA ReturnTypes ==
    ASSUME TypeOK, NEW p \in Threads, Return(p)
    PROVE  /\ at' \in [Threads -> Places]
           /\ expiry' \in [Threads -> Contracts \cup {Unknown}]
           /\ snap' \in [Threads -> Contracts \cup {Unknown}]
           /\ before' \in [Threads -> SUBSET Ids]
           /\ mine' \in [Threads -> Ids \cup {0}]
           /\ known' \in [Threads -> Contracts \cup {Unknown}]
           /\ quote' \in [Threads -> Contracts \cup {Unknown}]
           /\ chain' \in [Threads -> Seq(States)]
           /\ valid' \in [Threads -> BOOLEAN]
           /\ at'[p] = "idle" /\ before'[p] = {}
           /\ OthersWait(p)
BY DEF TypeOK, Return, Forget, Goto, Places, OthersWait

LEMMA ReconcileTypes ==
    ASSUME TypeOK, NEW p \in Threads, Reconcile(p)
    PROVE  /\ at' \in [Threads -> Places]
           /\ expiry' \in [Threads -> Contracts \cup {Unknown}]
           /\ snap' \in [Threads -> Contracts \cup {Unknown}]
           /\ mine' \in [Threads -> Ids \cup {0}]
           /\ known' \in [Threads -> Contracts \cup {Unknown}]
           /\ quote' \in [Threads -> Contracts \cup {Unknown}]
           /\ at'[p] = "diff"
           /\ \A q \in Threads \ {p} : at'[q] = at[q] /\ mine'[q] = mine[q]
BY DEF TypeOK, Reconcile, Forget, Goto, Places

LEMMA NextExitTypes ==
    ASSUME TypeOK, NEW p \in Threads, NEW ids \in SUBSET Ids, NextExit(p, ids),
           \A id \in ids : trade[id].status = "closed", UNCHANGED trade
    PROVE  /\ at' \in [Threads -> Places]
           /\ expiry' \in [Threads -> Contracts \cup {Unknown}]
           /\ snap' \in [Threads -> Contracts \cup {Unknown}]
           /\ before' \in [Threads -> SUBSET Ids]
           /\ mine' \in [Threads -> Ids \cup {0}]
           /\ known' \in [Threads -> Contracts \cup {Unknown}]
           /\ quote' \in [Threads -> Contracts \cup {Unknown}]
           /\ chain' \in [Threads -> Seq(States)]
           /\ valid' \in [Threads -> BOOLEAN]
           /\ OthersWait(p)
           /\ Knows(p)'
<1>1. CASE ids = {}
  <2>1. Return(p)
    BY <1>1 DEF NextExit
  <2>2. Knows(p)'
    BY <2>1, ReturnTypes DEF Knows
  <2> QED BY <2>1, <2>2, ReturnTypes
<1>2. CASE ids # {}
  <2>1. PICK id \in ids : /\ mine' = [mine EXCEPT ![p] = id]
                          /\ before' = [before EXCEPT ![p] = ids \ {id}]
                          /\ chain' = [chain EXCEPT ![p] = Exit]
                          /\ valid' = [valid EXCEPT ![p] = FALSE]
                          /\ Goto(p, "exit")
                          /\ UNCHANGED <<expiry, snap, known, quote>>
    BY <1>2 DEF NextExit
  <2>2. at'[p] = "exit" /\ mine'[p] = id /\ chain'[p] = Exit /\ before'[p] = ids \ {id}
    BY <2>1 DEF Goto, TypeOK
  <2>3. Knows(p)'
    BY <2>2, ExitStates DEF Knows
  <2>4. OthersWait(p)
    BY <2>1 DEF OthersWait, Goto, TypeOK
  <2>5. chain' \in [Threads -> Seq(States)]
    BY <2>1, ExitStates DEF TypeOK
  <2>6. before' \in [Threads -> SUBSET Ids]
    BY <2>1 DEF TypeOK
  <2> QED BY <2>1, <2>3, <2>4, <2>5, <2>6 DEF TypeOK, Goto, Places
<1> QED BY <1>1, <1>2

\* One more state of a chain done, or the chain given up.
LEMMA ContinueKeeps ==
    ASSUME TypeOK, NEW p \in Threads, Knows(p), at[p] \in {"advance", "exit"},
           NEW rest, rest \in Seq(States), at[p] = "advance" => rest \in Seq(Entering),
           Continue(p, rest), UNCHANGED trade
    PROVE  /\ at' \in [Threads -> Places]
           /\ expiry' \in [Threads -> Contracts \cup {Unknown}]
           /\ snap' \in [Threads -> Contracts \cup {Unknown}]
           /\ before' \in [Threads -> SUBSET Ids]
           /\ mine' \in [Threads -> Ids \cup {0}]
           /\ known' \in [Threads -> Contracts \cup {Unknown}]
           /\ quote' \in [Threads -> Contracts \cup {Unknown}]
           /\ chain' \in [Threads -> Seq(States)]
           /\ valid' \in [Threads -> BOOLEAN]
           /\ OthersWait(p)
           /\ Knows(p)'
<1>1. CASE /\ rest # << >>
           /\ chain' = [chain EXCEPT ![p] = rest]
           /\ valid' = [valid EXCEPT ![p] = FALSE]
           /\ UNCHANGED <<at, expiry, snap, before, mine, known, quote>>
  <2>1. chain'[p] = rest /\ chain' \in [Threads -> Seq(States)]
    BY <1>1 DEF TypeOK
  <2>2. Knows(p)'
    BY <1>1, <2>1 DEF Knows
  <2>3. OthersWait(p)
    BY <1>1 DEF OthersWait, TypeOK
  <2> QED BY <1>1, <2>1, <2>2, <2>3 DEF TypeOK
<1>2. CASE /\ rest = << >>
           /\ at[p] = "advance"
           /\ chain' = [chain EXCEPT ![p] = << >>]
           /\ valid' = [valid EXCEPT ![p] = FALSE]
           /\ Reconcile(p)
           /\ UNCHANGED before
  <2>1. chain' \in [Threads -> Seq(States)] /\ valid' \in [Threads -> BOOLEAN]
    BY <1>2 DEF TypeOK
  <2>2. at'[p] = "diff"
    BY <1>2, ReconcileTypes
  <2>3. Knows(p)'
    BY <1>2, <2>2 DEF Knows
  <2>4. OthersWait(p)
    BY <1>2, ReconcileTypes DEF OthersWait, TypeOK
  <2>5. before' \in [Threads -> SUBSET Ids]
    BY <1>2 DEF TypeOK
  <2> QED BY <1>2, <2>1, <2>3, <2>4, <2>5, ReconcileTypes
<1>3. CASE rest = << >> /\ at[p] = "exit" /\ NextExit(p, before[p])
  <2>1. before[p] \in SUBSET Ids /\ \A id \in before[p] : trade[id].status = "closed"
    BY <1>3 DEF Knows, TypeOK
  <2> QED BY <1>3, <2>1, NextExitTypes
<1> QED BY <1>1, <1>2, <1>3 DEF Continue

-----------------------------------------------------------------------------
\* A step that leaves the tables alone needs to be looked at for its own
\* thread only.
LEMMA LocalStep ==
    ASSUME IInv, NEW p \in Threads, TypeOK', UNCHANGED tables, OthersWait(p), Knows(p)'
    PROVE  IInv'
<1>1. RowsAdvance
  BY DEF RowsAdvance, tables
<1>2. \A q \in Threads \ {p} : Knows(q)'
  BY <1>1, OthersKnow DEF IInv
<1>3. ExitFollowsClose' /\ BlankRows'
  BY DEF IInv, ExitFollowsClose, BlankRows, tables
<1> QED BY <1>2, <1>3 DEF IInv

LEMMA StepIInv == IInv /\ [Next]_vars => IInv'
<1> SUFFICES ASSUME IInv, [Next]_vars PROVE IInv'
  OBVIOUS
<1> USE DEF IInv
<1>1. CASE LogReading
  <2>1. history[1] \in Contracts
    BY DEF TypeOK
  <2>2. <<contract, history[1]>> \in Seq(Contracts) /\ Len(<<contract, history[1]>>) = 2
    BY <2>1 DEF TypeOK
  <2>3. TypeOK'
    BY <1>1, <2>2 DEF LogReading, TypeOK, tables
  <2>4. \A q \in Threads : Knows(q)'
    BY <1>1 DEF LogReading, Knows, tables
  <2> QED BY <1>1, <2>3, <2>4 DEF LogReading, ExitFollowsClose, BlankRows, tables
<1>2. CASE RollOver
  <2>1. TypeOK'
    BY <1>2, CycleAssumption DEF RollOver, TypeOK, tables, Contracts
  <2>2. \A q \in Threads : Knows(q)'
    BY <1>2 DEF RollOver, Knows, tables
  <2> QED BY <1>2, <2>1, <2>2 DEF RollOver, ExitFollowsClose, BlankRows, tables
<1>3. ASSUME NEW p \in Threads, Resolve(p) PROVE IInv'
  <2>1. TypeOK'
    BY <1>3 DEF Resolve, Goto, TypeOK, Places, tables, market
  <2>2. Knows(p)' /\ OthersWait(p)
    BY <1>3 DEF Resolve, Goto, TypeOK, Knows, OthersWait, tables
  <2> QED BY <1>3, <2>1, <2>2, LocalStep DEF Resolve
<1>4. ASSUME NEW p \in Threads, Snapshot(p) PROVE IInv'
  <2>1. history[1] \in Contracts
    BY DEF TypeOK
  <2>2. TypeOK'
    BY <1>4, <2>1 DEF Snapshot, Goto, TypeOK, Places, tables, market
  <2>3. Knows(p)' /\ OthersWait(p)
    BY <1>4 DEF Snapshot, Goto, TypeOK, Knows, OthersWait, tables
  <2> QED BY <1>4, <2>2, <2>3, LocalStep DEF Snapshot
<1>5. ASSUME NEW p \in Threads, ListBefore(p) PROVE IInv'
  <2>1. TypeOK'
    BY <1>5 DEF ListBefore, Goto, TypeOK, Places, tables, market, OpenIds
  <2>2. Knows(p)' /\ OthersWait(p)
    BY <1>5 DEF ListBefore, Goto, TypeOK, Knows, OthersWait, tables, OpenIds
  <2> QED BY <1>5, <2>1, <2>2, LocalStep DEF ListBefore
<1>6. ASSUME NEW p \in Threads, EvaluateOpen(p) PROVE IInv'
  <2>1. PICK id \in Ids :
           /\ mine' = [mine EXCEPT ![p] = id]
           /\ known' = [known EXCEPT ![p] = trade[id].expiry]
           /\ Goto(p, IF trade[id].expiry = Unknown /\ expiry[p] # Unknown THEN "backfill" ELSE "judge")
           /\ trade[id].status = "open"
    BY <1>6 DEF EvaluateOpen, IsOldest, OpenIds
  <2>2. trade[id].expiry \in Contracts \cup {Unknown}
    BY DEF TypeOK, Trade
  <2>3. at'[p] \in {"backfill", "judge"} /\ at' \in [Threads -> Places]
    BY <2>1 DEF Goto, TypeOK, Places
  <2>4. TypeOK'
    BY <1>6, <2>1, <2>2, <2>3 DEF EvaluateOpen, TypeOK, tables, market
  <2>5. Knows(p)' /\ OthersWait(p)
    BY <1>6, <2>1, <2>3 DEF EvaluateOpen, Goto, TypeOK, Knows, OthersWait, tables
  <2> QED BY <1>6, <2>4, <2>5, LocalStep DEF EvaluateOpen
<1>7. ASSUME NEW p \in Threads, EvaluateFlat(p) PROVE IInv'
  <2>1. CASE Reconcile(p)
    <3>1. TypeOK'
      BY <1>7, <2>1, ReconcileTypes DEF EvaluateFlat, TypeOK, tables, market
    <3>2. OthersWait(p)
      BY <1>7, <2>1, ReconcileTypes DEF EvaluateFlat, OthersWait
    <3>3. Knows(p)'
      BY <1>7, <2>1, ReconcileTypes DEF EvaluateFlat, Knows, tables
    <3> QED BY <1>7, <3>1, <3>2, <3>3, LocalStep DEF EvaluateFlat
  <2>2. CASE p \in Cyclers /\ Goto(p, "enter") /\ UNCHANGED <<expiry, snap, mine, known, quote>>
    <3>1. TypeOK'
      BY <1>7, <2>2 DEF EvaluateFlat, TypeOK, Goto, Places, tables, market
    <3>2. OthersWait(p)
      BY <1>7, <2>2 DEF EvaluateFlat, OthersWait, Goto, TypeOK
    <3>3. Knows(p)'
      BY <1>7, <2>2 DEF EvaluateFlat, Knows, Goto, TypeOK, tables
    <3> QED BY <1>7, <3>1, <3>2, <3>3, LocalStep DEF EvaluateFlat
  <2> QED BY <1>7, <2>1, <2>2 DEF EvaluateFlat
<1>8. ASSUME NEW p \in Threads, Backfill(p) PROVE IInv'
  <2>1. mine[p] \in Ids
    BY <1>8 DEF Backfill, Knows
  <2>2. expiry[p] \in Contracts \cup {Unknown} /\ trade[mine[p]] \in Trade
    BY <2>1 DEF TypeOK
  <2>3. /\ Backfilled(trade[mine[p]], expiry[p]) \in Trade
        /\ Backfilled(trade[mine[p]], expiry[p]).status = trade[mine[p]].status
    BY <2>2 DEF Backfilled, Trade
  <2>4. trade' \in [Ids -> Trade] /\ \A id \in Ids : trade'[id].status = trade[id].status
    BY <1>8, <2>1, <2>3 DEF Backfill, TypeOK
  <2>5. TypeOK'
    BY <1>8, <2>2, <2>4 DEF Backfill, Goto, TypeOK, Places, market
  <2>6. RowsAdvance
    BY <2>4 DEF RowsAdvance
  <2>7. OthersWait(p)
    BY <1>8 DEF Backfill, OthersWait, Goto, TypeOK
  <2>8. Knows(p)'
    BY ZenonT(30), <1>8, <2>1, <2>4 DEF Backfill, Knows, Goto, TypeOK
  <2>9. ExitFollowsClose'
    BY <1>8, <2>4 DEF Backfill, ExitFollowsClose
  <2>10. BlankRows'
    BY <1>8, <2>1, <2>4 DEF Backfill, Knows, BlankRows, TypeOK
  <2> QED BY <2>5, <2>6, <2>7, <2>8, <2>9, <2>10, OthersKnow
<1>9. ASSUME NEW p \in Threads, Hold(p) PROVE IInv'
  <2>1. TypeOK'
    BY <1>9, ReconcileTypes DEF Hold, TypeOK, tables, market
  <2>2. OthersWait(p)
    BY <1>9, ReconcileTypes DEF Hold, OthersWait
  <2>3. Knows(p)'
    BY <1>9, ReconcileTypes DEF Hold, Knows, tables
  <2> QED BY <1>9, <2>1, <2>2, <2>3, LocalStep DEF Hold
<1>10. ASSUME NEW p \in Threads, DecideExit(p) PROVE IInv'
  <2>1. history[1] \in Contracts /\ PreRollover \in Contracts
    BY DEF TypeOK, PreRollover
  <2>2. Prices(p) \subseteq Contracts \cup {Unknown}
    BY <2>1 DEF Prices, TypeOK
  <2>3. TypeOK'
    BY <1>10, <2>2 DEF DecideExit, Goto, TypeOK, Places, tables, market
  <2>4. Knows(p)' /\ OthersWait(p)
    BY <1>10 DEF DecideExit, Goto, TypeOK, Knows, OthersWait, tables
  <2> QED BY <1>10, <2>3, <2>4, LocalStep DEF DecideExit
<1>11. ASSUME NEW p \in Threads, CloseTrade(p) PROVE IInv'
  <2> DEFINE why == IF RolledOver(p) THEN "expired" ELSE "level"
             new == Closed(trade[mine[p]], quote[p], why)
  <2>1. mine[p] \in Ids
    BY <1>11 DEF CloseTrade, Knows
  <2>2. quote[p] \in Contracts \cup {Unknown} /\ trade[mine[p]] \in Trade
    BY <2>1 DEF TypeOK
  <2>3. new \in Trade /\ new.status = "closed"
    BY <2>2 DEF Closed, Trade
  <2>4. trade' = [trade EXCEPT ![mine[p]] = new]
    BY <1>11 DEF CloseTrade
  <2> HIDE DEF new
  <2>5. /\ trade' \in [Ids -> Trade]
        /\ \A id \in Ids : trade'[id].status = IF id = mine[p] THEN "closed" ELSE trade[id].status
    BY <2>1, <2>3, <2>4 DEF TypeOK
  <2>6. TypeOK'
    BY <1>11, <2>5, ReconcileTypes DEF CloseTrade, TypeOK, market
  <2>7. RowsAdvance
    BY <2>5 DEF RowsAdvance
  <2>8. OthersWait(p)
    BY <1>11, ReconcileTypes DEF CloseTrade, OthersWait
  <2>9. Knows(p)'
    <3>1. at'[p] = "diff" /\ before' = before
      BY <1>11, ReconcileTypes DEF CloseTrade
    <3>2. \A id \in before[p] : trade'[id].status # "absent"
      BY <2>7 DEF RowsAdvance, Knows, TypeOK
    <3> QED BY <3>1, <3>2 DEF Knows
  <2>10. ExitFollowsClose'
    BY <1>11, <2>5 DEF CloseTrade, ExitFollowsClose
  <2>11. BlankRows'
    BY <2>1, <2>4, <2>5 DEF BlankRows, TypeOK
  <2> QED BY <2>6, <2>7, <2>8, <2>9, <2>10, <2>11, OthersKnow
<1>12. ASSUME NEW p \in Threads, OpenTrade(p) PROVE IInv'
  <2> DEFINE new == [NoTrade EXCEPT !.status = "open", !.expiry = expiry[p], !.bought = snap[p]]
  <2>1. PICK id \in Ids : /\ trade[id].status = "absent"
                          /\ trade' = [trade EXCEPT ![id] = new]
                          /\ mine' = [mine EXCEPT ![p] = id]
    BY <1>12 DEF OpenTrade
  <2>2. new \in Trade /\ new.status = "open"
    BY DEF TypeOK, NoTrade, Trade
  <2> HIDE DEF new
  <2>3. /\ trade' \in [Ids -> Trade]
        /\ \A i \in Ids : trade'[i].status = IF i = id THEN "open" ELSE trade[i].status
    BY <2>1, <2>2 DEF TypeOK
  <2>4. at'[p] = "create" /\ mine'[p] = id
    BY <1>12, <2>1 DEF OpenTrade, Goto, TypeOK
  <2>5. TypeOK'
    BY <1>12, <2>1, <2>3 DEF OpenTrade, Goto, Forget, TypeOK, Places, market
  <2>6. RowsAdvance
    BY <2>1, <2>3 DEF RowsAdvance
  <2>7. OthersWait(p)
    BY <1>12, <2>1 DEF OpenTrade, OthersWait, Goto, TypeOK
  <2>8. Knows(p)'
    <3>1. \A i \in before[p] : trade'[i].status # "absent"
      BY <2>6 DEF RowsAdvance, Knows, TypeOK
    <3> QED BY <1>12, <2>4, <3>1 DEF OpenTrade, Knows
  <2>9. ExitFollowsClose'
    BY <1>12, <2>1, <2>3 DEF OpenTrade, ExitFollowsClose
  <2>10. BlankRows'
    BY <2>1, <2>3 DEF BlankRows, TypeOK
  <2> QED BY <2>5, <2>6, <2>7, <2>8, <2>9, <2>10, OthersKnow
<1>13. ASSUME NEW p \in Threads, CreateExecution(p) PROVE IInv'
  <2>1. mine[p] \in Ids
    BY <1>13 DEF CreateExecution, Knows
  <2>2. /\ exec' \in [Ids -> States \cup {"absent"}]
        /\ \A id \in Ids : exec'[id] \in Leaving => exec'[id] = exec[id]
    BY <1>13, <2>1 DEF CreateExecution, TypeOK, States, Leaving
  <2>3. chain'[p] = Entry /\ chain' \in [Threads -> Seq(States)]
    BY <1>13, EntryStates DEF CreateExecution, TypeOK
  <2>4. TypeOK'
    BY <1>13, <2>2, <2>3 DEF CreateExecution, Goto, TypeOK, Places, market
  <2>5. OthersWait(p) /\ RowsAdvance
    BY <1>13 DEF CreateExecution, OthersWait, RowsAdvance, Goto, TypeOK
  <2>6. Knows(p)'
    BY <1>13, <2>1, <2>3, EntryStates DEF CreateExecution, Knows, Goto, TypeOK
  <2>7. ExitFollowsClose'
    BY <1>13, <2>2 DEF CreateExecution, ExitFollowsClose, Leaving
  <2>8. BlankRows'
    BY <1>13 DEF CreateExecution, BlankRows
  <2> QED BY <2>4, <2>5, <2>6, <2>7, <2>8, OthersKnow
<1>14. ASSUME NEW p \in Threads, CheckTransition(p) PROVE IInv'
  <2>1. chain[p] # << >> /\ chain[p] \in Seq(States) /\ (at[p] = "advance" => chain[p] \in Seq(Entering))
    BY <1>14 DEF CheckTransition, Knows, TypeOK
  <2>2. CASE /\ valid' = [valid EXCEPT ![p] = TRUE]
             /\ UNCHANGED <<at, expiry, snap, before, mine, known, quote, chain>>
    <3>1. TypeOK'
      BY <1>14, <2>2 DEF CheckTransition, TypeOK, tables, market
    <3>2. OthersWait(p) /\ Knows(p)'
      BY <1>14, <2>2 DEF CheckTransition, OthersWait, Knows, tables
    <3> QED BY <1>14, <3>1, <3>2, LocalStep DEF CheckTransition
  <2>3. ASSUME NEW rest \in {Tail(chain[p]), AfterRejection(chain[p])}, Continue(p, rest) PROVE IInv'
    <3>1. rest \in Seq(States) /\ (at[p] = "advance" => rest \in Seq(Entering))
      BY <2>1, <2>3, Rest
    <3>2. TypeOK' /\ OthersWait(p) /\ Knows(p)'
      BY <1>14, <2>3, <3>1, ContinueKeeps DEF CheckTransition, TypeOK, tables, market
    <3> QED BY <1>14, <3>2, LocalStep DEF CheckTransition
  <2> QED BY <1>14, <2>2, <2>3 DEF CheckTransition
<1>15. ASSUME NEW p \in Threads, WriteTransition(p) PROVE IInv'
  <2> DEFINE t == Head(chain[p])
  <2>1. chain[p] # << >> /\ chain[p] \in Seq(States) /\ (at[p] = "advance" => chain[p] \in Seq(Entering))
    BY <1>15 DEF WriteTransition, Knows, TypeOK
  <2>2. /\ t \in States /\ (at[p] = "advance" => t \in Entering)
        /\ Tail(chain[p]) \in Seq(States) /\ (at[p] = "advance" => Tail(chain[p]) \in Seq(Entering))
    BY <2>1, Rest
  <2>3. mine[p] \in Ids /\ (at[p] = "exit" => trade[mine[p]].status = "closed")
    BY <1>15 DEF WriteTransition, Knows
  <2> HIDE DEF t
  <2>4. exec' = [exec EXCEPT ![mine[p]] = t]
    BY <1>15 DEF WriteTransition, t
  <2>5. exec' \in [Ids -> States \cup {"absent"}]
    BY <2>2, <2>3, <2>4 DEF TypeOK
  <2>6. TypeOK' /\ OthersWait(p) /\ Knows(p)'
    BY <1>15, <2>2, <2>5, ContinueKeeps DEF WriteTransition, TypeOK, market
  <2>7. RowsAdvance
    BY <1>15 DEF WriteTransition, RowsAdvance
  <2>8. ExitFollowsClose'
    BY <1>15, <2>2, <2>3, <2>4 DEF WriteTransition, ExitFollowsClose, Entering, Leaving, TypeOK
  <2>9. BlankRows'
    BY <1>15 DEF WriteTransition, BlankRows
  <2> QED BY <2>6, <2>7, <2>8, <2>9, OthersKnow
<1>16. ASSUME NEW p \in Threads, FindClosed(p) PROVE IInv'
  <2>1. before[p] \ OpenIds \in SUBSET Ids
    BY DEF TypeOK
  <2>2. \A id \in before[p] \ OpenIds : trade[id].status = "closed"
    BY DEF OpenIds, Knows, TypeOK, Trade
  <2>3. TypeOK' /\ OthersWait(p) /\ Knows(p)'
    BY <1>16, <2>1, <2>2, NextExitTypes DEF FindClosed, TypeOK, tables, market
  <2> QED BY <1>16, <2>3, LocalStep DEF FindClosed
<1>17. ASSUME NEW p \in Threads, ShadowFails(p) PROVE IInv'
  <2>1. TypeOK'
    BY <1>17, ReconcileTypes, CycleAssumption DEF ShadowFails, TypeOK, tables, market
  <2>2. OthersWait(p)
    BY <1>17, ReconcileTypes DEF ShadowFails, OthersWait, TypeOK
  <2>3. Knows(p)'
    BY <1>17, ReconcileTypes DEF ShadowFails, Knows, tables
  <2> QED BY <1>17, <2>1, <2>2, <2>3, LocalStep DEF ShadowFails
<1>18. ASSUME NEW p \in Threads, Abort(p) PROVE IInv'
  <2>1. TypeOK'
    BY <1>18, ReturnTypes, CycleAssumption DEF Abort, TypeOK, tables, market
  <2>2. OthersWait(p) /\ Knows(p)'
    BY <1>18, ReturnTypes DEF Abort, Knows
  <2> QED BY <1>18, <2>1, <2>2, LocalStep DEF Abort
<1>19. CASE UNCHANGED vars
  <2>1. TypeOK'
    BY <1>19 DEF vars, TypeOK, tables
  <2>2. \A q \in Threads : Knows(q)'
    BY <1>19 DEF vars, Knows, tables
  <2> QED BY <1>19, <2>1, <2>2 DEF vars, ExitFollowsClose, BlankRows, tables
<1> QED
  BY <1>1, <1>2, <1>3, <1>4, <1>5, <1>6, <1>7, <1>8, <1>9, <1>10, <1>11, <1>12, <1>13, <1>14, <1>15,
     <1>16, <1>17, <1>18, <1>19 DEF Next, Step

\* The inductive invariant of the trade cycle.
THEOREM CycleInvariant == Spec => []IInv
BY InitIInv, StepIInv, PTL DEF Spec

\* Every variable keeps its type.
THEOREM CycleTypeCorrect == Spec => []TypeOK
BY CycleInvariant, PTL DEF IInv

\* No execution is driven out of MONITORING while its trade is open.
THEOREM ExitsFollowCloses == Spec => []ExitFollowsClose
BY CycleInvariant, PTL DEF IInv

-----------------------------------------------------------------------------
\* The expiry of a trade is written once.
LEMMA ExpiryStep == IInv /\ [Next]_vars =>
    \A id \in Ids : trade[id].expiry # Unknown => trade'[id].expiry = trade[id].expiry
<1> SUFFICES ASSUME IInv, [Next]_vars, NEW id \in Ids, trade[id].expiry # Unknown
             PROVE  trade'[id].expiry = trade[id].expiry
  OBVIOUS
<1> USE DEF IInv
<1>1. ASSUME NEW p \in Threads, Backfill(p) PROVE trade'[id].expiry = trade[id].expiry
  BY <1>1 DEF Backfill, Backfilled, TypeOK
<1>2. ASSUME NEW p \in Threads, CloseTrade(p) PROVE trade'[id].expiry = trade[id].expiry
  <2>1. trade[id] \in Trade
    BY DEF TypeOK
  <2>2. \A c, why : Closed(trade[id], c, why).expiry = trade[id].expiry
    BY <2>1 DEF Closed, Trade
  <2>3. mine[p] \in Ids
    BY <1>2 DEF CloseTrade, Knows
  <2>4. CASE mine[p] = id
    BY <1>2, <2>2, <2>4 DEF CloseTrade, TypeOK
  <2>5. CASE mine[p] # id
    BY <1>2, <2>5 DEF CloseTrade, TypeOK
  <2> QED BY <2>4, <2>5
<1>3. ASSUME NEW p \in Threads, OpenTrade(p) PROVE trade'[id].expiry = trade[id].expiry
  BY <1>3 DEF OpenTrade, BlankRows, TypeOK
<1>4. CASE UNCHANGED trade
  BY <1>4
<1> QED
  BY <1>1, <1>2, <1>3, <1>4
  DEF Next, Step, vars, tables, LogReading, RollOver, Resolve, Snapshot, ListBefore, EvaluateOpen,
      EvaluateFlat, Hold, DecideExit, CreateExecution, CheckTransition, WriteTransition, FindClosed,
      ShadowFails, Abort

\* "Never overwrites an already-set value": racing backfills on both sides of
\* a rollover leave the first expiry in place.
THEOREM ExpiryIsKept == Spec => ExpirySticks
<1>1. IInv /\ [Next]_vars =>
        [\A id \in Ids : trade[id].expiry # Unknown => trade'[id].expiry = trade[id].expiry]_vars
  BY ExpiryStep
<1> QED BY <1>1, CycleInvariant, PTL DEF Spec, ExpirySticks

-----------------------------------------------------------------------------
(* One cycler never has two trades open.                                    *)

\* While an entry is on its way no trade is open.
EntersFlat == \A p \in Threads : at[p] = "enter" => OpenIds = {}

\* No step but an INSERT opens a trade, and an entry starts with none open.
LEMMA OnlyEntriesOpen ==
    ASSUME IInv, [Next]_vars, \A p \in Threads : ~OpenTrade(p)
    PROVE  /\ OpenIds' \subseteq OpenIds
           /\ \A q \in Threads : at'[q] = "enter" => at[q] = "enter" \/ OpenIds = {}
<1> USE DEF IInv
<1>1. ASSUME NEW p \in Threads, NEW place \in Places \ {"enter"}, Goto(p, place), UNCHANGED trade
      PROVE  /\ OpenIds' \subseteq OpenIds
             /\ \A q \in Threads : at'[q] = "enter" => at[q] = "enter" \/ OpenIds = {}
  BY <1>1 DEF Goto, OpenIds, TypeOK
<1>2. ASSUME UNCHANGED <<trade, at>>
      PROVE  /\ OpenIds' \subseteq OpenIds
             /\ \A q \in Threads : at'[q] = "enter" => at[q] = "enter" \/ OpenIds = {}
  BY <1>2 DEF OpenIds
<1>3. ASSUME NEW p \in Threads, EvaluateFlat(p)
      PROVE  /\ OpenIds' \subseteq OpenIds
             /\ \A q \in Threads : at'[q] = "enter" => at[q] = "enter" \/ OpenIds = {}
  BY <1>3 DEF EvaluateFlat, OpenIds, tables
<1>4. ASSUME NEW p \in Threads, Backfill(p)
      PROVE  /\ OpenIds' \subseteq OpenIds
             /\ \A q \in Threads : at'[q] = "enter" => at[q] = "enter" \/ OpenIds = {}
  <2>1. \A id \in Ids : trade'[id].status = trade[id].status
    BY <1>4 DEF Backfill, Backfilled, TypeOK, Trade
  <2> QED BY <1>4, <2>1 DEF Backfill, Goto, OpenIds, TypeOK
<1>5. ASSUME NEW p \in Threads, CloseTrade(p)
      PROVE  /\ OpenIds' \subseteq OpenIds
             /\ \A q \in Threads : at'[q] = "enter" => at[q] = "enter" \/ OpenIds = {}
  <2>1. mine[p] \in Ids
    BY <1>5 DEF CloseTrade, Knows
  <2>2. \A c, why : Closed(trade[mine[p]], c, why).status = "closed"
    BY <2>1 DEF Closed, TypeOK, Trade
  <2>3. \A id \in Ids : trade'[id].status = "open" => trade[id].status = "open"
    BY <1>5, <2>1, <2>2 DEF CloseTrade, TypeOK
  <2> QED BY <1>5, <2>3, ReconcileTypes DEF CloseTrade, Reconcile, Goto, OpenIds, TypeOK
<1>6. ASSUME NEW p \in Threads, EvaluateOpen(p)
      PROVE  /\ OpenIds' \subseteq OpenIds
             /\ \A q \in Threads : at'[q] = "enter" => at[q] = "enter" \/ OpenIds = {}
  BY <1>6, <1>1 DEF EvaluateOpen, Places, tables
<1>7. ASSUME NEW p \in Threads, NEW rest, Continue(p, rest), UNCHANGED trade
      PROVE  /\ OpenIds' \subseteq OpenIds
             /\ \A q \in Threads : at'[q] = "enter" => at[q] = "enter" \/ OpenIds = {}
  BY <1>7, <1>1, <1>2 DEF Continue, NextExit, Return, Reconcile, Places
<1>8. ASSUME NEW p \in Threads,
             \/ Resolve(p) \/ Snapshot(p) \/ ListBefore(p) \/ Hold(p) \/ DecideExit(p)
             \/ CreateExecution(p) \/ FindClosed(p) \/ ShadowFails(p) \/ Abort(p)
      PROVE  /\ OpenIds' \subseteq OpenIds
             /\ \A q \in Threads : at'[q] = "enter" => at[q] = "enter" \/ OpenIds = {}
  BY <1>8, <1>1 DEF Resolve, Snapshot, ListBefore, Hold, DecideExit, CreateExecution, FindClosed,
                    ShadowFails, Abort, NextExit, Return, Reconcile, Places, tables
<1>9. ASSUME NEW p \in Threads, CheckTransition(p) \/ WriteTransition(p)
      PROVE  /\ OpenIds' \subseteq OpenIds
             /\ \A q \in Threads : at'[q] = "enter" => at[q] = "enter" \/ OpenIds = {}
  BY <1>9, <1>2, <1>7 DEF CheckTransition, WriteTransition, tables
<1> QED
  BY <1>2, <1>3, <1>4, <1>5, <1>6, <1>8, <1>9
  DEF Next, Step, vars, tables, LogReading, RollOver

\* A single cycler opens a trade only where none is open, whatever readers
\* close in the meantime.
THEOREM OneTradeAtATime ==
    ASSUME \A c, d \in Cyclers : c = d
    PROVE  Spec => []OneOpenTrade
<1> DEFINE Inv == OneOpenTrade /\ EntersFlat
<1>1. Init => Inv
  BY CycleAssumption DEF Init, OneOpenTrade, EntersFlat, OpenIds, NoTrade, Legacy, Ids
<1>2. IInv /\ Inv /\ [Next]_vars => Inv'
  <2> SUFFICES ASSUME IInv, Inv, [Next]_vars PROVE Inv'
    OBVIOUS
  <2>1. CASE \A p \in Threads : ~OpenTrade(p)
    BY <2>1, OnlyEntriesOpen DEF OneOpenTrade, EntersFlat
  <2>2. ASSUME NEW p \in Threads, OpenTrade(p) PROVE Inv'
    <3>1. OpenIds = {} /\ p \in Cyclers
      BY <2>2 DEF OpenTrade, EntersFlat, IInv, Knows
    <3>2. PICK id \in Ids : \A i \in Ids : i # id => trade'[i] = trade[i]
      BY <2>2 DEF OpenTrade, IInv, TypeOK
    <3>3. OpenIds' \subseteq {id}
      BY <3>1, <3>2 DEF OpenIds
    <3>4. at'[p] # "enter" /\ \A q \in Threads \ {p} : at'[q] = at[q]
      BY <2>2 DEF OpenTrade, Goto, IInv, TypeOK
    <3>5. \A q \in Threads \ {p} : at[q] # "enter"
      BY <3>1 DEF IInv, Knows
    <3> QED BY <3>3, <3>4, <3>5 DEF OneOpenTrade, EntersFlat
  <2> QED BY <2>1, <2>2
<1>3. Inv => OneOpenTrade
  OBVIOUS
<1> QED BY <1>1, <1>2, <1>3, CycleInvariant, PTL DEF Spec
-----------------------------------------------------------------------------
(* Expiry and prices of an entry are of one contract.                      *)

\* A trade of this version carries the expiry its entry price belongs to, from its first row on:
\* a backfill finds nothing to fill in.
NewRows ==
    \A id \in Ids : id > LegacyTrades =>
        /\ trade[id].bought = trade[id].expiry
        /\ trade[id].status # "absent" => trade[id].expiry # Unknown

\* An entry on its way has a resolved expiry and a snapshot of that contract.
Priced == \A p \in Threads : at[p] = "enter" => expiry[p] # Unknown /\ snap[p] = expiry[p]

\* Only an entry looks at what was read for it, and only its own thread changes that.
LEMMA PricedStep == IInv /\ Priced /\ [Next]_vars => Priced'
<1> SUFFICES ASSUME IInv, Priced, [Next]_vars PROVE Priced'
  OBVIOUS
<1> USE DEF IInv
<1>1. ASSUME NEW p \in Threads, at'[p] # "enter",
             \A q \in Threads \ {p} : at'[q] = at[q] /\ expiry'[q] = expiry[q] /\ snap'[q] = snap[q]
      PROVE  Priced'
  BY <1>1 DEF Priced
<1>2. ASSUME UNCHANGED <<at, expiry, snap>> PROVE Priced'
  BY <1>2 DEF Priced
<1>3. ASSUME NEW p \in Threads, Return(p) \/ Reconcile(p) PROVE Priced'
  <2>1. at'[p] # "enter"
    BY <1>3 DEF Return, Reconcile, Goto, TypeOK
  <2>2. \A q \in Threads \ {p} : at'[q] = at[q] /\ expiry'[q] = expiry[q] /\ snap'[q] = snap[q]
    BY <1>3 DEF Return, Reconcile, Forget, Goto, TypeOK
  <2> QED BY <1>1, <2>1, <2>2
<1>4. ASSUME NEW p \in Threads, NEW place \in Places \ {"enter"}, Goto(p, place),
             \A q \in Threads \ {p} : expiry'[q] = expiry[q] /\ snap'[q] = snap[q]
      PROVE  Priced'
  BY <1>1, <1>4 DEF Goto, TypeOK
<1>5. ASSUME NEW p \in Threads, NEW ids, NextExit(p, ids) PROVE Priced'
  BY <1>3, <1>4, <1>5 DEF NextExit, Places
<1>6. ASSUME NEW p \in Threads, NEW rest, Continue(p, rest) PROVE Priced'
  BY <1>2, <1>3, <1>5, <1>6 DEF Continue
<1>7. ASSUME NEW p \in Threads, CheckTransition(p) \/ WriteTransition(p) PROVE Priced'
  BY <1>2, <1>6, <1>7 DEF CheckTransition, WriteTransition
<1>8. ASSUME NEW p \in Threads, FindClosed(p) \/ ShadowFails(p) \/ Abort(p) \/ Hold(p) \/ CloseTrade(p)
      PROVE  Priced'
  BY <1>3, <1>5, <1>8 DEF FindClosed, ShadowFails, Abort, Hold, CloseTrade
<1>9. ASSUME NEW p \in Threads, EvaluateFlat(p) PROVE Priced'
  <2>1. CASE CanBuy(p) /\ Goto(p, "enter") /\ UNCHANGED <<expiry, snap, mine, known, quote>>
    BY <2>1 DEF CanBuy, Goto, Priced, TypeOK
  <2> QED BY <1>3, <1>9, <2>1 DEF EvaluateFlat
<1>10. ASSUME NEW p \in Threads, Resolve(p) \/ Snapshot(p) PROVE Priced'
  <2>1. at'[p] # "enter" /\ \A q \in Threads \ {p} : at'[q] = at[q]
    BY <1>10 DEF Resolve, Snapshot, Goto, TypeOK
  <2>2. \A q \in Threads \ {p} : expiry'[q] = expiry[q] /\ snap'[q] = snap[q]
    BY <1>10 DEF Resolve, Snapshot, TypeOK
  <2> QED BY <1>1, <2>1, <2>2
<1>11. ASSUME NEW p \in Threads,
              ListBefore(p) \/ EvaluateOpen(p) \/ Backfill(p) \/ DecideExit(p) \/ CreateExecution(p)
       PROVE  Priced'
  BY <1>4, <1>11 DEF ListBefore, EvaluateOpen, Backfill, DecideExit, CreateExecution, Places
<1>12. ASSUME NEW p \in Threads, OpenTrade(p) PROVE Priced'
  <2>1. at'[p] # "enter" /\ \A q \in Threads \ {p} : at'[q] = at[q]
    BY <1>12 DEF OpenTrade, Goto, TypeOK
  <2>2. \A q \in Threads \ {p} : expiry'[q] = expiry[q] /\ snap'[q] = snap[q]
    BY <1>12 DEF OpenTrade, Forget, TypeOK
  <2> QED BY <1>1, <2>1, <2>2
<1> QED
  BY <1>2, <1>7, <1>8, <1>9, <1>10, <1>11, <1>12 DEF Next, Step, LogReading, RollOver, vars

\* Only an INSERT gives a trade its entry, and what a backfill fills in was unknown.
LEMMA NewRowsStep == IInv /\ Priced /\ NewRows /\ [Next]_vars => NewRows'
<1> SUFFICES ASSUME IInv, Priced, NewRows, [Next]_vars PROVE NewRows'
  OBVIOUS
<1> USE DEF IInv
<1>1. ASSUME NEW p \in Threads, OpenTrade(p) PROVE NewRows'
  <2>1. PICK id \in Ids : trade' = [trade EXCEPT ![id] = [NoTrade EXCEPT !.status = "open", !.expiry = expiry[p],
                                                                        !.bought = snap[p]]]
    BY <1>1 DEF OpenTrade
  <2>2. expiry[p] # Unknown /\ snap[p] = expiry[p]
    BY <1>1 DEF OpenTrade, Priced
  <2>3. trade'[id].bought = trade'[id].expiry /\ trade'[id].expiry # Unknown
    BY <2>1, <2>2 DEF NoTrade, TypeOK
  <2>4. \A i \in Ids \ {id} : trade'[i] = trade[i]
    BY <2>1 DEF TypeOK
  <2> QED BY <2>3, <2>4 DEF NewRows
<1>2. ASSUME NEW p \in Threads, Backfill(p) PROVE NewRows'
  <2>1. mine[p] \in Ids /\ trade[mine[p]].status # "absent"
    BY <1>2 DEF Backfill, Knows
  <2>2. mine[p] > LegacyTrades => trade'[mine[p]] = trade[mine[p]]
    BY <1>2, <2>1 DEF Backfill, Backfilled, NewRows, TypeOK
  <2>3. \A i \in Ids \ {mine[p]} : trade'[i] = trade[i]
    BY <1>2, <2>1 DEF Backfill, TypeOK
  <2>4. ASSUME NEW i \in Ids, i > LegacyTrades PROVE trade'[i] = trade[i]
    BY <2>2, <2>3, <2>4
  <2> QED BY <2>4 DEF NewRows
<1>3. ASSUME NEW p \in Threads, CloseTrade(p) PROVE NewRows'
  <2>1. mine[p] \in Ids /\ trade[mine[p]].status # "absent" /\ trade[mine[p]] \in Trade
    BY <1>3 DEF CloseTrade, Knows, TypeOK
  <2>2. \A c, why : /\ Closed(trade[mine[p]], c, why).bought = trade[mine[p]].bought
                    /\ Closed(trade[mine[p]], c, why).expiry = trade[mine[p]].expiry
    BY <2>1 DEF Closed, Trade
  <2>3. trade'[mine[p]].bought = trade[mine[p]].bought /\ trade'[mine[p]].expiry = trade[mine[p]].expiry
    BY <1>3, <2>1, <2>2 DEF CloseTrade, TypeOK
  <2>4. \A i \in Ids \ {mine[p]} : trade'[i] = trade[i]
    BY <1>3, <2>1 DEF CloseTrade, TypeOK
  <2> QED BY <2>1, <2>3, <2>4 DEF NewRows
<1>4. CASE UNCHANGED trade
  BY <1>4 DEF NewRows
<1> QED
  BY <1>1, <1>2, <1>3, <1>4
  DEF Next, Step, vars, tables, LogReading, RollOver, Resolve, Snapshot, ListBefore, EvaluateOpen,
      EvaluateFlat, Hold, DecideExit, CreateExecution, CheckTransition, WriteTransition, FindClosed,
      ShadowFails, Abort

\* However far apart expiry and snapshot are read, and whatever rolls over in between, the entry
\* price of a trade is of the contract whose expiry the trade carries.
THEOREM EntriesMatchExpiry == Spec => []EntriesOnOwnContract
<1>1. Init => NewRows /\ Priced
  <2> SUFFICES ASSUME Init PROVE NewRows /\ Priced
    OBVIOUS
  <2>1. ASSUME NEW id \in Ids, id > LegacyTrades PROVE trade[id] = NoTrade
    <3>1. ~(id <= LegacyTrades)
      BY <2>1, CycleAssumption DEF Ids
    <3> QED BY <3>1 DEF Init
  <2>2. NoTrade.bought = NoTrade.expiry /\ NoTrade.status = "absent"
    BY DEF NoTrade
  <2> QED BY <2>1, <2>2 DEF Init, NewRows, Priced
<1>2. NewRows => EntriesOnOwnContract
  BY DEF NewRows, EntriesOnOwnContract
<1> QED BY <1>1, <1>2, PricedStep, NewRowsStep, CycleInvariant, PTL DEF Spec

-----------------------------------------------------------------------------
(* No execution goes back behind its order.                                *)

\* The states an entry's chain starts from, in the order of the chain.
Behind == <<"SIGNAL", "APPROVED", "READY", "ORDER_INTENT", "SUBMITTED", "FILLED">>

\* What is left of an entry's chain begins where the execution is.
OnTrack(p) ==
    LET n == Len(chain[p]) IN
    /\ n \in 1..6 /\ exec[mine[p]] = Behind[7 - n]
    /\ \A i \in 1..n : chain[p][i] = Entry[i + 6 - n]

\* A thread that takes an execution in is the only one to do so; one that takes it out moves it
\* only when it is ready to leave.
Drives(p) ==
    /\ at[p] \in {"create", "advance"} =>
          /\ trade[mine[p]].status # "absent"
          /\ \A q \in Threads \ {p} : at[q] \in {"create", "advance"} => mine[q] # mine[p]
    /\ at[p] = "create" => exec[mine[p]] = "absent"
    /\ at[p] = "advance" => OnTrack(p)
    /\ at[p] = "exit" => chain[p] \in Seq(Leaving)
    /\ at[p] = "exit" /\ valid[p] => exec[mine[p]] \in {"MONITORING"} \cup Leaving

Track == /\ \A p \in Threads : Drives(p)
         /\ \A id \in Ids : trade[id].status = "absent" => exec[id] = "absent"

\* A step of p that leaves the executions alone and takes p away from them, or to a new exit.
LEMMA QuietStep ==
    ASSUME IInv, Track, NEW p \in Threads, UNCHANGED exec, RowsAdvance, OthersWait(p),
           \A q \in Threads \ {p} : valid'[q] = valid[q],
           \/ at'[p] \notin {"create", "advance", "exit"}
           \/ at'[p] = "exit" /\ chain'[p] \in Seq(Leaving) /\ ~valid'[p]
    PROVE  Track'
<1>1. ASSUME NEW q \in Threads \ {p} PROVE Drives(q)'
  <2>1. /\ at'[q] = at[q] /\ mine'[q] = mine[q] /\ chain'[q] = chain[q] /\ valid'[q] = valid[q]
        /\ Drives(q) /\ Knows(q) /\ (at[q] \in {"create", "advance"} => mine[q] \in Ids)
    BY DEF OthersWait, Track, IInv, Knows
  <2>2. at'[q] \in {"create", "advance"} =>
          /\ trade'[mine'[q]].status # "absent"
          /\ \A o \in Threads \ {q} : at'[o] \in {"create", "advance"} => mine'[o] # mine'[q]
    <3> SUFFICES ASSUME at'[q] \in {"create", "advance"}
                 PROVE  /\ trade'[mine'[q]].status # "absent"
                        /\ \A o \in Threads \ {q} : at'[o] \in {"create", "advance"} => mine'[o] # mine'[q]
      OBVIOUS
    <3>1. trade'[mine'[q]].status # "absent"
      BY <2>1 DEF Drives, RowsAdvance
    <3>2. ASSUME NEW o \in Threads \ {q}, at'[o] \in {"create", "advance"} PROVE mine'[o] # mine'[q]
      BY <2>1, <3>2 DEF Drives, OthersWait
    <3> QED BY <3>1, <3>2
  <2>3. at'[q] = "advance" => OnTrack(q)'
    BY <2>1 DEF Drives, OnTrack
  <2> QED BY <2>1, <2>2, <2>3 DEF Drives
<1>2. Drives(p)'
  BY DEF Drives
<1>3. \A id \in Ids : trade'[id].status = "absent" => exec'[id] = "absent"
  BY DEF Track, RowsAdvance
<1> QED BY <1>1, <1>2, <1>3 DEF Track

\* A step of p that moves the execution p works on, in a way the others bear.
LEMMA MoveStep ==
    ASSUME IInv, Track, NEW p \in Threads, UNCHANGED trade, OthersWait(p), mine[p] \in Ids,
           trade[mine[p]].status # "absent",
           \A q \in Threads \ {p} : valid'[q] = valid[q],
           NEW s, exec' = [exec EXCEPT ![mine[p]] = s],
           \A q \in Threads \ {p} : at[q] \in {"create", "advance"} => mine[q] # mine[p],
           at'[p] \in {"create", "advance"} => mine'[p] = mine[p],
           exec[mine[p]] \in {"MONITORING"} \cup Leaving => s \in {"MONITORING"} \cup Leaving,
           Drives(p)'
    PROVE  Track'
<1>1. ASSUME NEW q \in Threads \ {p} PROVE Drives(q)'
  <2>1. /\ at'[q] = at[q] /\ mine'[q] = mine[q] /\ chain'[q] = chain[q] /\ valid'[q] = valid[q]
        /\ Drives(q) /\ Knows(q) /\ (at[q] \in {"create", "advance", "exit"} => mine[q] \in Ids)
    BY DEF OthersWait, Track, IInv, Knows
  <2>2. exec \in [Ids -> States \cup {"absent"}]
    BY DEF IInv, TypeOK
  <2>3. at[q] \in {"create", "advance"} => exec'[mine[q]] = exec[mine[q]]
    BY <2>1, <2>2
  <2>4. at'[q] \in {"create", "advance"} =>
          /\ trade'[mine'[q]].status # "absent"
          /\ \A o \in Threads \ {q} : at'[o] \in {"create", "advance"} => mine'[o] # mine'[q]
    BY <2>1 DEF Drives, OthersWait
  <2>5. at'[q] = "advance" => OnTrack(q)'
    BY ZenonT(30), <2>1, <2>3 DEF Drives, OnTrack
  <2>6. at'[q] = "exit" /\ valid'[q] => exec'[mine'[q]] \in {"MONITORING"} \cup Leaving
    BY <2>1, <2>2 DEF Drives
  <2> QED BY <2>1, <2>3, <2>4, <2>5, <2>6 DEF Drives
<1>2. \A id \in Ids : trade'[id].status = "absent" => exec'[id] = "absent"
  BY DEF Track, IInv, TypeOK
<1> QED BY <1>1, <1>2 DEF Track

\* A state of the chain is where the next one starts from.
LEMMA NextOnTrack == ASSUME NEW n \in 2..6 PROVE Entry[7 - n] = Behind[8 - n]
<1>1. n = 2 \/ n = 3 \/ n = 4 \/ n = 5 \/ n = 6
  OBVIOUS
<1>2. 7 - 2 = 5 /\ 7 - 3 = 4 /\ 7 - 4 = 3 /\ 7 - 5 = 2 /\ 7 - 6 = 1
  OBVIOUS
<1>3. 8 - 2 = 6 /\ 8 - 3 = 5 /\ 8 - 4 = 4 /\ 8 - 5 = 3 /\ 8 - 6 = 2
  OBVIOUS
<1> QED BY <1>1, <1>2, <1>3 DEF Entry, Behind

\* The rest of an entry's chain is on track once its first state is written.
LEMMA Advances ==
    ASSUME NEW c \in Seq(States), Len(c) \in 1..6, \A i \in 1..Len(c) : c[i] = Entry[i + 6 - Len(c)]
    PROVE  /\ Head(c) = Entry[7 - Len(c)]
           /\ Tail(c) # << >> => /\ Len(Tail(c)) \in 1..6 /\ Head(c) = Behind[7 - Len(Tail(c))]
                                 /\ \A i \in 1..Len(Tail(c)) : Tail(c)[i] = Entry[i + 6 - Len(Tail(c))]
<1> DEFINE n == Len(c)
<1>1. Head(c) = c[1] /\ c # << >>
  OBVIOUS
<1>2. Head(c) = Entry[7 - n]
  BY <1>1
<1>3. ASSUME Tail(c) # << >>
      PROVE  /\ Len(Tail(c)) \in 1..6 /\ Head(c) = Behind[7 - Len(Tail(c))]
             /\ \A i \in 1..Len(Tail(c)) : Tail(c)[i] = Entry[i + 6 - Len(Tail(c))]
  <2>1. Len(Tail(c)) = n - 1 /\ n \in 2..6 /\ \A i \in 1..(n - 1) : Tail(c)[i] = c[i + 1]
    BY <1>1, <1>3
  <2> DEFINE m == Len(Tail(c))
  <2>2. m = n - 1 /\ n \in 2..6 /\ \A i \in 1..n : c[i] = Entry[i + 6 - n]
    BY <2>1
  <2>3. Head(c) = Entry[7 - n] /\ \A i \in 1..(n - 1) : Tail(c)[i] = c[i + 1]
    BY <1>2, <2>1
  <2> HIDE DEF n, m
  <2>4. 7 - m = 8 - n /\ m \in 1..6
    BY <2>2
  <2>5. Head(c) = Behind[7 - m]
    BY <2>2, <2>3, <2>4, NextOnTrack
  <2>6. ASSUME NEW i \in 1..m PROVE Tail(c)[i] = Entry[i + 6 - m]
    <3>1. i \in 1..(n - 1) /\ i + 1 \in 1..n /\ i + 6 - m = (i + 1) + 6 - n
      BY <2>2
    <3>2. Tail(c)[i] = c[i + 1] /\ c[i + 1] = Entry[(i + 1) + 6 - n]
      BY <2>2, <2>3, <3>1
    <3> QED BY <3>1, <3>2
  <2> QED BY <2>4, <2>5, <2>6 DEF m
<1> QED BY <1>2, <1>3

\* On track, the next state is always allowed and not there yet.
LEMMA AllowedOnTrack ==
    ASSUME NEW n \in 1..6
    PROVE  /\ Behind[7 - n] # Entry[7 - n] /\ Allowed(Behind[7 - n], Entry[7 - n])
           /\ Behind[7 - n] \in {"SIGNAL", "APPROVED", "READY", "ORDER_INTENT", "SUBMITTED", "FILLED"}
           /\ Behind[7 - n] \in {"SUBMITTED", "FILLED"} => Entry[7 - n] \in {"FILLED", "MONITORING"}
<1>1. n = 1 \/ n = 2 \/ n = 3 \/ n = 4 \/ n = 5 \/ n = 6
  OBVIOUS
<1>2. 7 - 1 = 6 /\ 7 - 2 = 5 /\ 7 - 3 = 4 /\ 7 - 4 = 3 /\ 7 - 5 = 2 /\ 7 - 6 = 1
  OBVIOUS
<1> QED BY <1>1, <1>2 DEF Behind, Entry, Allowed, ValidTransitions, Adjust

LEMMA ExitSequence == Exit \in Seq(Leaving)
BY DEF Exit, Leaving

\* The end of a thread's work, or its next exit, keeps to the track.
LEMMA NextExitOnTrack ==
    ASSUME TypeOK, NEW p \in Threads, NEW ids, NextExit(p, ids)
    PROVE  /\ \A q \in Threads \ {p} : valid'[q] = valid[q]
           /\ \/ at'[p] \notin {"create", "advance", "exit"}
              \/ at'[p] = "exit" /\ chain'[p] \in Seq(Leaving) /\ ~valid'[p]
BY ExitSequence DEF NextExit, Return, Goto, TypeOK

LEMMA ReconcileOnTrack ==
    ASSUME TypeOK, NEW p \in Threads, Reconcile(p)
    PROVE  at'[p] \notin {"create", "advance", "exit"}
BY DEF Reconcile, Goto, TypeOK

\* Nothing but the verdict on p's next transition changes.
LEMMA StillStep ==
    ASSUME Track, UNCHANGED <<trade, exec, at, mine, chain>>,
           \A q \in Threads : at[q] = "exit" /\ valid'[q] =>
                                 valid[q] \/ exec[mine[q]] \in {"MONITORING"} \cup Leaving
    PROVE  Track'
<1>1. ASSUME NEW q \in Threads PROVE Drives(q)'
  BY DEF Track, Drives, OnTrack
<1> QED BY <1>1 DEF Track

\* What a thread keeps doing of its chain, or what comes after it.
LEMMA ContinueOnTrack ==
    ASSUME TypeOK, NEW p \in Threads, NEW rest, Continue(p, rest), at[p] \in {"advance", "exit"},
           at[p] = "exit" => rest \in Seq(Leaving)
    PROVE  /\ \A q \in Threads \ {p} : valid'[q] = valid[q]
           /\ \/ at'[p] \notin {"create", "advance", "exit"}
              \/ at'[p] = "exit" /\ chain'[p] \in Seq(Leaving) /\ ~valid'[p]
              \/ at[p] = "advance" /\ at'[p] = "advance" /\ mine'[p] = mine[p] /\ rest # << >>
                   /\ chain'[p] = rest
<1>1. CASE /\ rest # << >>
           /\ chain' = [chain EXCEPT ![p] = rest]
           /\ valid' = [valid EXCEPT ![p] = FALSE]
           /\ UNCHANGED <<at, expiry, snap, before, mine, known, quote>>
  BY <1>1 DEF TypeOK
<1>2. CASE /\ rest = << >>
           /\ at[p] = "advance"
           /\ chain' = [chain EXCEPT ![p] = << >>]
           /\ valid' = [valid EXCEPT ![p] = FALSE]
           /\ Reconcile(p)
           /\ UNCHANGED before
  BY <1>2, ReconcileOnTrack DEF TypeOK
<1>3. CASE rest = << >> /\ at[p] = "exit" /\ NextExit(p, before[p])
  BY <1>3, NextExitOnTrack
<1> QED BY <1>1, <1>2, <1>3 DEF Continue

\* The first state of a chain on track, and what the transition finds.
LEMMA HeadOnTrack ==
    ASSUME NEW p \in Threads, chain[p] \in Seq(States), OnTrack(p)
    PROVE  LET s == exec[mine[p]]
               t == Head(chain[p])
           IN /\ t # s /\ Allowed(s, t)
              /\ s \in {"SIGNAL", "APPROVED", "READY", "ORDER_INTENT", "SUBMITTED", "FILLED"}
              /\ s \in {"SUBMITTED", "FILLED"} => t \in {"FILLED", "MONITORING"}
<1> DEFINE n == Len(chain[p])
<1>1. n \in 1..6 /\ exec[mine[p]] = Behind[7 - n]
  BY DEF OnTrack
<1>2. Head(chain[p]) = Entry[7 - n]
  <2>1. Head(chain[p]) = chain[p][1]
    BY <1>1
  <2>2. 1 \in 1..n /\ 1 + 6 - n = 7 - n
    BY <1>1
  <2> QED BY <2>1, <2>2 DEF OnTrack
<1> HIDE DEF n
<1>3. /\ Behind[7 - n] # Entry[7 - n] /\ Allowed(Behind[7 - n], Entry[7 - n])
      /\ Behind[7 - n] \in {"SIGNAL", "APPROVED", "READY", "ORDER_INTENT", "SUBMITTED", "FILLED"}
      /\ Behind[7 - n] \in {"SUBMITTED", "FILLED"} => Entry[7 - n] \in {"FILLED", "MONITORING"}
  BY <1>1, AllowedOnTrack
<1> QED BY <1>1, <1>2, <1>3

\* An exit is allowed only where the execution is being monitored or leaves already.
LEMMA AllowedExit ==
    ASSUME NEW s, NEW t \in Leaving, Allowed(s, t)
    PROVE  s \in {"MONITORING"} \cup Leaving
BY DEF Allowed, ValidTransitions, Leaving, Adjust

\* One step of a chain of p leaves every execution on its track.
LEMMA TransitionOnTrack ==
    ASSUME IInv, Track, NEW p \in Threads, CheckTransition(p) \/ WriteTransition(p), OthersWait(p)
    PROVE  Track'
<1> USE DEF IInv
<1>1. chain[p] # << >> /\ chain[p] \in Seq(States) /\ mine[p] \in Ids /\ Drives(p)
  BY DEF CheckTransition, WriteTransition, Knows, Track, TypeOK
<1>2. RowsAdvance /\ UNCHANGED trade
  BY DEF CheckTransition, WriteTransition, RowsAdvance, tables
<1>3. at[p] = "exit" => /\ Head(chain[p]) \in Leaving
                        /\ Tail(chain[p]) \in Seq(Leaving)
                        /\ AfterRejection(chain[p]) \in Seq(Leaving)
  BY <1>1, Rest DEF Drives
<1>4. CASE CheckTransition(p)
  <2>1. UNCHANGED exec /\ at[p] \in {"advance", "exit"}
    BY <1>4 DEF CheckTransition, tables
  <2>2. CASE /\ Allowed(exec[mine[p]], Head(chain[p]))
             /\ valid' = [valid EXCEPT ![p] = TRUE]
             /\ UNCHANGED <<at, expiry, snap, before, mine, known, quote, chain>>
    <3>1. at[p] = "exit" => exec[mine[p]] \in {"MONITORING"} \cup Leaving
      BY <1>3, <2>2, AllowedExit
    <3>2. \A q \in Threads \ {p} : valid'[q] = valid[q]
      BY <2>2 DEF TypeOK
    <3> QED BY <1>2, <2>1, <2>2, <3>1, <3>2, StillStep
  <2>3. ASSUME NEW rest \in {Tail(chain[p]), AfterRejection(chain[p])}, Continue(p, rest), at[p] = "exit"
        PROVE  Track'
    <3>1. rest \in Seq(Leaving)
      BY <1>3, <2>3
    <3>2. /\ \A q \in Threads \ {p} : valid'[q] = valid[q]
          /\ \/ at'[p] \notin {"create", "advance", "exit"}
             \/ at'[p] = "exit" /\ chain'[p] \in Seq(Leaving) /\ ~valid'[p]
      BY <2>1, <2>3, <3>1, ContinueOnTrack
    <3> QED BY <1>2, <2>1, <3>2, QuietStep
  <2>4. CASE at[p] = "advance"
    <3>1. Head(chain[p]) # exec[mine[p]] /\ Allowed(exec[mine[p]], Head(chain[p]))
      BY <1>1, <2>4, HeadOnTrack DEF Drives
    <3> QED BY <1>4, <2>2, <3>1 DEF CheckTransition
  <2> QED BY <1>4, <2>1, <2>2, <2>3, <2>4 DEF CheckTransition
<1>5. CASE WriteTransition(p)
  <2> DEFINE t == Head(chain[p])
             rest == Tail(chain[p])
  <2>1. /\ exec' = [exec EXCEPT ![mine[p]] = t] /\ Continue(p, rest)
        /\ at[p] \in {"advance", "exit"} /\ valid[p]
    BY <1>5 DEF WriteTransition
  <2>2. exec'[mine[p]] = t
    BY <1>1, <2>1 DEF TypeOK
  <2>3. /\ \A q \in Threads \ {p} : valid'[q] = valid[q]
        /\ \/ at'[p] \notin {"create", "advance", "exit"}
           \/ at'[p] = "exit" /\ chain'[p] \in Seq(Leaving) /\ ~valid'[p]
           \/ at[p] = "advance" /\ at'[p] = "advance" /\ mine'[p] = mine[p] /\ rest # << >>
                /\ chain'[p] = rest
    BY <1>3, <2>1, ContinueOnTrack
  <2>4. CASE at[p] = "exit"
    <3>1. exec[mine[p]] \in {"MONITORING"} \cup Leaving /\ t \in Leaving
      BY <1>1, <1>3, <2>1, <2>4 DEF Drives
    <3>2. trade[mine[p]].status # "absent"
      BY <2>4 DEF Knows
    <3>3. ASSUME NEW q \in Threads \ {p}, at[q] \in {"create", "advance"} PROVE mine[q] # mine[p]
      <4>1. Drives(q) /\ chain[q] \in Seq(States)
        BY DEF Track, TypeOK
      <4>2. exec[mine[q]] \in {"absent", "SIGNAL", "APPROVED", "READY", "ORDER_INTENT", "SUBMITTED", "FILLED"}
        BY <3>3, <4>1, HeadOnTrack DEF Drives
      <4> QED BY <3>1, <4>2 DEF Leaving
    <3>4. /\ at'[p] \notin {"create", "advance"} /\ Drives(p)'
      BY <2>3, <2>4 DEF Drives
    <3> QED BY <1>1, <1>2, <2>1, <2>3, <3>1, <3>2, <3>3, <3>4, MoveStep
  <2>5. CASE at[p] = "advance"
    <3>1. OnTrack(p) /\ trade[mine[p]].status # "absent"
          /\ \A q \in Threads \ {p} : at[q] \in {"create", "advance"} => mine[q] # mine[p]
      BY <1>1, <2>5 DEF Drives
    <3>2. exec[mine[p]] \notin {"MONITORING"} \cup Leaving
      BY <1>1, <3>1, HeadOnTrack DEF Leaving
    <3>3. ASSUME at'[p] = "advance", mine'[p] = mine[p], rest # << >>, chain'[p] = rest
          PROVE  OnTrack(p)'
      <4>1. /\ Len(rest) \in 1..6 /\ t = Behind[7 - Len(rest)]
            /\ \A i \in 1..Len(rest) : rest[i] = Entry[i + 6 - Len(rest)]
        BY <1>1, <3>1, <3>3, Advances DEF OnTrack
      <4> QED BY <2>2, <3>3, <4>1 DEF OnTrack
    <3>4. trade'[mine[p]].status # "absent"
          /\ \A q \in Threads \ {p} : at'[q] \in {"create", "advance"} => mine'[q] # mine[p]
      BY <1>2, <3>1 DEF OthersWait
    <3>5. Drives(p)' /\ (at'[p] \in {"create", "advance"} => mine'[p] = mine[p])
      BY <2>3, <3>3, <3>4 DEF Drives
    <3> QED BY <1>1, <1>2, <2>1, <2>3, <3>1, <3>2, <3>5, MoveStep
  <2> QED BY <2>1, <2>4, <2>5
<1> QED BY <1>4, <1>5

\* Every other step leaves the executions where they are, but for the one it creates.
LEMMA TrackStep == IInv /\ Track /\ [Next]_vars => Track'
<1> SUFFICES ASSUME IInv, Track, [Next]_vars PROVE Track'
  OBVIOUS
<1> USE DEF IInv
<1>1. CASE UNCHANGED <<trade, exec, at, mine, chain, valid>>
  BY <1>1, StillStep
<1>2. ASSUME NEW p \in Threads, OpenTrade(p) PROVE Track'
  <2>1. PICK id \in Ids : /\ trade[id].status = "absent"
                          /\ trade' = [trade EXCEPT ![id] = [NoTrade EXCEPT !.status = "open", !.expiry = expiry[p],
                                                                            !.bought = snap[p]]]
                          /\ mine' = [mine EXCEPT ![p] = id]
    BY <1>2 DEF OpenTrade
  <2>2. trade'[id].status = "open" /\ \A i \in Ids \ {id} : trade'[i] = trade[i]
    BY <2>1 DEF NoTrade, TypeOK
  <2>3. at'[p] = "create" /\ mine'[p] = id /\ UNCHANGED <<exec, chain, valid>>
    BY <1>2, <2>1 DEF OpenTrade, Goto, TypeOK
  <2>4. \A q \in Threads \ {p} : at'[q] = at[q] /\ mine'[q] = mine[q]
    BY <1>2, <2>1 DEF OpenTrade, Goto, TypeOK
  <2>5. \A q \in Threads : at[q] \in {"create", "advance"} => mine[q] \in Ids /\ mine[q] # id
    BY <2>1 DEF Knows, Track, Drives
  <2>6. Drives(p)'
    <3>1. exec'[mine'[p]] = "absent" /\ trade'[mine'[p]].status # "absent"
      BY <2>1, <2>2, <2>3 DEF Track
    <3> QED BY <2>3, <2>4, <2>5, <3>1 DEF Drives
  <2>7. ASSUME NEW q \in Threads \ {p} PROVE Drives(q)'
    <3>1. Drives(q)
      BY DEF Track
    <3>2. at'[q] \in {"create", "advance"} =>
            /\ trade'[mine'[q]].status # "absent"
            /\ \A o \in Threads \ {q} : at'[o] \in {"create", "advance"} => mine'[o] # mine'[q]
      BY <2>2, <2>3, <2>4, <2>5, <3>1 DEF Drives
    <3>3. OnTrack(q) => at[q] # "advance" \/ OnTrack(q)'
      BY <2>3, <2>4 DEF OnTrack
    <3> QED BY <2>3, <2>4, <3>1, <3>2, <3>3 DEF Drives
  <2>8. \A i \in Ids : trade'[i].status = "absent" => exec'[i] = "absent"
    BY <2>2, <2>3 DEF Track
  <2> QED BY <2>6, <2>7, <2>8 DEF Track
<1>3. ASSUME NEW p \in Threads, CreateExecution(p) PROVE Track'
  <2>1. /\ exec[mine[p]] = "absent" /\ trade[mine[p]].status # "absent" /\ mine[p] \in Ids
        /\ \A q \in Threads \ {p} : at[q] \in {"create", "advance"} => mine[q] # mine[p]
    BY <1>3 DEF CreateExecution, Track, Drives, Knows
  <2>2. /\ exec' = [exec EXCEPT ![mine[p]] = "SIGNAL"] /\ UNCHANGED <<trade, valid, mine>>
        /\ at'[p] = "advance" /\ chain'[p] = Entry
    BY <1>3, <2>1 DEF CreateExecution, Goto, TypeOK
  <2>3. OthersWait(p)
    BY <1>3 DEF CreateExecution, OthersWait, Goto, TypeOK
  <2>4. OnTrack(p)'
    <3>1. exec'[mine'[p]] = "SIGNAL"
      BY <2>1, <2>2 DEF TypeOK
    <3>2. Len(Entry) = 6 /\ Behind[7 - 6] = "SIGNAL" /\ \A i \in 1..6 : Entry[i] = Entry[i + 6 - 6]
      BY DEF Entry, Behind
    <3> QED BY <2>2, <3>1, <3>2 DEF OnTrack
  <2>5. Drives(p)'
    BY <2>1, <2>2, <2>3, <2>4 DEF Drives, OthersWait
  <2> QED BY <2>1, <2>2, <2>3, <2>5, MoveStep DEF Leaving
<1>4. ASSUME NEW p \in Threads, CheckTransition(p) \/ WriteTransition(p) PROVE Track'
  <2>1. chain[p] # << >> /\ chain[p] \in Seq(States) /\ at[p] \in {"advance", "exit"} /\ Knows(p)
        /\ (at[p] = "advance" => chain[p] \in Seq(Entering)) /\ UNCHANGED trade
    BY <1>4 DEF CheckTransition, WriteTransition, Knows, TypeOK, tables
  <2>2. ASSUME NEW rest \in {Tail(chain[p]), AfterRejection(chain[p])}, Continue(p, rest) PROVE OthersWait(p)
    <3>1. rest \in Seq(States) /\ (at[p] = "advance" => rest \in Seq(Entering))
      BY <2>1, <2>2, Rest
    <3> QED BY <2>1, <2>2, <3>1, ContinueKeeps
  <2>3. UNCHANGED <<at, expiry, snap, before, mine, known, quote, chain>> => OthersWait(p)
    BY DEF OthersWait
  <2>4. OthersWait(p)
    BY <1>4, <2>2, <2>3 DEF CheckTransition, WriteTransition
  <2> QED BY <1>4, <2>4, TransitionOnTrack
<1>5. ASSUME NEW p \in Threads, UNCHANGED <<exec, valid>>, RowsAdvance, OthersWait(p),
             at'[p] \notin {"create", "advance", "exit"}
      PROVE  Track'
  BY <1>5, QuietStep
<1>6. ASSUME NEW p \in Threads, Backfill(p) PROVE Track'
  <2>1. \A id \in Ids : trade'[id].status = trade[id].status
    BY <1>6 DEF Backfill, Backfilled, TypeOK, Trade
  <2>2. OthersWait(p) /\ at'[p] = "judge"
    BY <1>6 DEF Backfill, OthersWait, Goto, TypeOK
  <2> QED BY <1>5, <1>6, <2>1, <2>2 DEF Backfill, RowsAdvance
<1>7. ASSUME NEW p \in Threads, CloseTrade(p) PROVE Track'
  <2>1. mine[p] \in Ids
    BY <1>7 DEF CloseTrade, Knows
  <2>2. \A c, why : Closed(trade[mine[p]], c, why).status = "closed"
    BY <2>1 DEF Closed, TypeOK, Trade
  <2>3. RowsAdvance
    BY <1>7, <2>1, <2>2 DEF CloseTrade, RowsAdvance, TypeOK
  <2>4. OthersWait(p) /\ at'[p] = "diff"
    BY <1>7, ReconcileTypes DEF CloseTrade, OthersWait
  <2> QED BY <1>5, <1>7, <2>3, <2>4 DEF CloseTrade
<1>8. ASSUME NEW p \in Threads, EvaluateOpen(p) PROVE Track'
  <2>1. PICK id \in Ids :
           /\ mine' = [mine EXCEPT ![p] = id]
           /\ Goto(p, IF trade[id].expiry = Unknown /\ expiry[p] # Unknown THEN "backfill" ELSE "judge")
    BY <1>8 DEF EvaluateOpen
  <2>2. OthersWait(p) /\ at'[p] \in {"backfill", "judge"} /\ RowsAdvance
    BY <1>8, <2>1 DEF EvaluateOpen, OthersWait, RowsAdvance, Goto, TypeOK, tables
  <2> QED BY <1>5, <1>8, <2>2 DEF EvaluateOpen, tables
<1>9. ASSUME NEW p \in Threads, EvaluateFlat(p) \/ Hold(p) PROVE Track'
  <2>1. RowsAdvance /\ UNCHANGED <<exec, valid, before, chain>>
    BY <1>9 DEF EvaluateFlat, Hold, RowsAdvance, tables
  <2>2. CASE Reconcile(p)
    <3>1. OthersWait(p) /\ at'[p] = "diff"
      BY <2>1, <2>2, ReconcileTypes DEF OthersWait
    <3> QED BY <1>5, <2>1, <3>1
  <2>3. CASE Goto(p, "enter") /\ UNCHANGED mine
    <3>1. OthersWait(p) /\ at'[p] = "enter"
      BY <2>1, <2>3 DEF OthersWait, Goto, TypeOK
    <3> QED BY <1>5, <2>1, <3>1
  <2> QED BY <1>9, <2>2, <2>3 DEF EvaluateFlat, Hold
<1>10. ASSUME NEW p \in Threads, Resolve(p) \/ Snapshot(p) \/ ListBefore(p) \/ DecideExit(p) PROVE Track'
  <2>1. /\ RowsAdvance /\ UNCHANGED <<exec, valid, chain, mine>>
        /\ \A q \in Threads \ {p} : before'[q] = before[q]
    BY <1>10 DEF Resolve, Snapshot, ListBefore, DecideExit, RowsAdvance, tables, TypeOK
  <2>2. \E place \in {"resolved", "snapped", "listed", "close"} : Goto(p, place)
    BY <1>10 DEF Resolve, Snapshot, ListBefore, DecideExit
  <2>3. OthersWait(p) /\ at'[p] \in {"resolved", "snapped", "listed", "close"}
    BY <2>1, <2>2 DEF OthersWait, Goto, TypeOK
  <2> QED BY <1>5, <2>1, <2>3
<1>11. ASSUME NEW p \in Threads, FindClosed(p) PROVE Track'
  <2>1. before[p] \ OpenIds \in SUBSET Ids /\ \A id \in before[p] \ OpenIds : trade[id].status = "closed"
    BY DEF OpenIds, Knows, TypeOK, Trade
  <2>2. OthersWait(p)
    BY <1>11, <2>1, NextExitTypes DEF FindClosed, tables
  <2>3. RowsAdvance /\ UNCHANGED exec
    BY <1>11 DEF FindClosed, RowsAdvance, tables
  <2>4. /\ \A q \in Threads \ {p} : valid'[q] = valid[q]
        /\ \/ at'[p] \notin {"create", "advance", "exit"}
           \/ at'[p] = "exit" /\ chain'[p] \in Seq(Leaving) /\ ~valid'[p]
    BY <1>11, NextExitOnTrack DEF FindClosed
  <2> QED BY <2>2, <2>3, <2>4, QuietStep
<1>12. ASSUME NEW p \in Threads, ShadowFails(p) PROVE Track'
  <2>1. RowsAdvance /\ UNCHANGED exec /\ \A q \in Threads \ {p} : valid'[q] = valid[q]
    BY <1>12 DEF ShadowFails, RowsAdvance, tables, TypeOK
  <2>2. OthersWait(p) /\ at'[p] = "diff"
    BY <1>12, ReconcileTypes DEF ShadowFails, OthersWait, TypeOK
  <2> QED BY <2>1, <2>2, QuietStep
<1>13. ASSUME NEW p \in Threads, Abort(p) PROVE Track'
  <2>1. RowsAdvance /\ UNCHANGED exec /\ \A q \in Threads \ {p} : valid'[q] = valid[q]
    BY <1>13 DEF Abort, Return, RowsAdvance, tables, TypeOK
  <2>2. OthersWait(p) /\ at'[p] = "idle"
    BY <1>13, ReturnTypes DEF Abort
  <2> QED BY <2>1, <2>2, QuietStep
<1> QED
  BY <1>1, <1>2, <1>3, <1>4, <1>6, <1>7, <1>8, <1>9, <1>10, <1>11, <1>12, <1>13
  DEF Next, Step, vars, tables, LogReading, RollOver

\* What an execution on track may turn into.
LEMMA NoStepBack ==
    ASSUME IInv, Track, [Next]_vars, NEW id \in Ids,
           exec[id] \in {"SUBMITTED", "FILLED", "MONITORING", "EXIT_INTENT", "EXIT", "COMPLETED"}
    PROVE  exec'[id] \notin {"absent", "SIGNAL", "APPROVED", "READY", "ORDER_INTENT"}
<1> USE DEF IInv
<1>1. CASE UNCHANGED exec
  BY <1>1
<1>2. ASSUME NEW p \in Threads, CreateExecution(p)
      PROVE  exec'[id] \notin {"absent", "SIGNAL", "APPROVED", "READY", "ORDER_INTENT"}
  <2>1. exec[mine[p]] = "absent" /\ mine[p] \in Ids
    BY <1>2 DEF CreateExecution, Track, Drives, Knows
  <2>2. exec'[id] = exec[id]
    BY <1>2, <2>1 DEF CreateExecution, TypeOK
  <2> QED BY <2>2
<1>3. ASSUME NEW p \in Threads, WriteTransition(p)
      PROVE  exec'[id] \notin {"absent", "SIGNAL", "APPROVED", "READY", "ORDER_INTENT"}
  <2>1. /\ exec' = [exec EXCEPT ![mine[p]] = Head(chain[p])] /\ at[p] \in {"advance", "exit"}
        /\ chain[p] # << >> /\ chain[p] \in Seq(States) /\ mine[p] \in Ids /\ Drives(p)
    BY <1>3 DEF WriteTransition, Knows, Track, TypeOK
  <2>2. CASE mine[p] # id
    BY <2>1, <2>2 DEF TypeOK
  <2>3. CASE mine[p] = id /\ at[p] = "exit"
    <3>1. Head(chain[p]) \in Leaving
      BY <2>1, <2>3, Rest DEF Drives
    <3> QED BY <2>1, <2>3, <3>1 DEF Leaving, TypeOK
  <2>4. CASE mine[p] = id /\ at[p] = "advance"
    <3>1. Head(chain[p]) \in {"FILLED", "MONITORING"}
      BY <2>1, <2>4, HeadOnTrack DEF Drives
    <3> QED BY <2>1, <2>4, <3>1 DEF TypeOK
  <2> QED BY <2>1, <2>2, <2>3, <2>4
<1> QED
  BY <1>1, <1>2, <1>3
  DEF Next, Step, vars, tables, LogReading, RollOver, Resolve, Snapshot, ListBefore, EvaluateOpen,
      EvaluateFlat, Backfill, Hold, DecideExit, CloseTrade, OpenTrade, CheckTransition, FindClosed,
      ShadowFails, Abort

\* "There is no path back to ORDER_INTENT": although the UPDATE of a transition does not look at
\* the state it replaces, no interleaving of cycles, dashboard reads and aborts takes an execution
\* back behind its order.
THEOREM OrdersAreNotRepeated == Spec => NoPathBack
<1>1. Init => Track
  BY DEF Init, Track, Drives
<1>2. IInv /\ Track /\ [Next]_vars =>
        [\A id \in Ids : exec[id] \in {"SUBMITTED", "FILLED", "MONITORING", "EXIT_INTENT", "EXIT", "COMPLETED"}
           => exec'[id] \notin {"absent", "SIGNAL", "APPROVED", "READY", "ORDER_INTENT"}]_vars
  BY NoStepBack
<1> QED BY <1>1, <1>2, TrackStep, CycleInvariant, PTL DEF Spec, NoPathBack

-----------------------------------------------------------------------------
(* The gate in front of an entry (EntryGate): sizes and limits.              *)
CONSTANTS Symbols, Budget, Premium, Risks, Scales, LossLimit, SymbolLimit, MaxOpen, LotQty, MinTrades,
          MaxClosed, MaxDay, NoPosition
VARIABLES open, closed, day, granted

Gate == INSTANCE EntryGate WITH Entry <- Premium, NoTrade <- NoPosition

\* A position, whoever sizes it, and an entry that is granted.
Sized == [risk : Risks, qty : Nat]
Grant == [symbol : Symbols, position : Sized]

\* Assumed of the constants: a stop below the entry, and whole sixteenths for a scale.
GateConstants ==
    /\ IsFiniteSet(Symbols)
    /\ Budget \in Nat /\ Risks \subseteq Nat \ {0} /\ Scales \subseteq Nat /\ MaxOpen \in Nat
    /\ NoPosition \notin Sized /\ NoPosition \notin Grant

Affordable(position) == position.risk * position.qty <= Budget
TiHeld   == {s \in Symbols : open[<<"ti", s>>] # NoPosition}
Promised == {s \in Symbols : \/ open[<<"ti", s>>] # NoPosition
                             \/ granted # NoPosition /\ granted.symbol = s}

\* The entry that is granted is as affordable as the positions are.
GateInv ==
    /\ open \in [Gate!Engines \X Symbols -> Sized \cup {NoPosition}]
    /\ granted \in Grant \cup {NoPosition}
    /\ \A s \in Symbols : open[<<"ti", s>>] # NoPosition => Affordable(open[<<"ti", s>>])
    /\ granted # NoPosition => Affordable(granted.position)
    /\ Cardinality(Promised) <= MaxOpen

LEMMA SameCardinality == \A S : Gate!Cardinality(S) = Cardinality(S)
BY DEF Gate!Cardinality, Cardinality

\* The quantity that is rounded down from the budget costs no more than the budget.
LEMMA RoundedDown ==
    ASSUME NEW b \in Nat, NEW r \in Nat \ {0}
    PROVE  b \div r \in Nat /\ r * (b \div r) <= b /\ b \div r <= b
<1>1. b \div r \in Nat /\ r * (b \div r) <= b
  OBVIOUS
<1>2. \A q \in Nat : q <= r * q
  OBVIOUS
<1> QED BY <1>1, <1>2

LEMMA LowerOfTwo ==
    ASSUME NEW a \in Int, NEW b \in Int
    PROVE  Gate!Min({a, b}) \in {a, b} /\ Gate!Min({a, b}) <= b
<1>1. \E x \in {a, b} : \A y \in {a, b} : x <= y
  <2>1. CASE a <= b
    BY <2>1
  <2>2. CASE ~(a <= b)
    BY <2>2
  <2> QED BY <2>1, <2>2
<1>2. Gate!Min({a, b}) \in {a, b} /\ \A y \in {a, b} : Gate!Min({a, b}) <= y
  BY <1>1 DEF Gate!Min
<1> QED BY <1>2

\* Whatever the multipliers say, the size is at most the base, and so can lose at most the budget.
LEMMA SizedDown ==
    ASSUME GateConstants, NEW r \in Risks, NEW trades, NEW simulated,
           NEW q \in {Gate!BaseQuantity(r)} \cup {Gate!Adaptive(r, scale, Gate!Dampener(trades, simulated)) :
                                                     scale \in Scales},
           q > 0
    PROVE  q \in Nat /\ r * q <= Budget
<1>1. Budget \in Nat /\ r \in Nat \ {0}
  BY DEF GateConstants
<1> DEFINE base == Gate!BaseQuantity(r)
<1>2. base \in Nat /\ r * base <= Budget /\ base <= Budget
  BY <1>1, RoundedDown DEF Gate!BaseQuantity
<1> HIDE DEF base
<1>3. q \in Int /\ q <= base
  <2>1. CASE q = base
    BY <1>2, <2>1
  <2>2. ASSUME NEW scale \in Scales, q = Gate!Adaptive(r, scale, Gate!Dampener(trades, simulated))
        PROVE  q \in Int /\ q <= base
    <3>1. scale \in Nat
      BY DEF GateConstants
    <3>2. Gate!Dampener(trades, simulated) \in {2, 4}
      BY DEF Gate!Dampener
    <3> DEFINE dampener == Gate!Dampener(trades, simulated)
               scaled   == (base * scale * dampener) \div 64
    <3>3. base * scale \in Nat
      BY <1>2, <3>1
    <3>4. base * scale * dampener \in Nat
      BY <3>2, <3>3
    <3>5. scaled \in Int
      BY <3>4
    <3>6. q = Gate!Min({scaled, base})
      BY <2>2 DEF Gate!Adaptive, base
    <3> HIDE DEF scaled
    <3> QED BY <1>2, <3>5, <3>6, LowerOfTwo
  <2> QED BY <2>1, <2>2 DEF base
<1>4. q \in Nat
  BY <1>3
<1>5. r * q <= r * base
  BY <1>1, <1>2, <1>3, <1>4
<1>6. r * q \in Nat /\ r * base \in Nat
  BY <1>1, <1>2, <1>4
<1>7. r * q <= Budget
  BY <1>1, <1>2, <1>5, <1>6
<1> QED BY <1>4, <1>7

\* One symbol more than those the TI engine holds is at most one more than all the positions.
LEMMA OneMore ==
    ASSUME GateConstants, NEW s \in Symbols
    PROVE  /\ IsFiniteSet(TiHeld \cup {s}) /\ IsFiniteSet(Gate!Held) /\ Cardinality(Gate!Held) \in Nat
           /\ Cardinality(TiHeld \cup {s}) <= Cardinality(Gate!Held) + 1
<1>1. IsFiniteSet(Gate!Held)
  <2>1. IsFiniteSet(Gate!Engines)
    <3>1. IsFiniteSet({"ti"})
      BY FS_Singleton
    <3>2. IsFiniteSet({"ti"} \cup {"legacy"})
      BY <3>1, FS_AddElement
    <3>3. Gate!Engines = {"ti"} \cup {"legacy"}
      BY DEF Gate!Engines
    <3> QED BY <3>2, <3>3
  <2>2. IsFiniteSet(Gate!Engines \X Symbols)
    BY <2>1, FS_Product DEF GateConstants
  <2> QED BY <2>2, FS_Subset DEF Gate!Held
<1> DEFINE ti == {p \in Gate!Held : p[1] = "ti"}
           f  == [p \in ti |-> p[2]]
<1>2. IsFiniteSet(ti) /\ Cardinality(ti) <= Cardinality(Gate!Held)
  BY <1>1, FS_Subset
<1>3. f \in Surjection(ti, TiHeld)
  <2>1. \A p \in ti : p[2] \in TiHeld
    BY DEF Gate!Held, Gate!Engines, TiHeld
  <2>2. \A x \in TiHeld : <<"ti", x>> \in ti /\ f[<<"ti", x>>] = x
    BY DEF Gate!Held, Gate!Engines, TiHeld
  <2> QED BY <2>1, <2>2 DEF Surjection
<1>4. IsFiniteSet(TiHeld) /\ Cardinality(TiHeld) <= Cardinality(ti)
  BY <1>2, <1>3, FS_Surjection
<1>5. /\ IsFiniteSet(TiHeld \cup {s})
      /\ Cardinality(TiHeld \cup {s}) <= Cardinality(TiHeld) + 1
  <2>1. Cardinality(TiHeld) \in Nat
    BY <1>4, FS_CardinalityType
  <2>2. /\ IsFiniteSet(TiHeld \cup {s})
        /\ Cardinality(TiHeld \cup {s}) = IF s \in TiHeld THEN Cardinality(TiHeld) ELSE Cardinality(TiHeld) + 1
    BY <1>4, FS_AddElement
  <2> QED BY <2>1, <2>2
<1>6. {Cardinality(TiHeld), Cardinality(ti), Cardinality(Gate!Held), Cardinality(TiHeld \cup {s})} \subseteq Nat
  BY <1>1, <1>2, <1>4, <1>5, FS_CardinalityType
<1> QED BY <1>1, <1>2, <1>4, <1>5, <1>6

LEMMA GateBegins ==
    ASSUME GateConstants, Gate!Init
    PROVE  GateInv
<1>1. Promised = {}
  BY DEF Promised, Gate!Init, Gate!Engines
<1>2. Cardinality(Promised) = 0
  BY <1>1, FS_EmptySet
<1> QED BY <1>2 DEF GateInv, Gate!Init, Gate!Engines, GateConstants

\* A step that promises nothing more.
LEMMA NoMorePromised ==
    ASSUME GateConstants, GateInv, Promised' \subseteq Promised
    PROVE  Cardinality(Promised') <= MaxOpen
<1>1. IsFiniteSet(Promised)
  BY FS_Subset DEF GateConstants, Promised
<1>2. Cardinality(Promised') <= Cardinality(Promised) /\ IsFiniteSet(Promised')
  BY <1>1, FS_Subset
<1>3. Cardinality(Promised') \in Nat /\ Cardinality(Promised) \in Nat
  BY <1>1, <1>2, FS_CardinalityType
<1> QED BY <1>2, <1>3 DEF GateInv, GateConstants

LEMMA RecommendKeeps ==
    ASSUME GateConstants, GateInv, NEW s \in Symbols, Gate!Recommend(s)
    PROVE  GateInv'
<1>1. UNCHANGED open /\ granted = NoPosition /\ Gate!Allowed(s)
  BY DEF Gate!Recommend
<1>2. PICK risk \in Risks, q \in Nat :
         /\ risk * q <= Budget
         /\ granted' = [symbol |-> s, position |-> [risk |-> risk, qty |-> q]]
  <2>1. PICK risk \in Risks :
          \E qty \in {Gate!BaseQuantity(risk)} \union
                     {Gate!Adaptive(risk, scale, Gate!Dampener(Gate!History(s), simulated)) :
                        scale \in Scales,
                        simulated \in Gate!Simulated(Gate!Points(Gate!BeforeStreak(Gate!History(s))))} :
            /\ qty > 0
            /\ granted' = [symbol |-> s, position |-> [risk |-> risk, qty |-> qty]]
    BY DEF Gate!Recommend
  <2>2. PICK q \in {Gate!BaseQuantity(risk)} \union
                   {Gate!Adaptive(risk, scale, Gate!Dampener(Gate!History(s), simulated)) :
                        scale \in Scales,
                        simulated \in Gate!Simulated(Gate!Points(Gate!BeforeStreak(Gate!History(s))))} :
            /\ q > 0
            /\ granted' = [symbol |-> s, position |-> [risk |-> risk, qty |-> q]]
    BY <2>1
  <2>3. \E simulated : q \in {Gate!BaseQuantity(risk)} \cup
             {Gate!Adaptive(risk, scale, Gate!Dampener(Gate!History(s), simulated)) : scale \in Scales}
    OBVIOUS
  <2>4. q \in Nat /\ risk * q <= Budget
    BY <2>2, <2>3, SizedDown
  <2> QED BY <2>2, <2>4
<1> DEFINE position == [risk |-> risk, qty |-> q]
<1>3. position \in Sized /\ Affordable(position)
  BY <1>2 DEF Sized, Affordable
<1>4. granted' = [symbol |-> s, position |-> position] /\ granted' \in Grant
  BY <1>2, <1>3 DEF Grant
<1> HIDE DEF position
<1>5. granted'.symbol = s /\ granted'.position = position /\ granted' # NoPosition
  BY <1>4 DEF GateConstants
<1>6. Promised' = TiHeld \cup {s}
  BY <1>1, <1>5 DEF Promised, TiHeld
<1>7. Cardinality(Gate!Held) < MaxOpen
  BY <1>1, SameCardinality DEF Gate!Allowed, Gate!Room
<1>8. Cardinality(TiHeld \cup {s}) <= Cardinality(Gate!Held) + 1
      /\ Cardinality(Gate!Held) \in Nat /\ Cardinality(TiHeld \cup {s}) \in Nat
  BY OneMore, FS_CardinalityType
<1>9. Cardinality(Promised') <= MaxOpen
  BY <1>6, <1>7, <1>8 DEF GateConstants
<1> QED BY <1>1, <1>3, <1>4, <1>5, <1>9 DEF GateInv, Affordable

LEMMA PositionsMove ==
    ASSUME GateConstants, GateInv, NEW e \in Gate!Engines, NEW s \in Symbols,
           NEW position \in Sized \cup {NoPosition},
           open' = [open EXCEPT ![<<e, s>>] = position],
           e = "ti" /\ position # NoPosition => /\ granted # NoPosition /\ granted.symbol = s
                                                /\ Affordable(position),
           granted' \in {granted, NoPosition}
    PROVE  GateInv'
<1>1. open' \in [Gate!Engines \X Symbols -> Sized \cup {NoPosition}]
  BY DEF GateInv
<1>2. \A x \in Symbols : \/ open'[<<"ti", x>>] = open[<<"ti", x>>]
                         \/ e = "ti" /\ x = s /\ open'[<<"ti", x>>] = position
  BY DEF GateInv, Gate!Engines
<1>3. granted' \in Grant \cup {NoPosition} /\ (granted' # NoPosition => granted' = granted)
  BY DEF GateInv
<1>4. \A x \in Symbols : open'[<<"ti", x>>] # NoPosition => Affordable(open'[<<"ti", x>>])
  BY <1>2 DEF GateInv
<1>5. granted' # NoPosition => Affordable(granted'.position)
  BY <1>3 DEF GateInv
<1>6. Promised' \subseteq Promised
  BY <1>2, <1>3 DEF Promised
<1>7. Cardinality(Promised') <= MaxOpen
  BY <1>6, NoMorePromised
<1> QED BY <1>1, <1>3, <1>4, <1>5, <1>7 DEF GateInv, Affordable

LEMMA GateGoesOn ==
    ASSUME GateConstants, GateInv, [Gate!Next]_(Gate!gate)
    PROVE  GateInv'
<1>1. ASSUME NEW s \in Symbols, Gate!EnterLegacy(s) PROVE GateInv'
  <2>1. PICK risk \in Risks : open' = [open EXCEPT ![<<"legacy", s>>] = [risk |-> risk, qty |-> 1]]
    BY <1>1 DEF Gate!EnterLegacy
  <2>2. [risk |-> risk, qty |-> 1] \in Sized
    BY DEF Sized
  <2> QED BY <1>1, <2>1, <2>2, PositionsMove DEF Gate!EnterLegacy, Gate!Engines
<1>2. ASSUME NEW e \in Gate!Engines, NEW s \in Symbols, Gate!Close(e, s) PROVE GateInv'
  BY <1>2, PositionsMove DEF Gate!Close
<1>3. CASE Gate!Insert
  <2>1. /\ granted # NoPosition /\ granted \in Grant /\ granted' = NoPosition
        /\ open' = [open EXCEPT ![<<"ti", granted.symbol>>] = granted.position]
    BY <1>3 DEF Gate!Insert, GateInv
  <2>2. granted.symbol \in Symbols /\ granted.position \in Sized /\ Affordable(granted.position)
    BY <2>1 DEF Grant, GateInv
  <2> QED BY <2>1, <2>2, PositionsMove DEF Gate!Engines
<1>4. ASSUME UNCHANGED <<open, granted>> PROVE GateInv'
  BY <1>4 DEF GateInv, Promised, Affordable
<1> QED BY <1>1, <1>2, <1>3, <1>4, RecommendKeeps DEF Gate!Next, Gate!Midnight, Gate!gate

\* For every budget, scale and history of trades: a trade of the TI engine never loses more at its stop
\* than the budget of one trade, and the TI engine never holds more positions than the limit, although the
\* other engines enter without asking between the gate's reads and the insert.
THEOREM EntriesAreSized ==
    ASSUME GateConstants
    PROVE  Gate!Spec => [](Gate!StopLossWithinBudget /\ Gate!TiWithinLimit)
<1>1. Gate!Init => GateInv
  BY GateBegins
<1>2. GateInv /\ [Gate!Next]_(Gate!gate) => GateInv'
  BY GateGoesOn
<1>3. GateInv => Gate!StopLossWithinBudget /\ Gate!TiWithinLimit
  BY SameCardinality DEF GateInv, Gate!StopLossWithinBudget, Gate!TiWithinLimit, Affordable, Promised
<1> QED BY <1>1, <1>2, <1>3, PTL DEF Gate!Spec
=============================================================================
