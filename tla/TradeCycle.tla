----------------------------- MODULE TradeCycle -----------------------------
(***************************************************************************)
(* The paper trades of one symbol and their shadow executions:             *)
(* agents/trading_intelligence/api.py (run_scheduled_cycle,                *)
(* get_symbol_overview and the reconciliation of exits),                   *)
(* ai_trading_engine.py (evaluate, _check_open_trade_exit),                *)
(* paper_trading.py, ti_store.py (ti_paper_trades) and execution_state.py. *)
(*                                                                         *)
(* A cycler runs run_scheduled_cycle, a viewer is a dashboard read of      *)
(* get_symbol_overview; both evaluate the symbol and may close its trade.  *)
(* Every database statement is a step of its own, except a read whose      *)
(* answer no other thread can change before the write that follows it.     *)
(* TI_ENABLE_EXECUTION_STATE_SHADOW is on.                                 *)
(*                                                                         *)
(* A price is abstracted to the option contract it belongs to: which       *)
(* contract a level was checked against is what rollovers get wrong.       *)
(* Whether a price reaches a level, the signal and the risk gate are free  *)
(* choices.                                                                *)
(***************************************************************************)
EXTENDS Naturals, Sequences, FiniteSets

CONSTANTS Cyclers,       \* threads in run_scheduled_cycle
          Viewers,       \* threads in get_symbol_overview
          Unknown,       \* NULL, or an expiry that could not be resolved
          LegacyTrades,  \* open trades of an older version: 0 or 1
          MaxTrades,     \* bound on the rows of ti_paper_trades
          MaxContracts,  \* bound on expiries: contract n rolls over to n + 1
          MaxAborts      \* bound on exceptions and process deaths

ASSUME CycleAssumption ==
    /\ LegacyTrades \in 0..1
    /\ MaxTrades \in Nat
    /\ MaxContracts \in Nat \ {0}
    /\ MaxAborts \in Nat
    /\ Unknown \notin Nat
    /\ Cyclers \cap Viewers = {}

VARIABLES
    trade,     \* trade[id]: the ti_paper_trades row
    exec,      \* exec[id]: current_state of execution_state row paper_trade_<id>
    contract,  \* the contract of the symbol's nearest expiry
    history,   \* the contracts of the last two readings of the strike, newest first
    at,        \* at[p]: where a thread is
    expiry,    \* expiry[p]: the expiry resolved for this cycle or read
    snap,      \* snap[p]: the contract its snapshot is priced on
    before,    \* before[p]: open_trades_before, later closed_ids
    mine,      \* mine[p]: the trade or execution it works on, 0 for none
    known,     \* known[p]: expiry_date_at_entry as loaded
    quote,     \* quote[p]: the contract of the price it closes the trade at
    chain,     \* chain[p]: the states it still moves the execution through
    valid,     \* valid[p]: transition() found the next of them allowed
    aborts

tables == <<trade, exec>>
market == <<contract, history>>
vars == <<trade, exec, contract, history, at, expiry, snap, before, mine, known, quote, chain,
          valid, aborts>>

Threads   == Cyclers \cup Viewers
Ids       == 1..MaxTrades
Contracts == 1..MaxContracts
Places    == {"idle", "resolved", "snapped", "listed", "backfill", "judge", "close", "enter",
              "create", "advance", "diff", "exit"}

Entry  == <<"APPROVED", "READY", "ORDER_INTENT", "SUBMITTED", "FILLED", "MONITORING">>
Exit   == <<"EXIT_INTENT", "EXIT", "COMPLETED">>
Adjust == {"TARGET_UPDATE", "SL_UPDATE", "TRAILING"}
States == {"SIGNAL", "APPROVED", "READY", "ORDER_INTENT", "SUBMITTED", "FILLED", "MONITORING",
           "EXIT_INTENT", "EXIT", "COMPLETED"} \cup Adjust

Trade == [status : {"absent", "open", "closed"},
          expiry : Contracts \cup {Unknown},   \* expiry_date_at_entry
          bought : Contracts \cup {Unknown},   \* the contract entry_price belongs to
          sold   : Contracts \cup {Unknown},   \* the contract exit_price belongs to
          reason : {"none", "level", "expired"}]

NoTrade == [status |-> "absent", expiry |-> Unknown, bought |-> Unknown, sold |-> Unknown,
            reason |-> "none"]

\* A trade that an older version opened without expiry_date_at_entry.
Legacy == [NoTrade EXCEPT !.status = "open", !.bought = 1]

TypeOK ==
    /\ trade \in [Ids -> Trade]
    /\ exec \in [Ids -> States \cup {"absent"}]
    /\ contract \in Contracts
    /\ history \in Seq(Contracts) /\ Len(history) \in 1..2
    /\ at \in [Threads -> Places]
    /\ expiry \in [Threads -> Contracts \cup {Unknown}]
    /\ snap \in [Threads -> Contracts \cup {Unknown}]
    /\ before \in [Threads -> SUBSET Ids]
    /\ mine \in [Threads -> Ids \cup {0}]
    /\ known \in [Threads -> Contracts \cup {Unknown}]
    /\ quote \in [Threads -> Contracts \cup {Unknown}]
    /\ chain \in [Threads -> Seq(States)]
    /\ valid \in [Threads -> BOOLEAN]
    /\ aborts \in 0..MaxAborts

Init ==
    /\ trade = [id \in Ids |-> IF id <= LegacyTrades THEN Legacy ELSE NoTrade]
    /\ exec = [id \in Ids |-> "absent"]
    /\ contract = 1
    /\ history = <<1>>
    /\ at = [p \in Threads |-> "idle"]
    /\ expiry = [p \in Threads |-> Unknown]
    /\ snap = [p \in Threads |-> Unknown]
    /\ before = [p \in Threads |-> {}]
    /\ mine = [p \in Threads |-> 0]
    /\ known = [p \in Threads |-> Unknown]
    /\ quote = [p \in Threads |-> Unknown]
    /\ chain = [p \in Threads |-> << >>]
    /\ valid = [p \in Threads |-> FALSE]
    /\ aborts = 0

-----------------------------------------------------------------------------
OpenIds == {id \in Ids : trade[id].status = "open"}

\* open_trades[0]: list_open_trades is ordered by entry_time.
IsOldest(id) == id \in OpenIds /\ \A other \in OpenIds : id <= other

\* execution_state.VALID_TRANSITIONS.
ValidTransitions(s) ==
    CASE s = "SIGNAL"       -> {"APPROVED"}
      [] s = "APPROVED"     -> {"READY"}
      [] s = "READY"        -> {"ORDER_INTENT"}
      [] s = "ORDER_INTENT" -> {"SUBMITTED"}
      [] s = "SUBMITTED"    -> {"FILLED"}
      [] s = "FILLED"       -> {"MONITORING"}
      [] s = "MONITORING"   -> Adjust \cup {"EXIT_INTENT"}
      [] s \in Adjust       -> {"MONITORING"}
      [] s = "EXIT_INTENT"  -> {"EXIT"}
      [] s = "EXIT"         -> {"COMPLETED"}
      [] OTHER              -> {}

Goto(p, place) == at' = [at EXCEPT ![p] = place]

\* What was read for the evaluation is not looked at again.
Forget(p) ==
    /\ expiry' = [expiry EXCEPT ![p] = Unknown]
    /\ snap' = [snap EXCEPT ![p] = Unknown]
    /\ known' = [known EXCEPT ![p] = Unknown]
    /\ quote' = [quote EXCEPT ![p] = Unknown]

\* On to the reconciliation of exits.
Reconcile(p) ==
    /\ Goto(p, "diff")
    /\ Forget(p)
    /\ mine' = [mine EXCEPT ![p] = 0]

\* The call returns, raises out of the thread or dies: its locals are gone.
Return(p) ==
    /\ Goto(p, "idle")
    /\ Forget(p)
    /\ before' = [before EXCEPT ![p] = {}]
    /\ mine' = [mine EXCEPT ![p] = 0]
    /\ chain' = [chain EXCEPT ![p] = << >>]
    /\ valid' = [valid EXCEPT ![p] = FALSE]

-----------------------------------------------------------------------------
(* The market: the symbol loop of app.py logs readings of the strike, and   *)
(* one day the nearest expiry is the next one.                              *)

\* Mutant: recent_strike_history without its LIMIT.
LogUnlimited ==
    /\ Len(history) < 3
    /\ history' = <<contract>> \o history
    /\ UNCHANGED <<tables, contract, at, expiry, snap, before, mine, known, quote, chain, valid, aborts>>

\* app.py logs a cycle with a reading of the strike.
LogReading ==
    /\ history' = <<contract, history[1]>>
    /\ UNCHANGED <<tables, contract, at, expiry, snap, before, mine, known, quote, chain, valid, aborts>>

\* The nearest expiry is the next one.
RollOver ==
    /\ contract < MaxContracts
    /\ contract' = contract + 1
    /\ UNCHANGED <<tables, history, at, expiry, snap, before, mine, known, quote, chain, valid, aborts>>

-----------------------------------------------------------------------------
\* A cycle or a dashboard read begins: the caller resolves the expiry dates,
\* which may fail for the symbol.
Resolve(p) ==
    /\ at[p] = "idle"
    /\ \E e \in {contract, Unknown} : expiry' = [expiry EXCEPT ![p] = e]
    /\ Goto(p, "resolved")
    /\ UNCHANGED <<tables, market, snap, before, mine, known, quote, chain, valid, aborts>>

\* market_data.get_snapshot: the newest logged cycle.
Snapshot(p) ==
    /\ at[p] = "resolved"
    /\ snap' = [snap EXCEPT ![p] = history[1]]
    /\ Goto(p, "snapped")
    /\ UNCHANGED <<tables, market, expiry, before, mine, known, quote, chain, valid, aborts>>

\* open_trades_before, read ahead of the evaluation.
ListBefore(p) ==
    /\ at[p] = "snapped"
    /\ before' = [before EXCEPT ![p] = OpenIds]
    /\ Goto(p, "listed")
    /\ UNCHANGED <<tables, market, expiry, snap, mine, known, quote, chain, valid, aborts>>

\* evaluate() lists the open trades again and finds one.
EvaluateOpen(p) ==
    /\ at[p] = "listed"
    /\ \E id \in Ids :
          /\ IsOldest(id)
          /\ mine' = [mine EXCEPT ![p] = id]
          /\ known' = [known EXCEPT ![p] = trade[id].expiry]
          /\ Goto(p, IF trade[id].expiry = Unknown /\ expiry[p] # Unknown THEN "backfill" ELSE "judge")
    /\ UNCHANGED <<tables, market, expiry, snap, before, quote, chain, valid, aborts>>

\* Mutant: a BUY without the contract check of evaluate().
CanBuyAnyContract(p) == expiry[p] # Unknown

\* A BUY needs a resolved expiry and a contract of that very expiry.
CanBuy(p) == expiry[p] # Unknown /\ snap[p] = expiry[p]

\* Mutant: evaluate() does not look for open trades before a BUY.
EvaluateBlindly(p) ==
    /\ at[p] = "listed"
    /\ \/ Reconcile(p)
       \/ /\ p \in Cyclers
          /\ CanBuy(p)
          /\ Goto(p, "enter")
          /\ UNCHANGED <<expiry, snap, mine, known, quote>>
    /\ UNCHANGED <<tables, market, before, chain, valid, aborts>>

\* evaluate() finds no open trade.  Only a cycler enters on its BUY, and the
\* sizing or the risk gate may still say no.
EvaluateFlat(p) ==
    /\ at[p] = "listed"
    /\ OpenIds = {}
    /\ \/ Reconcile(p)
       \/ /\ p \in Cyclers
          /\ CanBuy(p)
          /\ Goto(p, "enter")
          /\ UNCHANGED <<expiry, snap, mine, known, quote>>
    /\ UNCHANGED <<tables, market, before, chain, valid, aborts>>

\* Mutant: the backfill without AND expiry_date_at_entry IS NULL.
Overwritten(t, e) == [t EXCEPT !.expiry = e]

\* set_expiry_date_at_entry: an UPDATE guarded by expiry_date_at_entry IS NULL.
Backfilled(t, e) == IF t.expiry = Unknown THEN [t EXCEPT !.expiry = e] ELSE t

\* evaluate() backfills the expiry it resolved, and believes in it whatever
\* the UPDATE did.
Backfill(p) ==
    /\ at[p] = "backfill"
    /\ trade' = [trade EXCEPT ![mine[p]] = Backfilled(trade[mine[p]], expiry[p])]
    /\ known' = [known EXCEPT ![p] = expiry[p]]
    /\ Goto(p, "judge")
    /\ UNCHANGED <<exec, market, expiry, snap, before, mine, quote, chain, valid, aborts>>

RolledOver(p) == known[p] # Unknown /\ expiry[p] # Unknown /\ known[p] # expiry[p]

\* _check_open_trade_exit, a rollover: the second newest reading of the
\* strike if there are two, else the only one.
PreRollover == IF Len(history) >= 2 THEN history[2] ELSE history[1]

\* Otherwise the snapshot's row, or the newest reading of a strike outside it.
Prices(p) == IF RolledOver(p) THEN {PreRollover} ELSE {snap[p], history[1]}

\* Neither level is reached, or the price is missing: HOLD.
Hold(p) ==
    /\ at[p] = "judge"
    /\ Reconcile(p)
    /\ UNCHANGED <<tables, market, before, chain, valid, aborts>>

\* A level is reached, or the contract has rolled over and has a price.
DecideExit(p) ==
    /\ at[p] = "judge"
    /\ \E c \in Prices(p) : quote' = [quote EXCEPT ![p] = c]
    /\ Goto(p, "close")
    /\ UNCHANGED <<tables, market, expiry, snap, before, mine, known, chain, valid, aborts>>

\* close_trade: an UPDATE by id, whatever the row says by now.
Closed(t, c, why) == [t EXCEPT !.status = "closed", !.sold = c, !.reason = why]

CloseTrade(p) ==
    /\ at[p] = "close"
    /\ trade' = [trade EXCEPT ![mine[p]] =
                    Closed(trade[mine[p]], quote[p], IF RolledOver(p) THEN "expired" ELSE "level")]
    /\ Reconcile(p)
    /\ UNCHANGED <<exec, market, before, chain, valid, aborts>>

\* open_trade: an INSERT, its id the next rowid.
OpenTrade(p) ==
    /\ at[p] = "enter"
    /\ \E id \in Ids :
          /\ trade[id].status = "absent"
          /\ \A other \in 1..(id - 1) : trade[other].status # "absent"
          /\ trade' = [trade EXCEPT ![id] = [NoTrade EXCEPT !.status = "open", !.expiry = expiry[p],
                                                            !.bought = snap[p]]]
          /\ mine' = [mine EXCEPT ![p] = id]
    /\ Goto(p, "create")
    /\ Forget(p)
    /\ UNCHANGED <<exec, market, before, chain, valid, aborts>>

\* create_execution in state SIGNAL, then the transitions up to MONITORING.
CreateExecution(p) ==
    /\ at[p] = "create"
    /\ exec' = IF exec[mine[p]] = "absent" THEN [exec EXCEPT ![mine[p]] = "SIGNAL"] ELSE exec
    /\ chain' = [chain EXCEPT ![p] = Entry]
    /\ Goto(p, "advance")
    /\ UNCHANGED <<trade, market, expiry, snap, before, mine, known, quote, valid, aborts>>

-----------------------------------------------------------------------------
(* transition(): a SELECT that decides and an UPDATE by id.                 *)

\* Mutant: transition() without the graph.
AllowedAny(from, to) == TRUE

\* The lookup in VALID_TRANSITIONS.
Allowed(from, to) == to \in ValidTransitions(from)

\* The rejection of a transition ends its chain; APPROVED and EXIT_INTENT are
\* chains of their own.
AfterRejection(states) == IF Head(states) \in {"APPROVED", "EXIT_INTENT"} THEN Tail(states) ELSE << >>

\* The next of the closed trades, if any: its execution is to be completed.
NextExit(p, ids) ==
    IF ids = {} THEN Return(p)
    ELSE \E id \in ids :
            /\ mine' = [mine EXCEPT ![p] = id]
            /\ before' = [before EXCEPT ![p] = ids \ {id}]
            /\ chain' = [chain EXCEPT ![p] = Exit]
            /\ valid' = [valid EXCEPT ![p] = FALSE]
            /\ Goto(p, "exit")
            /\ UNCHANGED <<expiry, snap, known, quote>>

\* The thread has rest left to do of its chain; at its end come the
\* reconciliation or the next closed trade.
Continue(p, rest) ==
    \/ /\ rest # << >>
       /\ chain' = [chain EXCEPT ![p] = rest]
       /\ valid' = [valid EXCEPT ![p] = FALSE]
       /\ UNCHANGED <<at, expiry, snap, before, mine, known, quote>>
    \/ /\ rest = << >>
       /\ at[p] = "advance"
       /\ chain' = [chain EXCEPT ![p] = << >>]
       /\ valid' = [valid EXCEPT ![p] = FALSE]
       /\ Reconcile(p)
       /\ UNCHANGED before
    \/ /\ rest = << >>
       /\ at[p] = "exit"
       /\ NextExit(p, before[p])

\* transition(), up to the UPDATE: allowed, already there, or rejected.
CheckTransition(p) ==
    /\ at[p] \in {"advance", "exit"}
    /\ ~valid[p]
    /\ LET s == exec[mine[p]]
           t == Head(chain[p])
       IN \/ /\ t # s
             /\ Allowed(s, t)
             /\ valid' = [valid EXCEPT ![p] = TRUE]
             /\ UNCHANGED <<at, expiry, snap, before, mine, known, quote, chain>>
          \/ t = s /\ Continue(p, Tail(chain[p]))
          \/ t # s /\ ~Allowed(s, t) /\ Continue(p, AfterRejection(chain[p]))
    /\ UNCHANGED <<tables, market, aborts>>

\* transition(), the UPDATE: it does not look at the state it replaces.
WriteTransition(p) ==
    /\ at[p] \in {"advance", "exit"}
    /\ valid[p]
    /\ exec' = [exec EXCEPT ![mine[p]] = Head(chain[p])]
    /\ Continue(p, Tail(chain[p]))
    /\ UNCHANGED <<trade, market, aborts>>

\* Mutant: the reconciliation takes every trade of the list for closed.
FindAll(p) ==
    /\ at[p] = "diff"
    /\ NextExit(p, before[p])
    /\ UNCHANGED <<tables, market, aborts>>

\* _reconcile_execution_state_exits: which of the trades that were open
\* before the evaluation are closed now.
FindClosed(p) ==
    /\ at[p] = "diff"
    /\ NextExit(p, before[p] \ OpenIds)
    /\ UNCHANGED <<tables, market, aborts>>

\* An exception in the shadow wiring of the entry is logged, the cycle goes on.
ShadowFails(p) ==
    /\ at[p] \in {"create", "advance"}
    /\ aborts < MaxAborts
    /\ aborts' = aborts + 1
    /\ chain' = [chain EXCEPT ![p] = << >>]
    /\ valid' = [valid EXCEPT ![p] = FALSE]
    /\ Reconcile(p)
    /\ UNCHANGED <<tables, market, before>>

\* Any other exception, or the death of the process: the rest is not done.
Abort(p) ==
    /\ at[p] # "idle"
    /\ aborts < MaxAborts
    /\ aborts' = aborts + 1
    /\ Return(p)
    /\ UNCHANGED <<tables, market>>

Step(p) ==
    \/ Snapshot(p) \/ ListBefore(p) \/ EvaluateOpen(p) \/ EvaluateFlat(p)
    \/ Backfill(p) \/ Hold(p) \/ DecideExit(p) \/ CloseTrade(p)
    \/ OpenTrade(p) \/ CreateExecution(p)
    \/ CheckTransition(p) \/ WriteTransition(p) \/ FindClosed(p)

Next ==
    \/ LogReading
    \/ RollOver
    \/ \E p \in Threads : Resolve(p) \/ Step(p) \/ ShadowFails(p) \/ Abort(p)

Spec == Init /\ [][Next]_vars

-----------------------------------------------------------------------------
(* Properties                                                              *)

\* A symbol has at most one open trade, as long as one cycler works on it:
\* evaluate() only ever manages open_trades[0], a second one would run
\* without its stop-loss.
OneOpenTrade == \A i, j \in OpenIds : i = j

\* No execution is on its way out while its paper trade is open, however
\* many dashboards race the cycle with answers they read earlier.
ExitFollowsClose ==
    \A id \in Ids : exec[id] \in {"EXIT_INTENT", "EXIT", "COMPLETED"} => trade[id].status = "closed"

\* A trade opened by this version was priced on the contract whose expiry it
\* carries, although expiry and prices were read at different moments.
EntriesOnOwnContract ==
    \A id \in Ids : id > LegacyTrades => trade[id].bought = trade[id].expiry

\* "Never overwrites an already-set value": the expiry of a trade, once
\* known, survives racing backfills on both sides of a rollover.
ExpirySticks ==
    [][\A id \in Ids : trade[id].expiry # Unknown => trade'[id].expiry = trade[id].expiry]_vars

\* "There is no path back to ORDER_INTENT": an execution never goes back to a
\* state before the order once it is past it.
NoPathBack ==
    [][\A id \in Ids : exec[id] \in {"SUBMITTED", "FILLED", "MONITORING", "EXIT_INTENT", "EXIT", "COMPLETED"}
          => exec'[id] \notin {"absent", "SIGNAL", "APPROVED", "READY", "ORDER_INTENT"}]_vars
=============================================================================
