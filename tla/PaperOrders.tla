---------------------------- MODULE PaperOrders ----------------------------
(***************************************************************************)
(* The subscribers' paper orders and wallets (app.py, billing.py): one     *)
(* symbol's loop fills, trails and closes orders and opens the AUTO ones,  *)
(* while requests enter, edit, exit, cancel and delete orders and an       *)
(* administrator adjusts wallets.                                          *)
(*                                                                         *)
(* Every transaction on the database is a step; a wallet credit is two     *)
(* (create_wallet_transaction reads the balance outside the transaction    *)
(* that writes it), a debit is one (BEGIN IMMEDIATE).  There is one        *)
(* strike and direction; the premium is a small number and every quantity  *)
(* is one.  A contract is known by its expiry.                             *)
(***************************************************************************)
EXTENDS Integers, FiniteSets, FiniteSetsExt

CONSTANTS Users, Requests,
          Orders,       \* ids of paper_orders, in the order in which they are given
          Engines,      \* the engines that fan out, in the order in which the loop runs them
          NoUser, MaxPremium,
          Start,        \* what a wallet holds at first
          Terms,        \* what is asked of an order: its type, limit, target, stop and trailing
          TopUps,       \* amounts of an administrator's adjustments
          Breakeven, Trail, Giveback, \* BREAKEVEN_TRIGGER_PCT, TRAIL_TRIGGER_PCT, TRAIL_GIVEBACK_PCT
          MaxContracts, MaxRare \* bounds

ASSUME OrdersAssumption ==
    /\ Orders \subseteq Nat \ {0} /\ IsFiniteSet(Orders) /\ NoUser \notin Users
    /\ Engines \subseteq {"SWING", "SCALP"}
    /\ {MaxPremium, Start, Breakeven, Trail, Giveback, MaxContracts, MaxRare} \subseteq Nat
    /\ Terms \subseteq [type : {"MARKET", "LIMIT", "STOP", "BRACKET", "COVER"}, limit : Nat, target : Nat,
                         sl : Nat, trailing : BOOLEAN]
    /\ TopUps \subseteq Int /\ Giveback <= 100

VARIABLES
    orders,      \* paper_orders
    wallet,      \* users.wallet_balance
    cooling,     \* auto_fanout_cooldown: <<user, engine>> still in their cooldown
    loop,        \* what the symbol's loop does
    request,     \* request[r]: what a request's thread does
    paid, got,   \* history: what wallets paid and got for an order
    broken,      \* history: orders whose debit or credit was cut short by an error
    spent        \* the faults, deletions and adjustments so far

vars == <<orders, wallet, cooling, loop, request, paid, got, broken, spent>>

Premiums == 1..MaxPremium
Sources  == {"MANUAL"} \cup Engines
Waiting  == {"LIMIT", "STOP"}
Intraday == {"BRACKET", "COVER"}
Types    == {"MARKET"} \cup Waiting \cup Intraday
Statuses == {"none", "PENDING", "OPEN", "CLOSED", "CANCELLED", "deleted"}
Reasons  == {"none", "TARGET HIT", "STOP LOSS", "TRAILING SL", "SQUARE-OFF", "TIME EXIT", "EXPIRED", "MANUAL EXIT"}

\* 0 stands for NULL in limit (limit_price or stop_price), entry, expiry, target, sl and peak.
Order == [status : Statuses, user : Users \cup {NoUser}, source : Sources, type : Types,
          limit : Nat, entry : 0..MaxPremium, expiry : 0..MaxContracts,
          target : Nat, sl : Nat, peak : 0..MaxPremium,
          trailing : BOOLEAN, trailed : BOOLEAN, exit : 0..MaxPremium, reason : Reasons]
NoOrder == [status |-> "none", user |-> NoUser, source |-> "MANUAL", type |-> "MARKET", limit |-> 0,
            entry |-> 0, expiry |-> 0, target |-> 0, sl |-> 0, peak |-> 0, trailing |-> FALSE,
            trailed |-> FALSE, exit |-> 0, reason |-> "none"]

Rest == [at |-> "out", todo |-> {}, seen |-> [o \in Orders |-> NoOrder], price |-> 0, expiry |-> 0,
         on |-> 0, balance |-> 0]
Idle == [at |-> "idle", on |-> 0, seen |-> NoOrder, amount |-> 0, user |-> NoUser, balance |-> 0]

\* The loop works through orders, and in the fan-out through users; a job is on an order, or on
\* none (0).
Pass == [at : {"out", "fill", "filling", "manage", "credit", "crediting", "opening"} \cup Engines,
         todo : SUBSET (Orders \cup Users), seen : [Orders -> Order], price : 0..MaxPremium,
         expiry : 0..MaxContracts, on : Orders \cup {0}, balance : Nat]
Job  == [at : {"idle", "insert", "exit", "edit", "credit", "crediting"}, on : Orders \cup {0},
         seen : Order, amount : Int, user : Users \cup {NoUser}, balance : Nat]

TypeOK ==
    /\ orders \in [Orders -> Order]
    /\ wallet \in [Users -> Nat]
    /\ cooling \subseteq Users \X Engines
    /\ loop \in Pass
    /\ request \in [Requests -> Job]
    /\ paid \in [Orders -> Nat] /\ got \in [Orders -> Int]
    /\ broken \subseteq Orders
    /\ spent \in 0..MaxRare

Init ==
    /\ orders = [o \in Orders |-> NoOrder]
    /\ wallet = [u \in Users |-> Start]
    /\ cooling = {}
    /\ loop = Rest
    /\ request = [r \in Requests |-> Idle]
    /\ paid = [o \in Orders |-> 0] /\ got = [o \in Orders |-> 0]
    /\ broken = {}
    /\ spent = 0

-----------------------------------------------------------------------------
(* The wallet and the order form.                                          *)

\* _validate_target_sl and _validate_order_type_requirements.
WellPlaced(price, terms) == (terms.target = 0 \/ terms.target > price) /\ terms.sl < price
RiskManaged(terms) ==
    /\ terms.type = "BRACKET" => terms.target # 0
    /\ terms.type \in Intraday => terms.sl # 0
    /\ terms.type \in Waiting <=> terms.limit # 0
    /\ terms.trailing => terms.target # 0

Ordered(u, terms) == [NoOrder EXCEPT !.user = u, !.type = terms.type, !.limit = terms.limit,
                                     !.target = terms.target, !.sl = terms.sl,
                                     !.trailing = terms.trailing]

\* An id nobody has used: a row takes it when its wallet is debited, before the INSERT.
Free(o) == orders[o] = NoOrder /\ paid[o] = 0
NextId  == Min({o \in Orders : Free(o)})

\* debit_if_sufficient, for order o.
AffordsAny(u, amount) == wallet[u] > 0 \* mutant: any balance will do
Affords(u, amount) == wallet[u] >= amount
Debit(u, o, amount) ==
    /\ wallet' = [wallet EXCEPT ![u] = @ - amount]
    /\ paid' = [paid EXCEPT ![o] = @ + amount]

\* The write of create_wallet_transaction, clamped at zero.
Credited(balance, amount) == Max({0, balance + amount})

-----------------------------------------------------------------------------
(* The loop fills what is pending.                                         *)

Listed(status) == {o \in Orders : orders[o].status = status}
Rows(status)   == [o \in Orders |-> IF orders[o].status = status THEN orders[o] ELSE NoOrder]
First == Min(loop.todo)
Passed(at) == [loop EXCEPT !.at = at, !.todo = @ \ {First}, !.seen[First] = NoOrder]
Done == Passed(IF loop.at \in {"fill", "filling"} THEN "fill" ELSE "manage")

\* The premium of this cycle, and the expiry: the broker's nearest one, else the exchange's,
\* else none.
BeginPass ==
    /\ loop.at = "out"
    /\ \E price \in 0..MaxPremium, expiry \in 0..MaxContracts :
        loop' = [Rest EXCEPT !.at = "fill", !.todo = Listed("PENDING"), !.seen = Rows("PENDING"),
                             !.price = price, !.expiry = expiry]
    /\ UNCHANGED <<orders, wallet, cooling, request, paid, got, broken, spent>>

\* A LIMIT fills at or below its price, a STOP at or above.
Triggered(t) ==
    /\ loop.price # 0
    /\ IF t.type = "STOP" THEN loop.price >= t.limit ELSE loop.price <= t.limit

FillDebit ==
    /\ loop.at = "fill" /\ loop.todo # {}
    /\ LET t == loop.seen[First] IN
       IF Triggered(t) /\ Affords(t.user, loop.price)
       THEN Debit(t.user, First, loop.price) /\ loop' = [loop EXCEPT !.at = "filling"]
       ELSE loop' = Done /\ UNCHANGED <<wallet, paid>>
    /\ UNCHANGED <<orders, cooling, request, got, broken, spent>>

\* Mutant: filled at the limit, while the debit was at the market.
FilledAtLimit(o) == [o EXCEPT !.status = "OPEN", !.entry = o.limit, !.expiry = loop.expiry, !.limit = 0]

\* The limit is of no use after the fill.
Filled(o) == [o EXCEPT !.status = "OPEN", !.entry = loop.price, !.expiry = loop.expiry, !.limit = 0]

\* Mutant: the UPDATE does not ask for status PENDING.
FillUpdateUnguarded ==
    /\ loop.at = "filling"
    /\ orders' = [orders EXCEPT ![First] = Filled(@)]
    /\ loop' = Done
    /\ UNCHANGED <<wallet, cooling, request, paid, got, broken, spent>>

FillUpdate ==
    /\ loop.at = "filling"
    /\ orders' = IF orders[First].status = "PENDING"
                 THEN [orders EXCEPT ![First] = Filled(@)]
                 ELSE orders
    /\ loop' = Done
    /\ UNCHANGED <<wallet, cooling, request, paid, got, broken, spent>>

SelectOpen ==
    /\ loop.at = "fill" /\ loop.todo = {}
    /\ loop' = [loop EXCEPT !.at = "manage", !.todo = Listed("OPEN"), !.seen = Rows("OPEN")]
    /\ UNCHANGED <<orders, wallet, cooling, request, paid, got, broken, spent>>

-----------------------------------------------------------------------------
(* The loop manages what is open.                                          *)

LacksExpiry == loop.at = "manage" /\ loop.todo # {} /\ loop.seen[First].expiry = 0 /\ loop.expiry # 0

\* An order without an expiry takes the present one, whatever contract it was opened on.
Backfill ==
    /\ LacksExpiry
    /\ orders' = [orders EXCEPT ![First].expiry = IF @ = 0 /\ orders[First].status # "deleted"
                                                  THEN loop.expiry ELSE @]
    /\ loop' = [loop EXCEPT !.seen[First].expiry = loop.expiry]
    /\ UNCHANGED <<wallet, cooling, request, paid, got, broken, spent>>

Managing == loop.at = "manage" /\ loop.todo # {} /\ ~LacksExpiry
RolledOver(t) == t.expiry # 0 /\ loop.expiry # 0 /\ t.expiry # loop.expiry

\* Of a settled row the model keeps what happened to it: its terms are of no use any more.
Closed(o, price, reason) ==
    [NoOrder EXCEPT !.status = "CLOSED", !.user = o.user, !.source = o.source, !.entry = o.entry,
                    !.exit = price, !.reason = reason]

\* Closed at a stored premium, if there is one; the wallet is left alone.
Rollover ==
    /\ Managing /\ RolledOver(loop.seen[First])
    /\ \E old \in 0..MaxPremium :
        orders' = IF old # 0 /\ orders[First].status = "OPEN"
                  THEN [orders EXCEPT ![First] = Closed(@, old, "EXPIRED")] ELSE orders
    /\ loop' = Done
    /\ UNCHANGED <<wallet, cooling, request, paid, got, broken, spent>>

\* The trailing stop: breakeven part of the way to the target, then the peak less a giveback.
Trailed(t) ==
    LET from == IF t.peak = 0 THEN t.entry ELSE t.peak
        peak == Max({from, loop.price})
        way == t.target - t.entry
        far(percent) == (peak - t.entry) * 100 >= percent * way
        lifted == t.entry + ((peak - t.entry) * (100 - Giveback)) \div 100
        sl == IF far(Trail) THEN Max({t.sl, lifted})
              ELSE IF far(Breakeven) THEN Max({t.sl, t.entry}) ELSE t.sl
    IN IF ~t.trailing \/ t.target = 0 THEN t
       ELSE IF way <= 0 THEN [t EXCEPT !.peak = IF peak = t.entry THEN @ ELSE peak]
       ELSE [t EXCEPT !.peak = IF peak = t.entry THEN @ ELSE peak, !.sl = sl,
                      !.trailed = @ \/ sl # t.sl]

\* Target first, then the stop, the square-off, and the swing engine's time exit.
Reason(t, near, late) ==
    IF t.target # 0 /\ loop.price >= t.target THEN "TARGET HIT"
    ELSE IF t.sl # 0 /\ loop.price <= t.sl THEN IF t.trailed THEN "TRAILING SL" ELSE "STOP LOSS"
    ELSE IF t.type \in Intraday /\ near THEN "SQUARE-OFF"
    ELSE IF t.source = "SWING" /\ late THEN "TIME EXIT" ELSE "none"

\* The stop as it trails is written whether the order stays or goes.
Kept(o, t) == [o EXCEPT !.sl = t.sl, !.peak = t.peak, !.trailed = t.trailed]

\* The decision is on the row as it was listed; each write asks that it is still open.
Manage ==
    /\ Managing /\ ~RolledOver(loop.seen[First])
    /\ LET t == Trailed(loop.seen[First])
           open == orders[First].status = "OPEN" IN
       \E near, late \in BOOLEAN :
        IF loop.price = 0 \/ ~open THEN orders' = orders /\ loop' = Done
        ELSE IF Reason(t, near, late) = "none"
        THEN orders' = [orders EXCEPT ![First] = Kept(@, t)] /\ loop' = Done
        ELSE /\ orders' = [orders EXCEPT ![First] = Closed(Kept(@, t), loop.price, Reason(t, near, late))]
             /\ loop' = [loop EXCEPT !.at = "credit"]
    /\ UNCHANGED <<wallet, cooling, request, paid, got, broken, spent>>

LoopCreditRead ==
    /\ loop.at = "credit"
    /\ loop' = [loop EXCEPT !.at = "crediting", !.balance = wallet[loop.seen[First].user]]
    /\ UNCHANGED <<orders, wallet, cooling, request, paid, got, broken, spent>>

\* The full proceeds, and a cooldown for the engine that was stopped out.
LoopCreditWrite ==
    LET t == loop.seen[First] IN
    /\ loop.at = "crediting"
    /\ wallet' = [wallet EXCEPT ![t.user] = Credited(loop.balance, loop.price)]
    /\ got' = [got EXCEPT ![First] = @ + loop.price]
    /\ cooling' = IF t.source # "MANUAL" /\ orders[First].reason \in {"STOP LOSS", "TRAILING SL"}
                  THEN cooling \cup {<<t.user, t.source>>} ELSE cooling
    /\ loop' = Done
    /\ UNCHANGED <<orders, request, paid, broken, spent>>

-----------------------------------------------------------------------------
(* The loop fans a trigger out to the enrolled users.                      *)

After(at) == IF at = "manage" /\ "SWING" \in Engines THEN "SWING"
             ELSE IF at \in {"manage", "SWING"} /\ "SCALP" \in Engines THEN "SCALP" ELSE "out"

\* The users whose settings opt in to an engine, which they change at any time.
OptedIn(e) == SUBSET Users

\* The next engine, with a trigger or without; the end of the pass.
NextEngine ==
    /\ loop.at \in {"manage"} \cup Engines /\ loop.todo = {}
    /\ LET e == After(loop.at) IN
       IF e = "out"
       THEN loop' = Rest
       ELSE \E users \in OptedIn(e) :
                loop' = [loop EXCEPT !.at = e, !.expiry = 0, !.todo = IF loop.price # 0 THEN users ELSE {}]
    /\ UNCHANGED <<orders, wallet, cooling, request, paid, got, broken, spent>>

\* Mutant: nobody looks for a live order of the engine.
HasLiveNever(u, e) == FALSE

HasLive(u, e) ==
    \E o \in Orders : orders[o].user = u /\ orders[o].source = e /\ orders[o].status \in {"OPEN", "PENDING"}

FanoutDebit ==
    LET e == loop.at IN
    /\ e \in Engines
    /\ \E u \in loop.todo :
        IF <<u, e>> \in cooling \/ HasLive(u, e) \/ ~Affords(u, loop.price)
        THEN loop' = [loop EXCEPT !.todo = @ \ {u}] /\ UNCHANGED <<wallet, paid>>
        ELSE /\ \E o \in Orders : Free(o)
             /\ Debit(u, NextId, loop.price)
             /\ loop' = [loop EXCEPT !.at = "opening", !.on = NextId,
                                     !.seen = [@ EXCEPT ![NextId] = [NoOrder EXCEPT !.user = u, !.source = e]]]
    /\ UNCHANGED <<orders, cooling, request, got, broken, spent>>

\* The row has no expiry; SWING's rows trail.
FanoutInsert ==
    LET t == loop.seen[loop.on] IN
    /\ loop.at = "opening"
    /\ \E terms \in Terms :
        /\ WellPlaced(loop.price, terms)
        /\ orders' = [orders EXCEPT ![loop.on] =
                        [t EXCEPT !.status = "OPEN", !.entry = loop.price, !.target = terms.target,
                                  !.sl = terms.sl, !.trailing = (t.source = "SWING")]]
    /\ loop' = [loop EXCEPT !.at = t.source, !.todo = @ \ {t.user}, !.on = 0, !.seen[loop.on] = NoOrder]
    /\ UNCHANGED <<wallet, cooling, request, paid, got, broken, spent>>

-----------------------------------------------------------------------------
(* Requests.                                                               *)

Becomes(r, busy) == request' = [request EXCEPT ![r] = busy]

\* LIMIT and STOP: an estimate of the wallet, no debit.
EnterResting(r, u) ==
    /\ request[r] = Idle
    /\ \E o \in Orders : Free(o)
    /\ \E terms \in Terms :
        /\ terms.type \in Waiting /\ RiskManaged(terms)
        /\ WellPlaced(terms.limit, terms) /\ Affords(u, terms.limit)
        /\ orders' = [orders EXCEPT ![NextId] = [Ordered(u, terms) EXCEPT !.status = "PENDING"]]
    /\ UNCHANGED <<wallet, cooling, loop, request, paid, got, broken, spent>>

\* MARKET, BRACKET and COVER: debited at the premium of the last whatever that is.
EnterDebit(r, u) ==
    /\ request[r] = Idle
    /\ \E o \in Orders : Free(o)
    /\ \E price \in Premiums, terms \in Terms :
        /\ Affords(u, price)
        /\ terms.type \notin Waiting /\ WellPlaced(price, terms) /\ RiskManaged(terms)
        /\ Debit(u, NextId, price)
        /\ Becomes(r, [Idle EXCEPT !.at = "insert", !.on = NextId,
                          !.seen = [Ordered(u, terms) EXCEPT !.status = "OPEN", !.entry = price]])
    /\ UNCHANGED <<orders, cooling, loop, got, broken, spent>>

EnterInsert(r) ==
    /\ request[r].at = "insert"
    /\ orders' = [orders EXCEPT ![request[r].on] = request[r].seen]
    /\ Becomes(r, Idle)
    /\ UNCHANGED <<wallet, cooling, loop, paid, got, broken, spent>>

\* The row is read, the premium looked up.
ExitRead(r, o) ==
    /\ request[r] = Idle
    /\ orders[o].status = "OPEN"
    /\ \E price \in Premiums :
        Becomes(r, [Idle EXCEPT !.at = "exit", !.on = o, !.user = orders[o].user, !.amount = price])
    /\ UNCHANGED <<orders, wallet, cooling, loop, paid, got, broken, spent>>

\* Mutant: the credit is left out.
ExitWriteForgets(r) ==
    LET j == request[r] IN
    /\ j.at = "exit"
    /\ orders' = IF orders[j.on].status = "OPEN"
                 THEN [orders EXCEPT ![j.on] = Closed(@, j.amount, "MANUAL EXIT")] ELSE orders
    /\ Becomes(r, Idle)
    /\ UNCHANGED <<wallet, cooling, loop, paid, got, broken, spent>>

ExitWrite(r) ==
    LET j == request[r] IN
    /\ j.at = "exit"
    /\ IF orders[j.on].status = "OPEN"
       THEN /\ orders' = [orders EXCEPT ![j.on] = Closed(@, j.amount, "MANUAL EXIT")]
            /\ Becomes(r, [j EXCEPT !.at = "credit"])
       ELSE orders' = orders /\ Becomes(r, Idle)
    /\ UNCHANGED <<wallet, cooling, loop, paid, got, broken, spent>>

\* admin_adjust_wallet; it is no order's money.
Adjust(r, u) ==
    /\ request[r] = Idle
    /\ spent < MaxRare
    /\ spent' = spent + 1
    /\ \E amount \in TopUps : Becomes(r, [Idle EXCEPT !.at = "credit", !.user = u, !.amount = amount])
    /\ UNCHANGED <<orders, wallet, cooling, loop, paid, got, broken>>

CreditRead(r) ==
    /\ request[r].at = "credit"
    /\ Becomes(r, [request[r] EXCEPT !.at = "crediting", !.balance = wallet[request[r].user]])
    /\ UNCHANGED <<orders, wallet, cooling, loop, paid, got, broken, spent>>

CreditWrite(r) ==
    LET j == request[r] IN
    /\ j.at = "crediting"
    /\ wallet' = [wallet EXCEPT ![j.user] = Credited(j.balance, j.amount)]
    /\ got' = IF j.on # 0 THEN [got EXCEPT ![j.on] = @ + j.amount] ELSE got
    /\ Becomes(r, Idle)
    /\ UNCHANGED <<orders, cooling, loop, paid, broken, spent>>

EditRead(r, o) ==
    /\ request[r] = Idle
    /\ orders[o].status = "OPEN"
    /\ \E terms \in Terms :
        /\ WellPlaced(orders[o].entry, terms)
        /\ Becomes(r, [Idle EXCEPT !.at = "edit", !.on = o,
                                   !.seen = [NoOrder EXCEPT !.target = terms.target, !.sl = terms.sl]])
    /\ UNCHANGED <<orders, wallet, cooling, loop, paid, got, broken, spent>>

\* By id alone: the terms of a row that was closed in between are written as well (and were
\* of no use any more).
EditWrite(r) ==
    LET j == request[r] IN
    /\ j.at = "edit"
    /\ orders' = IF orders[j.on].status # "OPEN" THEN orders
                 ELSE [orders EXCEPT ![j.on].target = j.seen.target, ![j.on].sl = j.seen.sl]
    /\ Becomes(r, Idle)
    /\ UNCHANGED <<wallet, cooling, loop, paid, got, broken, spent>>

Cancel(o) ==
    /\ orders[o].status = "PENDING"
    /\ orders' = [orders EXCEPT ![o] = [NoOrder EXCEPT !.status = "CANCELLED", !.user = orders[o].user]]
    /\ UNCHANGED <<wallet, cooling, loop, request, paid, got, broken, spent>>

\* manual_trade_delete_enabled is off until an administrator wants it: a deletion is a fault
\* of the bound, so that most behaviours have none.
Delete(o) ==
    /\ spent < MaxRare
    /\ orders[o].status \notin {"none", "deleted"}
    /\ spent' = spent + 1
    /\ orders' = [orders EXCEPT ![o] = [NoOrder EXCEPT !.status = "deleted"]]
    /\ UNCHANGED <<wallet, cooling, loop, request, paid, got, broken>>

-----------------------------------------------------------------------------
(* Time and failures.                                                      *)

CooldownEnds ==
    /\ \E c \in cooling : cooling' = cooling \ {c}
    /\ UNCHANGED <<orders, wallet, loop, request, paid, got, broken, spent>>

\* The order whose debit is taken, or whose credit is owed, when the loop stops here.
LoopOwes == CASE loop.at \in {"filling", "credit", "crediting"} -> {First}
              [] loop.at = "opening" -> {loop.on}
              [] OTHER -> {}
RequestOwes(r) == IF request[r].at \in {"insert", "credit", "crediting"} THEN {request[r].on} \ {0} ELSE {}

\* "Cycle error": whatever raises, a locked database for one, ends the pass.
PassRaises ==
    /\ spent < MaxRare /\ loop.at # "out"
    /\ spent' = spent + 1
    /\ broken' = broken \cup LoopOwes
    /\ loop' = Rest
    /\ UNCHANGED <<orders, wallet, cooling, request, paid, got>>

RequestRaises(r) ==
    /\ spent < MaxRare /\ request[r] # Idle
    /\ spent' = spent + 1
    /\ broken' = broken \cup RequestOwes(r)
    /\ Becomes(r, Idle)
    /\ UNCHANGED <<orders, wallet, cooling, loop, paid, got>>

\* What is in memory is gone: the cooldowns with the threads.
Restart ==
    /\ spent < MaxRare
    /\ spent' = spent + 1
    /\ broken' = broken \cup LoopOwes \cup UNION {RequestOwes(r) : r \in Requests}
    /\ loop' = Rest /\ request' = [r \in Requests |-> Idle]
    /\ cooling' = {}
    /\ UNCHANGED <<orders, wallet, paid, got>>

LoopStep ==
    \/ BeginPass \/ FillDebit \/ FillUpdate \/ SelectOpen \/ Backfill \/ Rollover \/ Manage
    \/ LoopCreditRead \/ LoopCreditWrite \/ NextEngine \/ FanoutDebit \/ FanoutInsert

Asked ==
    \/ \E r \in Requests, u \in Users : EnterResting(r, u) \/ EnterDebit(r, u) \/ Adjust(r, u)
    \/ \E r \in Requests, o \in Orders : ExitRead(r, o) \/ EditRead(r, o)
    \/ \E o \in Orders : Cancel(o) \/ Delete(o)

Serve(r) == EnterInsert(r) \/ ExitWrite(r) \/ CreditRead(r) \/ CreditWrite(r) \/ EditWrite(r)

Next ==
    \/ LoopStep \/ Asked \/ \E r \in Requests : Serve(r) \/ RequestRaises(r)
    \/ CooldownEnds \/ PassRaises \/ Restart

Spec == Init /\ [][Next]_vars

-----------------------------------------------------------------------------
(* Properties.                                                             *)

\* Whatever fills, exits, fan-outs and faults interleave, a position that is or was held cost
\* its user its entry premium, once, and an order that only waits has cost nothing: a fill
\* that is under way or was cut short by an error is the only exception.
PaidForWhatIsHeld ==
    \A o \in Orders \ broken :
        /\ orders[o].status \in {"OPEN", "CLOSED"} => paid[o] = orders[o].entry /\ paid[o] > 0
        /\ orders[o].status = "PENDING" => paid[o] = 0 \/ o \in LoopOwes

\* The loop and a manual exit never both settle an order: what a wallet got for it is nothing
\* or the very exit premium of the row.
SettledOnce ==
    \A o \in Orders :
        /\ got[o] # 0 => orders[o].status \in {"CLOSED", "deleted"}
        /\ got[o] # 0 /\ orders[o].status = "CLOSED" => got[o] = orders[o].exit

\* Proceeds are never forgotten: a closed order is credited or somebody is about to, unless it
\* was closed by a rollover or an error came in between.
ProceedsAreOwed ==
    \A o \in Orders \ broken :
        orders[o].status = "CLOSED" /\ orders[o].reason # "EXPIRED" /\ got[o] = 0 =>
            o \in LoopOwes \cup UNION {RequestOwes(r) : r \in Requests}

\* Whatever an order is due is paid exactly once.
ProceedsPaidOnce == SettledOnce /\ ProceedsAreOwed

\* A trigger that stays true for many passes opens one position: a user never has two live
\* AUTO orders of one engine.
OneAutoPerEngine ==
    \A o, p \in Orders :
        /\ orders[o].status = "OPEN" /\ orders[p].status = "OPEN" /\ o # p
        /\ orders[o].source # "MANUAL" /\ orders[o].source = orders[p].source
        => orders[o].user # orders[p].user

\* A settled order is history: whatever is still under way for it, its outcome and the
\* premiums of its entry and exit stay as they are until it is deleted.
SettledIsHistory ==
    [][\A o \in Orders :
        orders[o].status \in {"CLOSED", "CANCELLED"} /\ orders'[o].status # "deleted" =>
            /\ orders'[o].status = orders[o].status
            /\ orders'[o].entry = orders[o].entry /\ orders'[o].exit = orders[o].exit]_orders
=============================================================================
