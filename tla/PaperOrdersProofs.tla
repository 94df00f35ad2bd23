------------------------- MODULE PaperOrdersProofs -------------------------
(***************************************************************************)
(* Proofs about the paper orders, for any number of users, requests,       *)
(* orders and faults, any terms and any wallet.                            *)
(***************************************************************************)
EXTENDS PaperOrders, TLAPS, WellFoundedInduction

\* Who is about to credit order o: the loop, or request r.
LoopCredits(o)       == loop.at \in {"credit", "crediting"} /\ o = First
RequestCredits(r, o) == request[r].at \in {"credit", "crediting"} /\ request[r].on = o

\* What every row says: money moved once, at the premiums of the row; only manual orders wait.
RowInv ==
    \A o \in Orders :
        /\ got[o] # 0 => orders[o].status \in {"CLOSED", "deleted"}
        /\ got[o] # 0 /\ orders[o].status = "CLOSED" => got[o] = orders[o].exit
        /\ o \notin broken /\ orders[o].status \in {"OPEN", "CLOSED"} =>
            paid[o] = orders[o].entry /\ paid[o] > 0
        /\ o \notin broken /\ orders[o].status = "PENDING" =>
            paid[o] = 0 \/ (loop.at = "filling" /\ o = First)
        /\ orders[o].status = "PENDING" => orders[o].source = "MANUAL"
        /\ orders[o].status \in {"PENDING", "OPEN"} => orders[o].user \in Users

\* What an order owed its proceeds is waiting for.
OwedInv ==
    \A o \in Orders \ broken :
        orders[o].status = "CLOSED" /\ orders[o].reason # "EXPIRED" /\ got[o] = 0 =>
            LoopCredits(o) \/ \E r \in Requests : RequestCredits(r, o)

\* A row somebody is about to credit: closed at that premium and not yet credited, or deleted.
Due(o, amount) == \/ orders[o].status = "deleted"
                  \/ orders[o].status = "CLOSED" /\ orders[o].exit = amount /\ got[o] = 0

\* A row somebody has paid for and is about to insert.
Reserved(o, amount) == orders[o] = NoOrder /\ paid[o] = amount /\ amount > 0

\* What the loop knows at each of its places: whose orders it works on, a fill that is paid
\* for, a row it closed and a position it opens.
WorkInv ==
    /\ loop.at \in {"fill", "filling", "manage", "credit", "crediting"} =>
        loop.todo \subseteq Orders /\ \A o \in loop.todo : loop.seen[o].user \in Users
    /\ loop.at \in {"filling", "credit", "crediting"} => loop.todo # {} /\ loop.price > 0
    /\ loop.at \in Engines \cup {"opening"} => loop.todo \subseteq Users /\ (loop.todo # {} => loop.price > 0)
ListedInv ==
    /\ loop.at \in {"fill", "filling"} =>
        \A o \in loop.todo : orders[o].status \in {"PENDING", "CANCELLED", "deleted"}
    /\ loop.at \in {"manage", "credit", "crediting"} =>
        \A o \in loop.todo : orders[o].status \in {"OPEN", "CLOSED", "deleted"}
    /\ loop.at = "filling" /\ orders[First].status = "PENDING" /\ First \notin broken =>
        paid[First] = loop.price
LoopDue == loop.at \in {"credit", "crediting"} => Due(First, loop.price)
OpeningInv ==
    loop.at = "opening" =>
        /\ loop.on \in Orders /\ Reserved(loop.on, loop.price)
        /\ loop.seen[loop.on].user \in Users /\ loop.seen[loop.on].source \in Engines
        /\ ~HasLive(loop.seen[loop.on].user, loop.seen[loop.on].source)

\* What a request knows at each of its places: the row it pays for or exits, and the row it
\* closed.
InsertInv ==
    \A r \in Requests :
        request[r].at = "insert" =>
            /\ request[r].on \in Orders /\ Reserved(request[r].on, request[r].seen.entry)
            /\ request[r].seen.status = "OPEN" /\ request[r].seen.source = "MANUAL"
            /\ request[r].seen.user \in Users
JobInv ==
    \A r \in Requests :
        /\ request[r].at \in {"exit", "edit"} => request[r].on \in Orders
        /\ request[r].at \in {"exit", "credit", "crediting"} => request[r].user \in Users
        /\ request[r].at = "exit" => request[r].amount \in Premiums
RequestDue ==
    \A r \in Requests :
        request[r].at \in {"credit", "crediting"} /\ request[r].on # 0 =>
            request[r].amount > 0 /\ Due(request[r].on, request[r].amount)

\* Nobody works for the same row as somebody else.
ApartInv ==
    /\ \A r \in Requests :
        /\ request[r].at = "insert" /\ loop.at = "opening" => request[r].on # loop.on
        /\ \A o \in Orders : ~(LoopCredits(o) /\ RequestCredits(r, o))
    /\ \A r, s \in Requests : r # s =>
        /\ request[r].at = "insert" /\ request[s].at = "insert" => request[r].on # request[s].on
        /\ \A o \in Orders : ~(RequestCredits(r, o) /\ RequestCredits(s, o))

IInv == /\ TypeOK /\ RowInv /\ OwedInv
        /\ WorkInv /\ ListedInv /\ LoopDue /\ OpeningInv
        /\ InsertInv /\ JobInv /\ RequestDue
        /\ ApartInv /\ OneAutoPerEngine

-----------------------------------------------------------------------------
(* Lemmas about the operators.                                             *)

\* A set of natural numbers that is not empty has a least element, and Min finds it.
LEMMA MinExists ==
    ASSUME NEW S \in SUBSET Nat, S # {}
    PROVE  \E x \in S : \A y \in S : x <= y
<1> DEFINE R == {ss \in Nat \X Nat : ss[1] < ss[2]}
<1>1. IsWellFoundedOn(R, Nat)
    BY NatLessThanWellFounded DEF OpToRel
<1>2. PICK x \in S : \A y \in S : ~(<<y, x>> \in R)
    <2> HIDE DEF R
    <2> QED BY <1>1, WFMin
<1>3. ASSUME NEW y \in S, y < x PROVE <<y, x>> \in R
    BY <1>3
<1>4. \A y \in S : ~(y < x)
    <2> HIDE DEF R
    <2> QED BY <1>2, <1>3
<1>5. \A y \in S : x <= y
    <2> HIDE DEF R
    <2> QED BY <1>4
<1> QED BY <1>5

LEMMA MinIsIn ==
    ASSUME NEW S \in SUBSET Nat, S # {}
    PROVE  Min(S) \in S
BY MinExists DEF Min

\* The order form that nobody filled in, an order asked for, a fill, a stop that trails and a
\* settled row are orders, and what is not meant to change in them does not.
LEMMA NoOrderFacts == NoOrder \in Order /\ NoOrder.status = "none"
BY OrdersAssumption DEF NoOrder, Order, Statuses, Sources, Types, Waiting, Intraday, Reasons

LEMMA OrderedFacts ==
    ASSUME NEW u \in Users, NEW terms \in Terms
    PROVE  /\ Ordered(u, terms) \in Order
           /\ Ordered(u, terms).user = u /\ Ordered(u, terms).source = "MANUAL"
BY OrdersAssumption, NoOrderFacts DEF Ordered, NoOrder, Order, Types, Waiting, Intraday

LEMMA FilledFacts ==
    ASSUME TypeOK, NEW o \in Order
    PROVE  /\ Filled(o) \in Order /\ Filled(o).status = "OPEN" /\ Filled(o).entry = loop.price
           /\ Filled(o).user = o.user /\ Filled(o).source = o.source
BY OrdersAssumption DEF Filled, TypeOK, Pass, Order, Statuses

LEMMA ClosedFacts ==
    ASSUME NEW o \in Order, NEW price \in 0..MaxPremium, NEW reason \in Reasons
    PROVE  /\ Closed(o, price, reason) \in Order
           /\ Closed(o, price, reason).status = "CLOSED"
           /\ Closed(o, price, reason).entry = o.entry
           /\ Closed(o, price, reason).exit = price
           /\ Closed(o, price, reason).reason = reason
BY OrdersAssumption, NoOrderFacts DEF Closed, NoOrder, Order, Statuses

LEMMA MaxOfTwo ==
    ASSUME NEW a \in Int, NEW b \in Int
    PROVE  Max({a, b}) \in {a, b} /\ Max({a, b}) >= a /\ Max({a, b}) >= b
<1>1. \E x \in {a, b} : \A y \in {a, b} : x >= y
    OBVIOUS
<1> QED BY <1>1 DEF Max

LEMMA TrailedFacts ==
    ASSUME TypeOK, NEW t \in Order
    PROVE  /\ Trailed(t) \in Order
           /\ Trailed(t).source = t.source
<1> DEFINE from == IF t.peak = 0 THEN t.entry ELSE t.peak
           peak == Max({from, loop.price})
           lifted == t.entry + ((peak - t.entry) * (100 - Giveback)) \div 100
<1>1. from \in 0..MaxPremium /\ loop.price \in 0..MaxPremium
    BY DEF TypeOK, Pass, Order
<1>2. peak \in 0..MaxPremium
    <2> HIDE DEF from
    <2>1. from \in Int /\ loop.price \in Int
        BY <1>1, OrdersAssumption
    <2> QED BY <1>1, <2>1, MaxOfTwo
<1>3. t.entry \in Nat /\ t.sl \in Nat
    BY OrdersAssumption DEF Order
<1>4. lifted \in Int
    <2> HIDE DEF peak
    <2>1. peak \in Int /\ Giveback \in Int
        BY <1>2, OrdersAssumption
    <2>2. (peak - t.entry) * (100 - Giveback) \in Int
        BY <2>1, <1>3
    <2> QED BY <2>2, <1>3
<1>5. Max({t.sl, lifted}) \in Nat
    <2> HIDE DEF lifted
    <2>1. t.sl \in Int
        BY <1>3
    <2>2. Max({t.sl, lifted}) \in {t.sl, lifted} /\ Max({t.sl, lifted}) >= t.sl
        BY <2>1, <1>4, MaxOfTwo
    <2> QED BY <1>3, <1>4, <2>2
<1>6. Max({t.sl, t.entry}) \in Nat
    <2>1. t.sl \in Int /\ t.entry \in Int
        BY <1>3
    <2>2. Max({t.sl, t.entry}) \in {t.sl, t.entry}
        BY <2>1, MaxOfTwo
    <2> QED BY <1>3, <2>2
<1> DEFINE way == t.target - t.entry
           far(percent) == (peak - t.entry) * 100 >= percent * way
           sl == IF far(Trail) THEN Max({t.sl, lifted})
                 ELSE IF far(Breakeven) THEN Max({t.sl, t.entry}) ELSE t.sl
           up == IF peak = t.entry THEN t.peak ELSE peak
           set == t.trailed \/ sl # t.sl
<1>7. sl \in Nat
    <2> HIDE DEF lifted, peak, far
    <2> QED BY <1>3, <1>5, <1>6
<1>8. up \in 0..MaxPremium
    <2> HIDE DEF peak
    <2> QED BY <1>2 DEF Order
<1>9. set \in BOOLEAN
    BY DEF Order
<1>10. Trailed(t) = IF ~t.trailing \/ t.target = 0 THEN t
                    ELSE IF way <= 0 THEN [t EXCEPT !.peak = up]
                    ELSE [t EXCEPT !.peak = up, !.sl = sl, !.trailed = set]
    BY DEF Trailed
<1> HIDE DEF up, sl, set, way
<1> QED BY ZenonT(30), <1>7, <1>8, <1>9, <1>10 DEF Order

LEMMA KeptFacts ==
    ASSUME NEW o \in Order, NEW t \in Order
    PROVE  /\ Kept(o, t) \in Order
           /\ Kept(o, t).status = o.status /\ Kept(o, t).user = o.user
           /\ Kept(o, t).source = o.source /\ Kept(o, t).entry = o.entry
           /\ Kept(o, t).exit = o.exit /\ Kept(o, t).reason = o.reason
BY DEF Kept, Order

LEMMA IdleFacts == Idle \in Job
BY NoOrderFacts DEF Idle, Job

\* A free id is found when there is one, and it is free.
LEMMA NextIdFacts ==
    ASSUME TypeOK, \E o \in Orders : Free(o)
    PROVE  /\ NextId \in Orders /\ orders[NextId] = NoOrder /\ paid[NextId] = 0
           /\ orders[NextId].status = "none"
<1> DEFINE S == {o \in Orders : Free(o)}
<1>1. S \in SUBSET Nat /\ S # {}
    BY OrdersAssumption
<1>2. Min(S) \in S
    <2> HIDE DEF S
    <2> QED BY <1>1, MinIsIn
<1> QED BY <1>2, NoOrderFacts DEF NextId, Free

\* The order in hand is one of those to do.
LEMMA FirstFacts ==
    ASSUME WorkInv, loop.at \in {"fill", "filling", "manage", "credit", "crediting"}, loop.todo # {}
    PROVE  First \in loop.todo /\ First \in Orders /\ loop.seen[First].user \in Users
<1>1. loop.todo \in SUBSET Nat
    BY OrdersAssumption DEF WorkInv
<1>2. First \in loop.todo
    BY <1>1, MinIsIn DEF First
<1> QED BY <1>2 DEF WorkInv

LEMMA InHand ==
    ASSUME WorkInv, loop.at \in {"filling", "credit", "crediting"}
    PROVE  First \in loop.todo /\ First \in Orders /\ loop.seen[First].user \in Users
BY FirstFacts DEF WorkInv

-----------------------------------------------------------------------------
(* The invariant holds at first.                                           *)

LEMMA InitInv == Init => IInv
<1> SUFFICES ASSUME Init PROVE IInv
    OBVIOUS
<1>1. Rest \in Pass
    BY NoOrderFacts, OrdersAssumption DEF Rest, Pass
<1>2. TypeOK
    BY <1>1, NoOrderFacts, IdleFacts, OrdersAssumption DEF Init, TypeOK
<1>3. \A o \in Orders : orders[o].status = "none" /\ got[o] = 0
    BY NoOrderFacts DEF Init
<1>4. loop.at = "out" /\ \A r \in Requests : request[r].at = "idle"
    BY DEF Init, Rest, Idle
<1>5. RowInv
    BY <1>3 DEF RowInv
<1>6. OwedInv
    BY <1>3 DEF OwedInv
<1>7. WorkInv /\ ListedInv /\ LoopDue /\ OpeningInv
    BY <1>4, OrdersAssumption DEF WorkInv, ListedInv, LoopDue, OpeningInv
<1>8. InsertInv /\ JobInv /\ RequestDue
    BY <1>4 DEF InsertInv, JobInv, RequestDue
<1>9. ApartInv
    BY <1>4 DEF ApartInv, RequestCredits
<1>10. OneAutoPerEngine
    BY <1>3 DEF OneAutoPerEngine
<1> QED BY <1>2, <1>5, <1>6, <1>7, <1>8, <1>9, <1>10 DEF IInv

-----------------------------------------------------------------------------
(* The requests keep the invariant.                                        *)

\* What is said of rows and of the loop outlives a step that touches neither.
LEMMA RowsAndLoopKept ==
    ASSUME IInv, UNCHANGED <<orders, loop, paid, got, broken>>
    PROVE  /\ RowInv' /\ WorkInv' /\ ListedInv' /\ LoopDue' /\ OpeningInv' /\ OneAutoPerEngine'
           /\ First' = First
<1> USE DEF IInv
<1>1. First' = First
    BY DEF First
<1>2. RowInv' /\ OneAutoPerEngine'
    BY <1>1 DEF RowInv, OneAutoPerEngine
<1>3. WorkInv' /\ ListedInv' /\ LoopDue'
    BY <1>1 DEF WorkInv, ListedInv, LoopDue, Due
<1>4. OpeningInv'
    BY DEF OpeningInv, Reserved, HasLive
<1> QED BY <1>1, <1>2, <1>3, <1>4

\* What is said of one request outlives a step of another that touches no row.
LEMMA RequestsKept ==
    ASSUME IInv, UNCHANGED <<orders, loop, paid, got, broken>>,
           NEW r \in Requests, NEW j \in Job, request' = [request EXCEPT ![r] = j],
           request[r].at \in {"credit", "crediting"} =>
               j.at \in {"credit", "crediting"} /\ j.on = request[r].on /\ j.amount = request[r].amount,
           j.at \in {"idle", "exit", "edit", "credit", "crediting"},
           j.at \in {"exit", "edit"} => j.on \in Orders,
           j.at \in {"exit", "credit", "crediting"} => j.user \in Users,
           j.at = "exit" => j.amount \in Premiums,
           j.at \in {"credit", "crediting"} => j.on = 0 \/ request[r].at \in {"credit", "crediting"}
    PROVE  OwedInv' /\ InsertInv' /\ JobInv' /\ RequestDue' /\ ApartInv'
<1> USE DEF IInv
<1>1. First' = First
    BY DEF First
<1>2. request'[r] = j /\ \A s \in Requests : s # r => request'[s] = request[s]
    BY DEF TypeOK
<1>3. OwedInv'
    BY <1>1, <1>2 DEF OwedInv, LoopCredits, RequestCredits
<1>4. InsertInv'
    BY <1>2 DEF InsertInv, Reserved
<1>5. JobInv'
    BY <1>2 DEF JobInv, Premiums
<1>6. RequestDue'
    BY <1>2 DEF RequestDue, Due
<1>7. 0 \notin Orders
    BY OrdersAssumption
<1>8. ApartInv'
    BY <1>1, <1>2, <1>7 DEF ApartInv, LoopCredits, RequestCredits
<1> QED BY <1>3, <1>4, <1>5, <1>6, <1>8

LEMMA EnterRestingStep ==
    ASSUME IInv, NEW r \in Requests, NEW u \in Users, EnterResting(r, u)
    PROVE  IInv'
<1> USE DEF IInv
<1> DEFINE n == NextId
<1>1. n \in Orders /\ orders[n] = NoOrder /\ orders[n].status = "none" /\ paid[n] = 0
    BY NextIdFacts DEF EnterResting
<1>2. PICK terms \in Terms : orders' = [orders EXCEPT ![n] = [Ordered(u, terms) EXCEPT !.status = "PENDING"]]
    BY DEF EnterResting
<1> DEFINE row == [Ordered(u, terms) EXCEPT !.status = "PENDING"]
<1>3. row \in Order /\ row.status = "PENDING" /\ row.source = "MANUAL" /\ row.user = u
    BY OrderedFacts DEF Order, Statuses
<1> HIDE DEF n, row
<1>4. orders' = [orders EXCEPT ![n] = row]
    BY <1>2 DEF row
<1>5. UNCHANGED <<wallet, cooling, loop, request, paid, got, broken, spent>> /\ First' = First
    BY DEF EnterResting, First
<1>6. TypeOK'
    BY <1>1, <1>3, <1>4, <1>5 DEF TypeOK
<1>7. orders'[n] = row /\ \A o \in Orders : o # n => orders'[o] = orders[o]
    BY <1>1, <1>4 DEF TypeOK
<1>8. got[n] = 0
    BY <1>1, NoOrderFacts DEF RowInv, TypeOK
<1>9. RowInv'
    BY <1>1, <1>3, <1>5, <1>7, <1>8 DEF RowInv
<1>10. OwedInv'
    BY <1>3, <1>5, <1>7 DEF OwedInv, LoopCredits, RequestCredits
<1>11. "MANUAL" \notin Engines
    BY OrdersAssumption
<1>12. WorkInv' /\ ListedInv' /\ LoopDue'
    BY <1>1, <1>5, <1>7, InHand DEF WorkInv, ListedInv, LoopDue, Due
<1>16. OpeningInv'
    BY <1>1, <1>3, <1>5, <1>7, <1>11 DEF OpeningInv, Reserved, HasLive
<1>13. InsertInv' /\ JobInv' /\ RequestDue'
    <2>1. InsertInv'
        BY <1>1, <1>5, <1>7 DEF InsertInv, Reserved
    <2>2. JobInv'
        BY <1>5 DEF JobInv, Premiums
    <2>3. RequestDue'
        BY <1>1, <1>5, <1>7 DEF RequestDue, Due, TypeOK, Job
    <2> QED BY <2>1, <2>2, <2>3
<1>14. ApartInv'
    BY <1>5 DEF ApartInv, LoopCredits, RequestCredits
<1>15. OneAutoPerEngine'
    BY <1>3, <1>7 DEF OneAutoPerEngine
<1> QED BY <1>6, <1>9, <1>10, <1>12, <1>13, <1>14, <1>15, <1>16

LEMMA EnterDebitStep ==
    ASSUME IInv, NEW r \in Requests, NEW u \in Users, EnterDebit(r, u)
    PROVE  IInv'
<1> USE DEF IInv
<1> DEFINE n == NextId
<1>1. n \in Orders /\ orders[n] = NoOrder /\ orders[n].status = "none" /\ paid[n] = 0
    BY NextIdFacts DEF EnterDebit
<1>2. PICK price \in Premiums, terms \in Terms :
        /\ Affords(u, price) /\ Debit(u, n, price)
        /\ Becomes(r, [Idle EXCEPT !.at = "insert", !.on = n,
                          !.seen = [Ordered(u, terms) EXCEPT !.status = "OPEN", !.entry = price]])
    BY DEF EnterDebit
<1> DEFINE row == [Ordered(u, terms) EXCEPT !.status = "OPEN", !.entry = price]
           job == [Idle EXCEPT !.at = "insert", !.on = n, !.seen = row]
<1>3. price \in 0..MaxPremium /\ price \in Nat /\ price > 0
    BY OrdersAssumption DEF Premiums
<1>4. row \in Order /\ row.status = "OPEN" /\ row.source = "MANUAL" /\ row.user = u /\ row.entry = price
    <2> DEFINE asked == Ordered(u, terms)
    <2>1. asked \in Order /\ asked.source = "MANUAL" /\ asked.user = u
        BY OrderedFacts
    <2>2. row = [asked EXCEPT !.status = "OPEN", !.entry = price]
        OBVIOUS
    <2> HIDE DEF asked, row
    <2> QED BY <1>3, <2>1, <2>2 DEF Order, Statuses
<1> HIDE DEF n, row
<1>5. job \in Job /\ job.at = "insert" /\ job.on = n /\ job.seen = row
    BY <1>1, <1>4, IdleFacts DEF Job, Idle
<1> HIDE DEF job
<1>6. /\ wallet' = [wallet EXCEPT ![u] = @ - price]
      /\ paid' = [paid EXCEPT ![n] = @ + price]
      /\ request' = [request EXCEPT ![r] = job]
    BY <1>2 DEF Debit, Becomes, job, row
<1>7. UNCHANGED <<orders, cooling, loop, got, broken, spent>> /\ First' = First
    BY DEF EnterDebit, First
<1>8. wallet[u] >= price
    BY <1>2 DEF Affords
<1>9. wallet' \in [Users -> Nat]
    BY <1>3, <1>6, <1>8 DEF TypeOK
<1>10. paid' \in [Orders -> Nat] /\ request' \in [Requests -> Job]
    BY <1>1, <1>3, <1>5, <1>6 DEF TypeOK
<1>11. TypeOK'
    BY <1>7, <1>9, <1>10 DEF TypeOK
<1>12. paid'[n] = price /\ \A o \in Orders : o # n => paid'[o] = paid[o]
    BY <1>1, <1>3, <1>6 DEF TypeOK
<1>13. request'[r] = job /\ \A s \in Requests : s # r => request'[s] = request[s]
    BY <1>6 DEF TypeOK
<1>14. request[r].at = "idle"
    BY DEF EnterDebit, Idle
<1>15. RowInv'
    BY <1>1, <1>7, <1>12 DEF RowInv
<1>16. OwedInv'
    BY <1>7, <1>13, <1>14 DEF OwedInv, LoopCredits, RequestCredits
<1>17. WorkInv' /\ ListedInv' /\ LoopDue'
    BY <1>1, <1>7, <1>12, InHand DEF WorkInv, ListedInv, LoopDue, Due
<1>23. OpeningInv'
    BY <1>1, <1>7, <1>12 DEF OpeningInv, Reserved, HasLive
<1>18. InsertInv' /\ JobInv' /\ RequestDue'
    <2>1. InsertInv'
        BY <1>1, <1>3, <1>4, <1>5, <1>7, <1>12, <1>13 DEF InsertInv, Reserved
    <2>2. JobInv'
        BY <1>5, <1>13 DEF JobInv, Premiums
    <2>3. RequestDue'
        BY <1>5, <1>7, <1>13 DEF RequestDue, Due
    <2> QED BY <2>1, <2>2, <2>3
<1>19. loop.at = "opening" => loop.on # n
    BY <1>1 DEF OpeningInv, Reserved
<1>20. \A s \in Requests : request[s].at = "insert" => request[s].on # n
    BY <1>1 DEF InsertInv, Reserved
<1>21. ApartInv'
    BY <1>5, <1>7, <1>13, <1>14, <1>19, <1>20 DEF ApartInv, LoopCredits, RequestCredits
<1>22. OneAutoPerEngine'
    BY <1>7 DEF OneAutoPerEngine
<1> QED BY <1>11, <1>15, <1>16, <1>17, <1>18, <1>21, <1>22, <1>23

LEMMA EnterInsertStep ==
    ASSUME IInv, NEW r \in Requests, EnterInsert(r)
    PROVE  IInv'
<1> USE DEF IInv
<1> DEFINE n == request[r].on
           row == request[r].seen
<1>1. /\ n \in Orders /\ orders[n] = NoOrder /\ orders[n].status = "none"
      /\ paid[n] = row.entry /\ row.entry > 0
      /\ row \in Order /\ row.status = "OPEN" /\ row.source = "MANUAL" /\ row.user \in Users
    BY NoOrderFacts DEF EnterInsert, InsertInv, Reserved, TypeOK, Job
<1>2. request[r].at = "insert"
    BY DEF EnterInsert
<1>3. orders' = [orders EXCEPT ![n] = row] /\ request' = [request EXCEPT ![r] = Idle]
    BY DEF EnterInsert, Becomes
<1> HIDE DEF row
<1>4. UNCHANGED <<wallet, cooling, loop, paid, got, broken, spent>> /\ First' = First
    BY DEF EnterInsert, First
<1>5. TypeOK'
    BY <1>1, <1>3, <1>4, IdleFacts DEF TypeOK
<1>6. orders'[n] = row /\ \A o \in Orders : o # n => orders'[o] = orders[o]
    BY <1>1, <1>3 DEF TypeOK
<1>7. request'[r].at = "idle" /\ \A s \in Requests : s # r => request'[s] = request[s]
    BY <1>3 DEF TypeOK, Idle
<1>8. got[n] = 0
    BY <1>1 DEF RowInv, TypeOK
<1>9. RowInv'
    BY <1>1, <1>4, <1>6, <1>8 DEF RowInv
<1>10. OwedInv'
    BY <1>1, <1>2, <1>4, <1>6, <1>7 DEF OwedInv, LoopCredits, RequestCredits
<1>11. "MANUAL" \notin Engines
    BY OrdersAssumption
<1>12. loop.at = "opening" => loop.on # n
    BY <1>2 DEF ApartInv
<1>13. WorkInv' /\ ListedInv' /\ LoopDue'
    BY <1>1, <1>4, <1>6, InHand DEF WorkInv, ListedInv, LoopDue, Due
<1>18. OpeningInv'
    BY <1>1, <1>4, <1>6, <1>11, <1>12 DEF OpeningInv, Reserved, HasLive
<1>14. \A s \in Requests : s # r /\ request[s].at = "insert" => request[s].on # n
    BY <1>2 DEF ApartInv
<1>15. InsertInv' /\ JobInv' /\ RequestDue'
    <2>1. InsertInv'
        BY <1>1, <1>4, <1>6, <1>7, <1>14 DEF InsertInv, Reserved
    <2>2. JobInv'
        BY <1>7 DEF JobInv, Premiums
    <2>3. RequestDue'
        BY <1>1, <1>4, <1>6, <1>7 DEF RequestDue, Due, TypeOK, Job
    <2> QED BY <2>1, <2>2, <2>3
<1>16. ApartInv'
    BY <1>4, <1>7 DEF ApartInv, LoopCredits, RequestCredits
<1>17. OneAutoPerEngine'
    BY <1>1, <1>6 DEF OneAutoPerEngine
<1> QED BY <1>5, <1>9, <1>10, <1>13, <1>15, <1>16, <1>17, <1>18


LEMMA ExitReadStep ==
    ASSUME IInv, NEW r \in Requests, NEW o \in Orders, ExitRead(r, o)
    PROVE  IInv'
<1> USE DEF IInv
<1>1. PICK price \in Premiums : request' = [request EXCEPT ![r] =
         [Idle EXCEPT !.at = "exit", !.on = o, !.user = orders[o].user, !.amount = price]]
    BY DEF ExitRead, Becomes
<1> DEFINE job == [Idle EXCEPT !.at = "exit", !.on = o, !.user = orders[o].user, !.amount = price]
<1>2. orders[o].user \in Users /\ price \in Int
    BY OrdersAssumption DEF ExitRead, RowInv, Premiums
<1>3. job \in Job /\ job.at = "exit" /\ job.on = o /\ job.user \in Users /\ job.amount = price
    BY <1>2, IdleFacts DEF Job, Idle
<1> HIDE DEF job
<1>4. request' = [request EXCEPT ![r] = job]
    BY <1>1 DEF job
<1>5. request[r].at = "idle" /\ UNCHANGED <<orders, wallet, cooling, loop, paid, got, broken, spent>>
    BY DEF ExitRead, Idle
<1>6. OwedInv' /\ InsertInv' /\ JobInv' /\ RequestDue' /\ ApartInv'
    <2> HIDE DEF IInv
    <2>1. UNCHANGED <<orders, loop, paid, got, broken>>
        BY <1>5
    <2> QED BY <1>3, <1>4, <1>5, <2>1, RequestsKept
<1>7. TypeOK'
    BY <1>3, <1>4, <1>5 DEF TypeOK
<1> QED BY <1>5, <1>6, <1>7, RowsAndLoopKept

LEMMA EditReadStep ==
    ASSUME IInv, NEW r \in Requests, NEW o \in Orders, EditRead(r, o)
    PROVE  IInv'
<1>1. PICK terms \in Terms : request' = [request EXCEPT ![r] =
         [Idle EXCEPT !.at = "edit", !.on = o, !.seen = [NoOrder EXCEPT !.target = terms.target, !.sl = terms.sl]]]
    BY DEF EditRead, Becomes
<1> DEFINE row == [NoOrder EXCEPT !.target = terms.target, !.sl = terms.sl]
           job == [Idle EXCEPT !.at = "edit", !.on = o, !.seen = row]
<1>2. row \in Order
    BY NoOrderFacts, OrdersAssumption DEF Order
<1>3. job \in Job /\ job.at = "edit" /\ job.on = o
    <2> HIDE DEF row
    <2> QED BY <1>2, IdleFacts DEF Job, Idle
<1> HIDE DEF job
<1>4. request' = [request EXCEPT ![r] = job]
    BY <1>1 DEF job
<1>5. request[r].at = "idle" /\ UNCHANGED <<wallet, cooling, spent>>
    BY DEF EditRead, Idle
<1>6. UNCHANGED <<orders, loop, paid, got, broken>>
    BY DEF EditRead
<1>7. OwedInv' /\ InsertInv' /\ JobInv' /\ RequestDue' /\ ApartInv'
    BY <1>3, <1>4, <1>5, <1>6, RequestsKept
<1>8. TypeOK'
    BY <1>3, <1>4, <1>5, <1>6 DEF IInv, TypeOK
<1> QED BY <1>6, <1>7, <1>8, RowsAndLoopKept DEF IInv

LEMMA AdjustStep ==
    ASSUME IInv, NEW r \in Requests, NEW u \in Users, Adjust(r, u)
    PROVE  IInv'
<1>1. PICK amount \in TopUps :
        request' = [request EXCEPT ![r] = [Idle EXCEPT !.at = "credit", !.user = u, !.amount = amount]]
    BY DEF Adjust, Becomes
<1> DEFINE job == [Idle EXCEPT !.at = "credit", !.user = u, !.amount = amount]
<1>2. amount \in Int
    BY OrdersAssumption
<1>3. job \in Job /\ job.at = "credit" /\ job.on = 0 /\ job.user = u
    BY <1>2, IdleFacts DEF Job, Idle
<1> HIDE DEF job
<1>4. request' = [request EXCEPT ![r] = job]
    BY <1>1 DEF job
<1>5. request[r].at = "idle" /\ UNCHANGED <<wallet, cooling>> /\ spent < MaxRare /\ spent' = spent + 1
    BY DEF Adjust, Idle
<1>6. UNCHANGED <<orders, loop, paid, got, broken>>
    BY DEF Adjust
<1>7. OwedInv' /\ InsertInv' /\ JobInv' /\ RequestDue' /\ ApartInv'
    BY <1>3, <1>4, <1>5, <1>6, RequestsKept
<1>8. spent' \in 0..MaxRare
    BY <1>5, OrdersAssumption DEF IInv, TypeOK
<1>9. TypeOK'
    BY <1>3, <1>4, <1>5, <1>6, <1>8 DEF IInv, TypeOK
<1> QED BY <1>6, <1>7, <1>9, RowsAndLoopKept DEF IInv

LEMMA CreditReadStep ==
    ASSUME IInv, NEW r \in Requests, CreditRead(r)
    PROVE  IInv'
<1> DEFINE job == [request[r] EXCEPT !.at = "crediting", !.balance = wallet[request[r].user]]
<1>1. request[r].at = "credit" /\ request[r] \in Job /\ request[r].user \in Users
    BY DEF CreditRead, IInv, TypeOK, JobInv
<1>2. wallet[request[r].user] \in Nat
    BY <1>1 DEF IInv, TypeOK
<1>3. /\ job \in Job /\ job.at = "crediting" /\ job.on = request[r].on /\ job.user = request[r].user
      /\ job.amount = request[r].amount
    BY <1>1, <1>2 DEF Job
<1> HIDE DEF job
<1>4. request' = [request EXCEPT ![r] = job]
    BY DEF CreditRead, Becomes, job
<1>5. UNCHANGED <<orders, loop, paid, got, broken>> /\ UNCHANGED <<wallet, cooling, spent>>
    BY DEF CreditRead
<1>6. OwedInv' /\ InsertInv' /\ JobInv' /\ RequestDue' /\ ApartInv'
    BY <1>1, <1>3, <1>4, <1>5, RequestsKept
<1>7. TypeOK'
    BY <1>3, <1>4, <1>5 DEF IInv, TypeOK
<1> QED BY <1>5, <1>6, <1>7, RowsAndLoopKept DEF IInv

\* A wallet is never written below zero.
LEMMA CreditedFacts ==
    ASSUME NEW balance \in Nat, NEW amount \in Int
    PROVE  Credited(balance, amount) \in Nat
<1>1. balance + amount \in Int
    OBVIOUS
<1>2. Max({0, balance + amount}) \in {0, balance + amount} /\ Max({0, balance + amount}) >= 0
    BY <1>1, MaxOfTwo
<1> QED BY <1>1, <1>2 DEF Credited

LEMMA CreditWriteStep ==
    ASSUME IInv, NEW r \in Requests, CreditWrite(r)
    PROVE  IInv'
<1> USE DEF IInv
<1> DEFINE n == request[r].on
           amount == request[r].amount
           u == request[r].user
<1>1. /\ request[r].at = "crediting" /\ u \in Users /\ amount \in Int /\ request[r].balance \in Nat
      /\ n \in Orders \cup {0}
    BY DEF CreditWrite, TypeOK, Job, JobInv
<1>2. n # 0 => amount > 0 /\ Due(n, amount)
    BY <1>1 DEF RequestDue
<1>3. Credited(request[r].balance, amount) \in Nat
    BY <1>1, CreditedFacts
<1>4. UNCHANGED <<orders, cooling, loop, paid, broken, spent>> /\ First' = First
    BY DEF CreditWrite, First
<1>5. /\ wallet' = [wallet EXCEPT ![u] = Credited(request[r].balance, amount)]
      /\ got' = IF n # 0 THEN [got EXCEPT ![n] = @ + amount] ELSE got
      /\ request' = [request EXCEPT ![r] = Idle]
    BY DEF CreditWrite, Becomes
<1>6. request'[r].at = "idle" /\ \A s \in Requests : s # r => request'[s] = request[s]
    BY <1>5 DEF TypeOK, Idle
<1> HIDE DEF u, amount
<1>7. wallet' \in [Users -> Nat] /\ got' \in [Orders -> Int]
    BY <1>1, <1>3, <1>5 DEF TypeOK
<1>8. TypeOK'
    BY <1>4, <1>5, <1>7, IdleFacts DEF TypeOK
<1>9. /\ \A o \in Orders : o # n => got'[o] = got[o]
      /\ n # 0 => n \in Orders /\ got'[n] = got[n] + amount
    BY <1>1, <1>5 DEF TypeOK
<1>22. n # 0 /\ got[n] = 0 => got'[n] = amount
    BY <1>1, <1>9
<1>10. RowInv'
    <2> SUFFICES ASSUME NEW o \in Orders
                 PROVE  /\ got'[o] # 0 => orders[o].status \in {"CLOSED", "deleted"}
                        /\ got'[o] # 0 /\ orders[o].status = "CLOSED" => got'[o] = orders[o].exit
        BY <1>4 DEF RowInv
    <2>1. CASE o # n
        BY <1>9, <2>1 DEF RowInv
    <2>2. CASE o = n
        BY <1>2, <1>22, <2>2, OrdersAssumption DEF Due
    <2> QED BY <2>1, <2>2
<1>11. \A o \in Orders : o # n /\ RequestCredits(r, o) => FALSE
    BY DEF RequestCredits
<1>12. n # 0 /\ orders[n].status = "CLOSED" => got'[n] # 0
    BY <1>1, <1>2, <1>9 DEF Due
<1>13. OwedInv'
    <2> SUFFICES ASSUME NEW o \in Orders, o \notin broken, orders[o].status = "CLOSED",
                        orders[o].reason # "EXPIRED", got'[o] = 0
                 PROVE  LoopCredits(o)' \/ \E s \in Requests : RequestCredits(s, o)'
        BY <1>4 DEF OwedInv
    <2>1. o # n
        BY <1>12, OrdersAssumption
    <2>2. LoopCredits(o) \/ \E s \in Requests : RequestCredits(s, o)
        BY <1>9, <2>1 DEF OwedInv
    <2>3. LoopCredits(o) => LoopCredits(o)'
        BY <1>4 DEF LoopCredits
    <2>4. \A s \in Requests : s # r /\ RequestCredits(s, o) => RequestCredits(s, o)'
        BY <1>6 DEF RequestCredits
    <2> QED BY <1>11, <2>1, <2>2, <2>3, <2>4
<1>14. \A o \in Orders : n = o => ~LoopCredits(o)
    BY <1>1 DEF ApartInv, RequestCredits
<1>15. WorkInv' /\ ListedInv' /\ LoopDue'
    BY <1>4, <1>9, <1>14, InHand DEF WorkInv, ListedInv, LoopDue, Due, LoopCredits
<1>16. OpeningInv'
    BY <1>4 DEF OpeningInv, Reserved, HasLive
<1>17. InsertInv' /\ JobInv'
    BY <1>4, <1>6 DEF InsertInv, Reserved, JobInv, Premiums
<1>18. \A s \in Requests : s # r /\ request[s].at \in {"credit", "crediting"} /\ n # 0 => request[s].on # n
    BY <1>1 DEF ApartInv, RequestCredits
<1>19. RequestDue'
    BY <1>1, <1>4, <1>6, <1>9, <1>18 DEF RequestDue, Due, TypeOK, Job
<1>20. ApartInv'
    BY <1>4, <1>6 DEF ApartInv, LoopCredits, RequestCredits
<1>21. OneAutoPerEngine'
    BY <1>4 DEF OneAutoPerEngine
<1> QED BY <1>8, <1>10, <1>13, <1>15, <1>16, <1>17, <1>19, <1>20, <1>21

LEMMA ExitWriteStep ==
    ASSUME IInv, NEW r \in Requests, ExitWrite(r)
    PROVE  IInv'
<1> DEFINE j == request[r]
           n == j.on
<1>1. j.at = "exit" /\ j \in Job /\ n \in Orders /\ j.user \in Users /\ j.amount \in Premiums
    BY DEF ExitWrite, IInv, TypeOK, JobInv
<1>2. UNCHANGED <<wallet, cooling, loop, paid, got, broken, spent>> /\ First' = First
    BY DEF ExitWrite, First
<1>3. CASE orders[n].status # "OPEN"
    <2>1. orders' = orders /\ request' = [request EXCEPT ![r] = Idle]
        BY <1>3 DEF ExitWrite, Becomes
    <2>2. Idle.at = "idle"
        BY DEF Idle
    <2>3. UNCHANGED <<orders, loop, paid, got, broken>>
        BY <1>2, <2>1
    <2>4. OwedInv' /\ InsertInv' /\ JobInv' /\ RequestDue' /\ ApartInv'
        BY <1>1, <2>1, <2>2, <2>3, IdleFacts, RequestsKept
    <2>5. TypeOK'
        BY <1>2, <2>1, IdleFacts DEF IInv, TypeOK
    <2> QED BY <2>3, <2>4, <2>5, RowsAndLoopKept DEF IInv
<1>4. CASE orders[n].status = "OPEN"
    <2> DEFINE reason == "MANUAL EXIT"
               row == Closed(orders[n], j.amount, reason)
               job == [j EXCEPT !.at = "credit"]
    <2>21. orders[n] \in Order /\ reason \in Reasons
        BY <1>1 DEF IInv, TypeOK, Reasons
    <2>1. j.amount \in 0..MaxPremium /\ j.amount > 0
        BY <1>1, OrdersAssumption DEF Premiums
    <2>2. /\ row \in Order /\ row.status = "CLOSED" /\ row.entry = orders[n].entry
          /\ row.exit = j.amount
        <3> HIDE DEF reason, j, n
        <3> QED BY <2>1, <2>21, ClosedFacts
    <2>3. /\ job \in Job /\ job.at = "credit" /\ job.on = n /\ job.user = j.user
          /\ job.amount = j.amount
        BY <1>1 DEF Job
    <2> HIDE DEF row, job
    <2>4. orders' = [orders EXCEPT ![n] = row] /\ request' = [request EXCEPT ![r] = job]
        BY <1>4 DEF ExitWrite, Becomes, row, job, j, n
    <2> USE DEF IInv, j, n
    <2>5. TypeOK'
        BY <1>2, <2>2, <2>3, <2>4 DEF TypeOK
    <2>6. orders'[n] = row /\ \A o \in Orders : o # n => orders'[o] = orders[o]
        BY <1>1, <2>4 DEF TypeOK
    <2>7. request'[r] = job /\ \A s \in Requests : s # r => request'[s] = request[s]
        BY <2>4 DEF TypeOK
    <2>8. got[n] = 0
        BY <1>1, <1>4 DEF RowInv, TypeOK
    <2>9. RowInv'
        BY <1>1, <1>2, <1>4, <2>2, <2>6, <2>8 DEF RowInv
    <2>10. OwedInv'
        BY <1>1, <1>2, <2>3, <2>6, <2>7 DEF OwedInv, LoopCredits, RequestCredits
    <2>11. WorkInv' /\ ListedInv' /\ LoopDue'
        BY <1>1, <1>2, <1>4, <2>2, <2>6, InHand DEF WorkInv, ListedInv, LoopDue, Due
    <2>12. orders[n] # NoOrder
        BY <1>4, NoOrderFacts
    <2>13. OpeningInv'
        BY <1>1, <1>2, <2>2, <2>6, <2>12 DEF OpeningInv, Reserved, HasLive
    <2>14. InsertInv'
        BY <1>2, <2>3, <2>6, <2>7, <2>12 DEF InsertInv, Reserved
    <2>15. JobInv'
        BY <1>1, <2>3, <2>7 DEF JobInv, Premiums
    <2>16. RequestDue'
        <3>1. orders'[n].status = "CLOSED" /\ orders'[n].exit = j.amount /\ got'[n] = 0
            BY <1>2, <2>2, <2>6, <2>8
        <3>2. \A s \in Requests : request[s].at \in {"credit", "crediting"} /\ request[s].on # 0 =>
                  request[s].on \in Orders /\ request[s].on # n
            BY <1>4 DEF RequestDue, Due, TypeOK, Job
        <3>3. \A s \in Requests : s # r /\ request[s].at \in {"credit", "crediting"} /\ request[s].on # 0 =>
                  request'[s] = request[s] /\ orders'[request[s].on] = orders[request[s].on]
            BY <2>6, <2>7, <3>2
        <3> HIDE DEF j, n
        <3> QED BY <1>2, <2>1, <2>3, <2>7, <3>1, <3>2, <3>3 DEF RequestDue, Due
    <2>17. \A o \in Orders : LoopCredits(o) => o # n
        BY <1>4 DEF LoopCredits, LoopDue, Due
    <2>18. \A s \in Requests : request[s].at \in {"credit", "crediting"} => request[s].on # n
        BY <1>1, <1>4, OrdersAssumption DEF RequestDue, Due
    <2>19. ApartInv'
        BY <1>1, <1>2, <2>3, <2>7, <2>17, <2>18 DEF ApartInv, LoopCredits, RequestCredits
    <2>20. OneAutoPerEngine'
        BY <2>2, <2>6 DEF OneAutoPerEngine
    <2> QED BY <2>5, <2>9, <2>10, <2>11, <2>13, <2>14, <2>15, <2>16, <2>19, <2>20
<1> QED BY <1>3, <1>4

LEMMA EditWriteStep ==
    ASSUME IInv, NEW r \in Requests, EditWrite(r)
    PROVE  IInv'
<1> DEFINE j == request[r]
           n == j.on
<1>1. j.at = "edit" /\ j \in Job /\ n \in Orders
    BY DEF EditWrite, IInv, TypeOK, JobInv
<1>2. UNCHANGED <<wallet, cooling, loop, paid, got, broken, spent>> /\ First' = First
    BY DEF EditWrite, First
<1>3. request' = [request EXCEPT ![r] = Idle]
    BY DEF EditWrite, Becomes
<1>4. Idle.at = "idle"
    BY DEF Idle
<1>5. CASE orders[n].status # "OPEN"
    <2>1. orders' = orders
        BY <1>5 DEF EditWrite
    <2>2. UNCHANGED <<orders, loop, paid, got, broken>>
        BY <1>2, <2>1
    <2>3. OwedInv' /\ InsertInv' /\ JobInv' /\ RequestDue' /\ ApartInv'
        BY <1>1, <1>3, <1>4, <2>2, IdleFacts, RequestsKept
    <2>4. TypeOK'
        BY <1>2, <1>3, <2>1, IdleFacts DEF IInv, TypeOK
    <2> QED BY <2>2, <2>3, <2>4, RowsAndLoopKept DEF IInv
<1>6. CASE orders[n].status = "OPEN"
    <2> USE DEF IInv
    <2> DEFINE row == [orders[n] EXCEPT !.target = j.seen.target, !.sl = j.seen.sl]
    <2>1. orders[n] \in Order /\ j.seen \in Order
        BY <1>1 DEF TypeOK, Job
    <2>2. /\ row \in Order /\ row.status = "OPEN" /\ row.entry = orders[n].entry
          /\ row.user = orders[n].user /\ row.source = orders[n].source
        <3> HIDE DEF j, n
        <3> QED BY <1>6, <2>1 DEF Order
    <2>3. orders' = [orders EXCEPT ![n] = row]
        BY <1>6 DEF EditWrite
    <2> HIDE DEF row
    <2>4. TypeOK'
        BY <1>2, <1>3, <2>2, <2>3, IdleFacts DEF TypeOK
    <2>5. orders'[n] = row /\ \A o \in Orders : o # n => orders'[o] = orders[o]
        BY <1>1, <2>3 DEF TypeOK
    <2>6. request'[r].at = "idle" /\ \A s \in Requests : s # r => request'[s] = request[s]
        BY <1>3, <1>4 DEF TypeOK
    <2>7. orders[n] # NoOrder
        BY <1>6, NoOrderFacts
    <2>8. RowInv'
        BY <1>1, <1>2, <1>6, <2>2, <2>5 DEF RowInv
    <2>9. OwedInv'
        BY <1>1, <1>2, <2>2, <2>5, <2>6 DEF OwedInv, LoopCredits, RequestCredits
    <2>10. WorkInv' /\ ListedInv' /\ LoopDue'
        BY <1>1, <1>2, <1>6, <2>2, <2>5, InHand DEF WorkInv, ListedInv, LoopDue, Due
    <2>11. OpeningInv'
        BY <1>1, <1>2, <1>6, <2>2, <2>5, <2>7 DEF OpeningInv, Reserved, HasLive
    <2>12. InsertInv' /\ JobInv'
        BY <1>2, <2>5, <2>6, <2>7 DEF InsertInv, Reserved, JobInv, Premiums
    <2>13. RequestDue'
        BY <1>1, <1>2, <1>6, <2>5, <2>6 DEF RequestDue, Due, TypeOK, Job
    <2>14. ApartInv'
        BY <1>1, <1>2, <2>6 DEF ApartInv, LoopCredits, RequestCredits
    <2>15. OneAutoPerEngine'
        BY <1>6, <2>2, <2>5 DEF OneAutoPerEngine
    <2> QED BY <2>4, <2>8, <2>9, <2>10, <2>11, <2>12, <2>13, <2>14, <2>15
<1> QED BY <1>5, <1>6

LEMMA CancelStep ==
    ASSUME IInv, NEW n \in Orders, Cancel(n)
    PROVE  IInv'
<1> USE DEF IInv
<1> DEFINE row == [NoOrder EXCEPT !.status = "CANCELLED", !.user = orders[n].user]
<1>1. orders[n].status = "PENDING" /\ orders[n] # NoOrder
    BY NoOrderFacts DEF Cancel
<1>2. row \in Order /\ row.status = "CANCELLED"
    BY NoOrderFacts DEF Order, Statuses, TypeOK
<1>3. orders' = [orders EXCEPT ![n] = row]
    BY DEF Cancel
<1> HIDE DEF row
<1>4. UNCHANGED <<wallet, cooling, loop, request, paid, got, broken, spent>> /\ First' = First
    BY DEF Cancel, First
<1>5. TypeOK'
    BY <1>2, <1>3, <1>4 DEF TypeOK
<1>6. orders'[n] = row /\ \A o \in Orders : o # n => orders'[o] = orders[o]
    BY <1>3 DEF TypeOK
<1>7. RowInv'
    BY <1>1, <1>2, <1>4, <1>6 DEF RowInv
<1>8. OwedInv'
    BY <1>2, <1>4, <1>6 DEF OwedInv, LoopCredits, RequestCredits
<1>9. WorkInv' /\ ListedInv' /\ LoopDue'
    BY <1>1, <1>2, <1>4, <1>6, InHand DEF WorkInv, ListedInv, LoopDue, Due
<1>10. OpeningInv'
    BY <1>1, <1>2, <1>4, <1>6 DEF OpeningInv, Reserved, HasLive
<1>11. InsertInv' /\ JobInv'
    BY <1>1, <1>4, <1>6 DEF InsertInv, Reserved, JobInv, Premiums
<1>12. RequestDue'
    BY <1>1, <1>4, <1>6 DEF RequestDue, Due, TypeOK, Job
<1>13. ApartInv'
    BY <1>4 DEF ApartInv, LoopCredits, RequestCredits
<1>14. OneAutoPerEngine'
    BY <1>2, <1>6 DEF OneAutoPerEngine
<1> QED BY <1>5, <1>7, <1>8, <1>9, <1>10, <1>11, <1>12, <1>13, <1>14

LEMMA DeleteStep ==
    ASSUME IInv, NEW n \in Orders, Delete(n)
    PROVE  IInv'
<1> USE DEF IInv
<1> DEFINE row == [NoOrder EXCEPT !.status = "deleted"]
<1>1. orders[n].status \notin {"none", "deleted"} /\ orders[n] # NoOrder
    BY NoOrderFacts DEF Delete
<1>2. row \in Order /\ row.status = "deleted"
    BY NoOrderFacts DEF Order, Statuses
<1>3. orders' = [orders EXCEPT ![n] = row] /\ spent < MaxRare /\ spent' = spent + 1
    BY DEF Delete
<1> HIDE DEF row
<1>4. UNCHANGED <<wallet, cooling, loop, request, paid, got, broken>> /\ First' = First
    BY DEF Delete, First
<1>5. spent' \in 0..MaxRare
    BY <1>3, OrdersAssumption DEF TypeOK
<1>6. TypeOK'
    BY <1>2, <1>3, <1>4, <1>5 DEF TypeOK
<1>7. orders'[n] = row /\ \A o \in Orders : o # n => orders'[o] = orders[o]
    BY <1>3 DEF TypeOK
<1>8. RowInv'
    BY <1>2, <1>4, <1>7 DEF RowInv
<1>9. OwedInv'
    BY <1>2, <1>4, <1>7 DEF OwedInv, LoopCredits, RequestCredits
<1>10. WorkInv' /\ ListedInv' /\ LoopDue'
    BY <1>2, <1>4, <1>7, InHand DEF WorkInv, ListedInv, LoopDue, Due
<1>11. OpeningInv'
    BY <1>1, <1>2, <1>4, <1>7 DEF OpeningInv, Reserved, HasLive
<1>12. InsertInv' /\ JobInv'
    BY <1>1, <1>4, <1>7 DEF InsertInv, Reserved, JobInv, Premiums
<1>13. RequestDue'
    BY <1>2, <1>4, <1>7 DEF RequestDue, Due, TypeOK, Job
<1>14. ApartInv'
    BY <1>4 DEF ApartInv, LoopCredits, RequestCredits
<1>15. OneAutoPerEngine'
    BY <1>2, <1>7 DEF OneAutoPerEngine
<1> QED BY <1>6, <1>8, <1>9, <1>10, <1>11, <1>12, <1>13, <1>14, <1>15

-----------------------------------------------------------------------------
(* Time and failures keep the invariant.                                   *)

LEMMA CooldownEndsStep ==
    ASSUME IInv, CooldownEnds
    PROVE  IInv'
<1>1. UNCHANGED <<orders, loop, paid, got, broken>> /\ UNCHANGED <<wallet, request, spent>>
    BY DEF CooldownEnds
<1>2. cooling' \subseteq Users \X Engines
    BY DEF CooldownEnds, IInv, TypeOK
<1>3. TypeOK'
    BY <1>1, <1>2 DEF IInv, TypeOK
<1>4. First' = First
    BY <1>1 DEF First
<1>5. OwedInv' /\ ApartInv'
    BY <1>1, <1>4 DEF IInv, OwedInv, ApartInv, LoopCredits, RequestCredits
<1>6. InsertInv' /\ JobInv' /\ RequestDue'
    BY <1>1 DEF IInv, InsertInv, JobInv, RequestDue, Due, Reserved, Premiums
<1> QED BY <1>1, <1>3, <1>5, <1>6, RowsAndLoopKept DEF IInv

LEMMA RestFacts == Rest \in Pass /\ Rest.at = "out"
BY NoOrderFacts, OrdersAssumption DEF Rest, Pass

LEMMA RequestRaisesStep ==
    ASSUME IInv, NEW r \in Requests, RequestRaises(r)
    PROVE  IInv'
<1> USE DEF IInv
<1>1. UNCHANGED <<orders, wallet, cooling, loop, paid, got>> /\ First' = First
    BY DEF RequestRaises, First
<1>2. /\ spent < MaxRare /\ spent' = spent + 1 /\ broken' = broken \cup RequestOwes(r)
      /\ request' = [request EXCEPT ![r] = Idle]
    BY DEF RequestRaises, Becomes
<1>3. RequestOwes(r) \subseteq Orders
    BY DEF RequestOwes, TypeOK, Job
<1>4. spent' \in 0..MaxRare
    BY <1>2, OrdersAssumption DEF TypeOK
<1>5. TypeOK'
    BY <1>1, <1>2, <1>3, <1>4, IdleFacts DEF TypeOK
<1>6. request'[r].at = "idle" /\ \A s \in Requests : s # r => request'[s] = request[s]
    BY <1>2 DEF TypeOK, Idle
<1>7. broken \subseteq broken'
    BY <1>2
<1>8. \A o \in Orders : RequestCredits(r, o) => o \in broken'
    BY <1>2, OrdersAssumption DEF RequestCredits, RequestOwes
<1>9. RowInv'
    BY <1>1, <1>7 DEF RowInv
<1>10. OwedInv'
    BY <1>1, <1>6, <1>7, <1>8 DEF OwedInv, LoopCredits, RequestCredits
<1>11. WorkInv' /\ ListedInv' /\ LoopDue'
    BY <1>1, <1>7 DEF WorkInv, ListedInv, LoopDue, Due
<1>12. OpeningInv'
    BY <1>1 DEF OpeningInv, Reserved, HasLive
<1>13. InsertInv' /\ JobInv' /\ RequestDue'
    BY <1>1, <1>6 DEF InsertInv, Reserved, JobInv, Premiums, RequestDue, Due
<1>14. ApartInv'
    BY <1>1, <1>6 DEF ApartInv, LoopCredits, RequestCredits
<1>15. OneAutoPerEngine'
    BY <1>1 DEF OneAutoPerEngine
<1> QED BY <1>5, <1>9, <1>10, <1>11, <1>12, <1>13, <1>14, <1>15

\* Where the loop is no more, what it owed is broken.
LEMMA LoopOwesFacts ==
    ASSUME IInv
    PROVE  /\ LoopOwes \subseteq Orders
           /\ \A o \in Orders : LoopCredits(o) => o \in LoopOwes
           /\ loop.at = "filling" => First \in LoopOwes
<1>1. CASE loop.at \in {"filling", "credit", "crediting"}
    BY <1>1, InHand DEF IInv, LoopOwes, LoopCredits
<1>2. CASE loop.at = "opening"
    BY <1>2 DEF IInv, OpeningInv, LoopOwes, LoopCredits
<1>3. CASE loop.at \notin {"filling", "credit", "crediting", "opening"}
    BY <1>3 DEF LoopOwes, LoopCredits
<1> QED BY <1>1, <1>2, <1>3

LEMMA PassRaisesStep ==
    ASSUME IInv, PassRaises
    PROVE  IInv'
<1> USE DEF IInv
<1>1. UNCHANGED <<orders, wallet, cooling, request, paid, got>> /\ loop' = Rest
    BY DEF PassRaises
<1>2. spent < MaxRare /\ spent' = spent + 1 /\ broken' = broken \cup LoopOwes
    BY DEF PassRaises
<1>3. spent' \in 0..MaxRare
    BY <1>2, OrdersAssumption DEF TypeOK
<1>4. TypeOK'
    BY <1>1, <1>2, <1>3, RestFacts, LoopOwesFacts DEF TypeOK
<1>5. broken \subseteq broken' /\ loop'.at = "out"
    BY <1>1, <1>2, RestFacts
<1>6. RowInv'
    BY <1>1, <1>2, <1>5, LoopOwesFacts DEF RowInv
<1>7. OwedInv'
    BY <1>1, <1>2, <1>5, LoopOwesFacts DEF OwedInv, RequestCredits
<1>8. WorkInv' /\ ListedInv' /\ LoopDue' /\ OpeningInv'
    BY <1>5, OrdersAssumption DEF WorkInv, ListedInv, LoopDue, OpeningInv
<1>9. InsertInv' /\ JobInv' /\ RequestDue'
    BY <1>1 DEF InsertInv, Reserved, JobInv, Premiums, RequestDue, Due
<1>10. ApartInv'
    BY <1>1, <1>5 DEF ApartInv, LoopCredits, RequestCredits
<1>11. OneAutoPerEngine'
    BY <1>1 DEF OneAutoPerEngine
<1> QED BY <1>4, <1>6, <1>7, <1>8, <1>9, <1>10, <1>11

LEMMA RestartStep ==
    ASSUME IInv, Restart
    PROVE  IInv'
<1> USE DEF IInv
<1> DEFINE owed == UNION {RequestOwes(r) : r \in Requests}
<1>1. UNCHANGED <<orders, wallet, paid, got>> /\ loop' = Rest /\ cooling' = {}
    BY DEF Restart
<1>2. spent < MaxRare /\ spent' = spent + 1 /\ request' = [r \in Requests |-> Idle]
    BY DEF Restart
<1>3. broken' = (broken \cup LoopOwes) \cup owed
    BY DEF Restart
<1>4. \A r \in Requests : RequestOwes(r) \subseteq Orders
    BY DEF RequestOwes, TypeOK, Job
<1>5. owed \subseteq Orders
    BY <1>4
<1>6. \A o \in Orders : (\E r \in Requests : RequestCredits(r, o)) => o \in owed
    BY OrdersAssumption DEF RequestCredits, RequestOwes
<1> HIDE DEF owed
<1>7. spent' \in 0..MaxRare
    BY <1>2, OrdersAssumption DEF TypeOK
<1>8. TypeOK'
    BY <1>1, <1>2, <1>3, <1>5, <1>7, RestFacts, IdleFacts, LoopOwesFacts DEF TypeOK
<1>9. broken \subseteq broken' /\ loop'.at = "out" /\ \A r \in Requests : request'[r].at = "idle"
    BY <1>1, <1>2, <1>3, RestFacts DEF Idle
<1>10. RowInv'
    BY <1>1, <1>3, <1>9, LoopOwesFacts DEF RowInv
<1>11. OwedInv'
    BY <1>1, <1>3, <1>6, <1>9, LoopOwesFacts DEF OwedInv
<1>12. WorkInv' /\ ListedInv' /\ LoopDue' /\ OpeningInv'
    BY <1>9, OrdersAssumption DEF WorkInv, ListedInv, LoopDue, OpeningInv
<1>13. InsertInv' /\ JobInv' /\ RequestDue'
    BY <1>9 DEF InsertInv, JobInv, RequestDue
<1>14. ApartInv'
    BY <1>9 DEF ApartInv, LoopCredits, RequestCredits
<1>15. OneAutoPerEngine'
    BY <1>1 DEF OneAutoPerEngine
<1> QED BY <1>8, <1>10, <1>11, <1>12, <1>13, <1>14, <1>15

-----------------------------------------------------------------------------
(* The loop keeps the invariant.                                           *)

\* The loop goes on to the next of its orders.
LEMMA DoneFacts ==
    ASSUME IInv, loop.at \in {"fill", "filling", "manage", "crediting"}, loop.todo # {}, loop' = Done
    PROVE  /\ loop' \in Pass /\ WorkInv'
           /\ loop'.at = IF loop.at \in {"fill", "filling"} THEN "fill" ELSE "manage"
           /\ loop'.todo = loop.todo \ {First}
<1> DEFINE at == IF loop.at \in {"fill", "filling"} THEN "fill" ELSE "manage"
<1>1. First \in loop.todo /\ First \in Orders
    BY FirstFacts DEF IInv
<1>2. /\ loop \in Pass /\ loop.todo \subseteq Orders
      /\ \A o \in loop.todo : loop.seen[o].user \in Users
    BY DEF IInv, TypeOK, WorkInv
<1>3. loop' = [loop EXCEPT !.at = at, !.todo = @ \ {First}, !.seen[First] = NoOrder]
    BY DEF Done, Passed
<1> HIDE DEF First
<1>4. loop'.at = at /\ loop'.todo = loop.todo \ {First}
    BY <1>2, <1>3 DEF Pass
<1>5. loop'.seen = [loop.seen EXCEPT ![First] = NoOrder]
    BY <1>2, <1>3 DEF Pass
<1>6. loop'.seen \in [Orders -> Order]
    BY <1>2, <1>5, NoOrderFacts DEF Pass
<1>7. at \in {"fill", "manage"}
    OBVIOUS
<1> HIDE DEF at
<1>8. loop' \in Pass
    <2>1. /\ loop.price \in 0..MaxPremium /\ loop.expiry \in 0..MaxContracts
          /\ loop.on \in Orders \cup {0} /\ loop.balance \in Nat
        BY <1>2 DEF Pass
    <2>2. loop' = [loop EXCEPT !.at = loop'.at, !.todo = loop'.todo, !.seen = loop'.seen]
        BY <1>2, <1>3, <1>4, <1>5 DEF Pass
    <2> QED BY <1>2, <1>4, <1>6, <1>7, <2>2 DEF Pass
<1>9. \A o \in loop'.todo : loop'.seen[o] = loop.seen[o]
    BY <1>2, <1>4, <1>5 DEF Pass
<1>10. at \notin Engines \cup {"opening"}
    BY <1>7, OrdersAssumption
<1>11. WorkInv'
    BY <1>2, <1>4, <1>7, <1>9, <1>10 DEF WorkInv
<1> QED BY <1>4, <1>8, <1>11 DEF at

\* Where no row changes and nothing is paid, got or asked, a step of the loop leaves alone what
\* does not depend on its place.
LEMMA OnlyLoopMoves ==
    ASSUME IInv, UNCHANGED <<orders, paid, got, broken, request>>
    PROVE  InsertInv' /\ JobInv' /\ RequestDue' /\ OneAutoPerEngine'
BY DEF IInv, InsertInv, JobInv, RequestDue, OneAutoPerEngine, Due, Reserved, Premiums

LEMMA BeginPassStep ==
    ASSUME IInv, BeginPass
    PROVE  IInv'
<1> USE DEF IInv
<1>1. UNCHANGED <<orders, paid, got, broken, request>> /\ UNCHANGED <<wallet, cooling, spent>>
    BY DEF BeginPass
<1>2. PICK price \in 0..MaxPremium, expiry \in 0..MaxContracts :
        loop' = [Rest EXCEPT !.at = "fill", !.todo = Listed("PENDING"), !.seen = Rows("PENDING"),
                             !.price = price, !.expiry = expiry]
    BY DEF BeginPass
<1>3. Listed("PENDING") \subseteq Orders /\ Rows("PENDING") \in [Orders -> Order]
    BY NoOrderFacts DEF Listed, Rows, TypeOK
<1>4. \A o \in Listed("PENDING") : Rows("PENDING")[o].user \in Users /\ orders[o].status = "PENDING"
    BY DEF Listed, Rows, RowInv
<1>5. loop' \in Pass
    BY <1>2, <1>3, RestFacts DEF Pass
<1>6. loop'.at = "fill" /\ loop'.todo = Listed("PENDING") /\ loop'.seen = Rows("PENDING")
    BY <1>2, RestFacts DEF Pass
<1>7. loop.at = "out"
    BY DEF BeginPass
<1>8. TypeOK'
    BY <1>1, <1>5 DEF TypeOK
<1>9. RowInv'
    BY <1>1, <1>7 DEF RowInv
<1>10. OwedInv'
    BY <1>1, <1>7 DEF OwedInv, LoopCredits, RequestCredits
<1>11. WorkInv' /\ ListedInv' /\ LoopDue' /\ OpeningInv'
    BY <1>1, <1>3, <1>4, <1>6, OrdersAssumption DEF WorkInv, ListedInv, LoopDue, OpeningInv
<1>12. ApartInv'
    BY <1>1, <1>6 DEF ApartInv, LoopCredits, RequestCredits
<1> QED BY <1>1, <1>8, <1>9, <1>10, <1>11, <1>12, OnlyLoopMoves

LEMMA SelectOpenStep ==
    ASSUME IInv, SelectOpen
    PROVE  IInv'
<1> USE DEF IInv
<1>1. UNCHANGED <<orders, paid, got, broken, request>> /\ UNCHANGED <<wallet, cooling, spent>>
    BY DEF SelectOpen
<1>2. loop' = [loop EXCEPT !.at = "manage", !.todo = Listed("OPEN"), !.seen = Rows("OPEN")]
    BY DEF SelectOpen
<1>3. Listed("OPEN") \subseteq Orders /\ Rows("OPEN") \in [Orders -> Order]
    BY NoOrderFacts DEF Listed, Rows, TypeOK
<1>4. \A o \in Listed("OPEN") : Rows("OPEN")[o].user \in Users /\ orders[o].status = "OPEN"
    BY DEF Listed, Rows, RowInv
<1>5. loop' \in Pass /\ loop'.at = "manage" /\ loop'.todo = Listed("OPEN") /\ loop'.seen = Rows("OPEN")
    BY <1>2, <1>3 DEF TypeOK, Pass
<1>6. loop.at = "fill"
    BY DEF SelectOpen
<1>7. TypeOK'
    BY <1>1, <1>5 DEF TypeOK
<1>8. RowInv'
    BY <1>1, <1>6 DEF RowInv
<1>9. OwedInv'
    BY <1>1, <1>6 DEF OwedInv, LoopCredits, RequestCredits
<1>10. WorkInv' /\ ListedInv' /\ LoopDue' /\ OpeningInv'
    BY <1>1, <1>3, <1>4, <1>5, OrdersAssumption DEF WorkInv, ListedInv, LoopDue, OpeningInv
<1>11. ApartInv'
    BY <1>1, <1>5 DEF ApartInv, LoopCredits, RequestCredits
<1> QED BY <1>1, <1>7, <1>8, <1>9, <1>10, <1>11, OnlyLoopMoves

LEMMA FillDebitStep ==
    ASSUME IInv, FillDebit
    PROVE  IInv'
<1> USE DEF IInv
<1> DEFINE t == loop.seen[First]
<1>1. loop.at = "fill" /\ loop.todo # {} /\ UNCHANGED <<orders, cooling, request, got, broken, spent>>
    BY DEF FillDebit
<1>2. First \in loop.todo /\ First \in Orders /\ t.user \in Users
    BY <1>1, FirstFacts
<1>3. orders[First].status \in {"PENDING", "CANCELLED", "deleted"}
    BY <1>1, <1>2 DEF ListedInv
<1>4. CASE ~(Triggered(t) /\ Affords(t.user, loop.price))
    <2>1. loop' = Done /\ UNCHANGED <<wallet, paid>>
        BY <1>4 DEF FillDebit
    <2>2. loop' \in Pass /\ WorkInv' /\ loop'.at = "fill" /\ loop'.todo = loop.todo \ {First}
        BY <1>1, <2>1, DoneFacts
    <2>3. TypeOK'
        BY <1>1, <2>1, <2>2 DEF TypeOK
    <2>4. RowInv'
        BY <1>1, <2>1 DEF RowInv
    <2>5. OwedInv'
        BY <1>1, <2>1 DEF OwedInv, LoopCredits, RequestCredits
    <2>6. ListedInv' /\ LoopDue' /\ OpeningInv'
        BY <1>1, <2>2 DEF ListedInv, LoopDue, OpeningInv
    <2>7. ApartInv'
        BY <1>1, <2>2 DEF ApartInv, LoopCredits, RequestCredits
    <2> QED BY <1>1, <2>1, <2>2, <2>3, <2>4, <2>5, <2>6, <2>7, OnlyLoopMoves
<1>5. CASE Triggered(t) /\ Affords(t.user, loop.price)
    <2>1. /\ loop' = [loop EXCEPT !.at = "filling"]
          /\ wallet' = [wallet EXCEPT ![t.user] = @ - loop.price]
          /\ paid' = [paid EXCEPT ![First] = @ + loop.price]
        BY <1>5 DEF FillDebit, Debit
    <2>2. loop.price \in Nat /\ loop.price > 0 /\ wallet[t.user] >= loop.price
        BY <1>5, OrdersAssumption DEF Triggered, Affords, TypeOK, Pass
    <2>3. /\ loop' \in Pass /\ loop'.at = "filling" /\ loop'.todo = loop.todo
          /\ loop'.seen = loop.seen /\ loop'.price = loop.price
        BY <2>1 DEF TypeOK, Pass
    <2>4. First' = First
        BY <2>3 DEF First
    <2> HIDE DEF t
    <2>5. wallet' \in [Users -> Nat] /\ paid' \in [Orders -> Nat]
        BY <1>2, <2>1, <2>2 DEF TypeOK
    <2>6. TypeOK'
        BY <1>1, <2>3, <2>5 DEF TypeOK
    <2>7. paid'[First] = paid[First] + loop.price /\ \A o \in Orders : o # First => paid'[o] = paid[o]
        BY <1>2, <2>1 DEF TypeOK
    <2>8. RowInv'
        BY <1>1, <1>3, <2>3, <2>4, <2>7 DEF RowInv
    <2>9. OwedInv'
        BY <1>1 DEF OwedInv, LoopCredits, RequestCredits
    <2>10. WorkInv'
        BY <1>1, <1>2, <2>2, <2>3, OrdersAssumption DEF WorkInv
    <2>11. First \notin broken /\ orders[First].status = "PENDING" => paid[First] = 0
        BY <1>1, <1>2 DEF RowInv
    <2>12. ListedInv'
        BY <1>1, <2>2, <2>3, <2>4, <2>7, <2>11 DEF ListedInv
    <2>13. LoopDue' /\ OpeningInv'
        BY <2>3 DEF LoopDue, OpeningInv
    <2>14. InsertInv'
        BY <1>1, <1>3, <2>7, NoOrderFacts DEF InsertInv, Reserved
    <2>15. JobInv' /\ RequestDue'
        BY <1>1 DEF JobInv, RequestDue, Due, Premiums
    <2>16. ApartInv'
        BY <1>1, <2>3 DEF ApartInv, LoopCredits, RequestCredits
    <2>17. OneAutoPerEngine'
        BY <1>1 DEF OneAutoPerEngine
    <2> QED BY <2>6, <2>8, <2>9, <2>10, <2>12, <2>13, <2>14, <2>15, <2>16, <2>17
<1> QED BY <1>4, <1>5

LEMMA FillUpdateStep ==
    ASSUME IInv, FillUpdate
    PROVE  IInv'
<1> USE DEF IInv
<1>1. /\ loop.at = "filling" /\ UNCHANGED <<wallet, cooling, request, paid, got, broken, spent>>
      /\ loop' = Done
    BY DEF FillUpdate
<1>2. First \in loop.todo /\ First \in Orders /\ loop.todo # {} /\ loop.price > 0
    BY <1>1, InHand DEF WorkInv
<1>3. orders[First].status \in {"PENDING", "CANCELLED", "deleted"}
    BY <1>1, <1>2 DEF ListedInv
<1>4. loop' \in Pass /\ WorkInv' /\ loop'.at = "fill" /\ loop'.todo = loop.todo \ {First}
    BY <1>1, <1>2, DoneFacts
<1>5. ApartInv'
    BY <1>1, <1>4 DEF ApartInv, LoopCredits, RequestCredits
<1>6. CASE orders[First].status # "PENDING"
    <2>1. orders' = orders
        BY <1>6 DEF FillUpdate
    <2>2. TypeOK'
        BY <1>1, <1>4, <2>1 DEF TypeOK
    <2>3. RowInv'
        BY <1>1, <1>6, <2>1 DEF RowInv
    <2>4. OwedInv'
        BY <1>1, <2>1 DEF OwedInv, LoopCredits, RequestCredits
    <2>5. ListedInv' /\ LoopDue' /\ OpeningInv'
        BY <1>1, <1>4, <2>1 DEF ListedInv, LoopDue, OpeningInv
    <2> QED BY <1>1, <1>4, <1>5, <2>1, <2>2, <2>3, <2>4, <2>5, OnlyLoopMoves
<1>7. CASE orders[First].status = "PENDING"
    <2> DEFINE n == First
               row == Filled(orders[n])
    <2>1. orders[n] \in Order
        BY <1>2 DEF TypeOK
    <2>2. /\ row \in Order /\ row.status = "OPEN" /\ row.entry = loop.price
          /\ row.user = orders[n].user /\ row.source = orders[n].source
        BY <2>1, FilledFacts
    <2>3. row.user \in Users /\ row.source = "MANUAL"
        BY <1>2, <1>7, <2>2 DEF RowInv
    <2>4. n \notin broken => paid[n] = loop.price
        BY <1>1, <1>7 DEF ListedInv
    <2>5. orders' = [orders EXCEPT ![n] = row]
        BY <1>7 DEF FillUpdate
    <2>6. n \in loop.todo /\ n \in Orders /\ loop'.todo = loop.todo \ {n} /\ orders[n].status = "PENDING"
        BY <1>2, <1>4, <1>7
    <2>7. \A o \in Orders : o # n /\ o \notin broken /\ orders[o].status = "PENDING" => paid[o] = 0
        BY DEF RowInv
    <2> HIDE DEF n, row
    <2>8. orders'[n] = row /\ \A o \in Orders : o # n => orders'[o] = orders[o]
        BY <2>5, <2>6 DEF TypeOK
    <2>9. TypeOK'
        BY <1>1, <1>4, <2>2, <2>5 DEF TypeOK
    <2>10. RowInv'
        BY <1>1, <1>2, <2>2, <2>3, <2>4, <2>6, <2>7, <2>8 DEF RowInv
    <2>11. OwedInv'
        BY <1>1, <2>2, <2>8 DEF OwedInv, LoopCredits, RequestCredits
    <2>12. ListedInv' /\ LoopDue' /\ OpeningInv'
        BY <1>1, <1>4, <2>6, <2>8 DEF ListedInv, LoopDue, OpeningInv, WorkInv
    <2>13. InsertInv' /\ JobInv'
        BY <1>1, <2>6, <2>8, NoOrderFacts DEF InsertInv, Reserved, JobInv, Premiums
    <2>14. RequestDue'
        BY <1>1, <2>6, <2>8 DEF RequestDue, Due, TypeOK, Job
    <2>15. OneAutoPerEngine'
        BY <2>3, <2>8 DEF OneAutoPerEngine
    <2> QED BY <1>4, <1>5, <2>9, <2>10, <2>11, <2>12, <2>13, <2>14, <2>15
<1> QED BY <1>6, <1>7

LEMMA BackfillStep ==
    ASSUME IInv, Backfill
    PROVE  IInv'
<1> USE DEF IInv
<1> DEFINE n == First
           row == [orders[n] EXCEPT !.expiry = IF @ = 0 /\ orders[n].status # "deleted" THEN loop.expiry ELSE @]
<1>1. loop.at = "manage" /\ loop.todo # {} /\ UNCHANGED <<wallet, cooling, request, paid, got, broken, spent>>
    BY DEF Backfill, LacksExpiry
<1>2. n \in loop.todo /\ n \in Orders
    BY <1>1, FirstFacts
<1>3. orders[n].status \in {"OPEN", "CLOSED", "deleted"}
    BY <1>1, <1>2 DEF ListedInv
<1>23. orders[n] # NoOrder
    BY <1>3, NoOrderFacts
<1>4. orders[n] \in Order /\ loop \in Pass
    BY <1>2 DEF TypeOK
<1>5. /\ row \in Order /\ row.status = orders[n].status /\ row.user = orders[n].user
      /\ row.source = orders[n].source /\ row.entry = orders[n].entry /\ row.exit = orders[n].exit
      /\ row.reason = orders[n].reason
    <2> HIDE DEF n
    <2> QED BY <1>4 DEF Order, Pass
<1>6. orders' = [orders EXCEPT ![n] = row]
    BY <1>2 DEF Backfill, TypeOK
<1>7. loop' = [loop EXCEPT !.seen = [loop.seen EXCEPT ![n].expiry = loop.expiry]]
    BY <1>4 DEF Backfill, Pass
<1> HIDE DEF n, row
<1>8. loop.seen[n] \in Order /\ loop.expiry \in 0..MaxContracts /\ loop.seen \in [Orders -> Order]
    BY <1>2, <1>4 DEF Pass
<1>9. [loop.seen[n] EXCEPT !.expiry = loop.expiry] \in Order
    BY <1>8 DEF Order
<1>10. [loop.seen EXCEPT ![n].expiry = loop.expiry] \in [Orders -> Order]
    BY <1>2, <1>8, <1>9
<1>11. /\ loop' \in Pass /\ loop'.at = "manage" /\ loop'.todo = loop.todo /\ loop'.price = loop.price
       /\ loop'.seen = [loop.seen EXCEPT ![n].expiry = loop.expiry]
    BY <1>1, <1>4, <1>7, <1>10 DEF Pass
<1>12. \A o \in Orders : loop'.seen[o].user = loop.seen[o].user
    BY <1>2, <1>8, <1>11 DEF Order
<1>13. orders'[n] = row /\ \A o \in Orders : o # n => orders'[o] = orders[o]
    BY <1>2, <1>6 DEF TypeOK
<1>14. TypeOK'
    BY <1>1, <1>5, <1>6, <1>11 DEF TypeOK
<1>15. RowInv'
    BY <1>1, <1>2, <1>5, <1>13 DEF RowInv
<1>16. OwedInv'
    BY <1>1, <1>2, <1>5, <1>13 DEF OwedInv, LoopCredits, RequestCredits
<1>17. WorkInv' /\ ListedInv' /\ LoopDue' /\ OpeningInv'
    BY <1>1, <1>3, <1>5, <1>11, <1>12, <1>13, OrdersAssumption DEF WorkInv, ListedInv, LoopDue, OpeningInv
<1>18. InsertInv'
    BY <1>1, <1>2, <1>13, <1>23 DEF InsertInv, Reserved
<1>19. JobInv'
    BY <1>1 DEF JobInv, Premiums
<1>20. RequestDue'
    BY <1>1, <1>2, <1>5, <1>13 DEF RequestDue, Due, TypeOK, Job
<1>21. ApartInv'
    BY <1>1, <1>11 DEF ApartInv, LoopCredits, RequestCredits
<1>22. OneAutoPerEngine'
    BY <1>2, <1>5, <1>13 DEF OneAutoPerEngine
<1> QED BY <1>14, <1>15, <1>16, <1>17, <1>18, <1>19, <1>20, <1>21, <1>22

LEMMA RolloverStep ==
    ASSUME IInv, Rollover
    PROVE  IInv'
<1> DEFINE n == First
<1>1. /\ loop.at = "manage" /\ loop.todo # {} /\ loop' = Done
      /\ UNCHANGED <<wallet, cooling, request, paid, got, broken, spent>>
    BY DEF Rollover, Managing
<1>2. n \in loop.todo /\ n \in Orders
    BY <1>1, FirstFacts DEF IInv
<1>3. loop' \in Pass /\ WorkInv' /\ loop'.at = "manage" /\ loop'.todo = loop.todo \ {n}
    BY <1>1, DoneFacts
<1>4. PICK old \in 0..MaxPremium :
        orders' = IF old # 0 /\ orders[n].status = "OPEN"
                  THEN [orders EXCEPT ![n] = Closed(@, old, "EXPIRED")] ELSE orders
    BY DEF Rollover
<1>5. ApartInv'
    BY <1>1, <1>3 DEF IInv, ApartInv, LoopCredits, RequestCredits
<1>6. CASE ~(old # 0 /\ orders[n].status = "OPEN")
    <2>1. orders' = orders
        BY <1>4, <1>6
    <2>2. TypeOK' /\ RowInv'
        BY <1>1, <1>3, <2>1 DEF IInv, TypeOK, RowInv
    <2>3. OwedInv'
        BY <1>1, <2>1 DEF IInv, OwedInv, LoopCredits, RequestCredits
    <2>4. ListedInv' /\ LoopDue' /\ OpeningInv'
        BY <1>1, <1>3, <2>1 DEF IInv, ListedInv, LoopDue, OpeningInv
    <2> QED BY <1>1, <1>3, <1>5, <2>1, <2>2, <2>3, <2>4, OnlyLoopMoves DEF IInv
<1>7. CASE old # 0 /\ orders[n].status = "OPEN"
    <2> DEFINE reason == "EXPIRED"
               row == Closed(orders[n], old, reason)
    <2>1. orders[n] \in Order /\ reason \in Reasons
        BY <1>2 DEF IInv, TypeOK, Reasons
    <2>2. /\ row \in Order /\ row.status = "CLOSED" /\ row.entry = orders[n].entry
          /\ row.reason = reason
        <3> HIDE DEF reason, n
        <3> QED BY <1>4, <2>1, ClosedFacts
    <2>3. orders' = [orders EXCEPT ![n] = row]
        BY <1>4, <1>7
    <2>4. row.reason = "EXPIRED"
        BY <2>2
    <2> HIDE DEF n, row, reason
    <2> USE DEF IInv
    <2>5. orders'[n] = row /\ \A o \in Orders : o # n => orders'[o] = orders[o]
        BY <1>2, <2>3 DEF TypeOK
    <2>6. TypeOK'
        BY <1>1, <1>3, <2>2, <2>3 DEF TypeOK
    <2>7. got[n] = 0 /\ orders[n] # NoOrder
        BY <1>2, <1>7, NoOrderFacts DEF RowInv
    <2>8. RowInv'
        BY <1>1, <1>2, <1>7, <2>2, <2>5, <2>7 DEF RowInv
    <2>9. OwedInv'
        BY <1>1, <2>2, <2>4, <2>5 DEF OwedInv, LoopCredits, RequestCredits
    <2>10. ListedInv' /\ LoopDue' /\ OpeningInv'
        BY <1>1, <1>3, <2>2, <2>5 DEF ListedInv, LoopDue, OpeningInv, WorkInv
    <2>11. InsertInv' /\ JobInv'
        BY <1>1, <2>5, <2>7 DEF InsertInv, Reserved, JobInv, Premiums
    <2>12. RequestDue'
        BY <1>1, <1>7, <2>5 DEF RequestDue, Due, TypeOK, Job
    <2>13. OneAutoPerEngine'
        BY <2>2, <2>5 DEF OneAutoPerEngine
    <2> QED BY <1>3, <1>5, <2>6, <2>8, <2>9, <2>10, <2>11, <2>12, <2>13
<1> QED BY <1>6, <1>7

\* Manage keeps a row, with its stop as it trails.
LEMMA KeepStep ==
    ASSUME IInv, loop.at = "manage", loop.todo # {}, loop' = Done,
           UNCHANGED <<wallet, cooling, request, paid, got, broken, spent>>,
           orders[First].status = "OPEN",
           orders' = [orders EXCEPT ![First] = Kept(@, Trailed(loop.seen[First]))]
    PROVE  IInv'
<1> DEFINE n == First
           row == Kept(orders[n], Trailed(loop.seen[n]))
<1>1. n \in loop.todo /\ n \in Orders
    BY FirstFacts DEF IInv
<1>2. loop' \in Pass /\ WorkInv' /\ loop'.at = "manage" /\ loop'.todo = loop.todo \ {n}
    BY DoneFacts
<1>3. orders[n] \in Order /\ loop.seen[n] \in Order
    BY <1>1 DEF IInv, TypeOK, Pass
<1>4. Trailed(loop.seen[n]) \in Order
    BY <1>3, TrailedFacts DEF IInv
<1>5. /\ row \in Order /\ row.status = "OPEN" /\ row.user = orders[n].user
      /\ row.source = orders[n].source /\ row.entry = orders[n].entry
    <2> HIDE DEF n
    <2>1. /\ row \in Order /\ row.status = orders[n].status /\ row.user = orders[n].user
          /\ row.source = orders[n].source /\ row.entry = orders[n].entry
        BY <1>3, <1>4, KeptFacts
    <2> QED BY <2>1 DEF n
<1>6. orders' = [orders EXCEPT ![n] = row] /\ orders[n].status = "OPEN"
    OBVIOUS
<1> HIDE DEF n, row
<1> USE DEF IInv
<1>7. orders'[n] = row /\ \A o \in Orders : o # n => orders'[o] = orders[o]
    BY <1>1, <1>6 DEF TypeOK
<1>8. TypeOK'
    BY <1>2, <1>5, <1>6 DEF TypeOK
<1>9. RowInv'
    BY <1>1, <1>5, <1>6, <1>7 DEF RowInv
<1>10. OwedInv'
    BY <1>5, <1>7 DEF OwedInv, LoopCredits, RequestCredits
<1>11. ListedInv' /\ LoopDue' /\ OpeningInv'
    BY <1>2, <1>5, <1>7 DEF ListedInv, LoopDue, OpeningInv, WorkInv
<1>12. orders[n] # NoOrder
    BY <1>6, NoOrderFacts
<1>13. InsertInv' /\ JobInv'
    BY <1>7, <1>12 DEF InsertInv, Reserved, JobInv, Premiums
<1>14. RequestDue'
    BY <1>6, <1>7 DEF RequestDue, Due, TypeOK, Job
<1>15. ApartInv'
    BY <1>2 DEF ApartInv, LoopCredits, RequestCredits
<1>16. OneAutoPerEngine'
    BY <1>1, <1>5, <1>6, <1>7 DEF OneAutoPerEngine
<1> QED BY <1>2, <1>8, <1>9, <1>10, <1>11, <1>13, <1>14, <1>15, <1>16

\* Manage closes a row, and owes its proceeds.
LEMMA CloseStep ==
    ASSUME IInv, loop.at = "manage", loop.todo # {}, loop' = [loop EXCEPT !.at = "credit"],
           UNCHANGED <<wallet, cooling, request, paid, got, broken, spent>>,
           orders[First].status = "OPEN", loop.price # 0,
           NEW reason \in Reasons,
           orders' = [orders EXCEPT ![First] = Closed(Kept(@, Trailed(loop.seen[First])), loop.price, reason)]
    PROVE  IInv'
<1> DEFINE n == First
           kept == Kept(orders[n], Trailed(loop.seen[n]))
           row == Closed(kept, loop.price, reason)
<1>1. n \in loop.todo /\ n \in Orders
    BY FirstFacts DEF IInv
<1>2. /\ loop' \in Pass /\ loop'.at = "credit" /\ loop'.todo = loop.todo /\ loop'.seen = loop.seen
      /\ loop'.price = loop.price /\ loop.price \in 0..MaxPremium
    BY DEF IInv, TypeOK, Pass
<1>3. First' = n
    BY <1>2 DEF First
<1>4. orders[n] \in Order /\ loop.seen[n] \in Order
    BY <1>1 DEF IInv, TypeOK, Pass
<1>5. Trailed(loop.seen[n]) \in Order
    BY <1>4, TrailedFacts DEF IInv
<1>6. kept \in Order /\ kept.entry = orders[n].entry
    <2> HIDE DEF n
    <2> QED BY <1>4, <1>5, KeptFacts
<1>7. /\ row \in Order /\ row.status = "CLOSED" /\ row.entry = orders[n].entry
      /\ row.exit = loop.price
    <2> HIDE DEF n, kept
    <2> QED BY <1>2, <1>6, ClosedFacts
<1>8. orders' = [orders EXCEPT ![n] = row] /\ orders[n].status = "OPEN"
    OBVIOUS
<1>9. loop.price > 0
    BY <1>2, OrdersAssumption
<1> HIDE DEF n, row
<1> USE DEF IInv
<1>10. orders'[n] = row /\ \A o \in Orders : o # n => orders'[o] = orders[o]
    BY <1>1, <1>8 DEF TypeOK
<1>11. TypeOK'
    BY <1>2, <1>7, <1>8 DEF TypeOK
<1>12. got[n] = 0 /\ orders[n] # NoOrder
    BY <1>1, <1>8, NoOrderFacts DEF RowInv
<1>13. RowInv'
    BY <1>1, <1>7, <1>8, <1>10, <1>12 DEF RowInv
<1>14. OwedInv'
    BY <1>2, <1>3, <1>10 DEF OwedInv, LoopCredits, RequestCredits
<1>15. WorkInv'
    BY <1>1, <1>2, <1>9, OrdersAssumption DEF WorkInv
<1>16. ListedInv'
    BY <1>2, <1>7, <1>10 DEF ListedInv, WorkInv
<1>17. LoopDue' /\ OpeningInv'
    BY <1>2, <1>3, <1>7, <1>10, <1>12 DEF LoopDue, OpeningInv, Due
<1>18. InsertInv' /\ JobInv'
    BY <1>10, <1>12 DEF InsertInv, Reserved, JobInv, Premiums
<1>19. \A r \in Requests : request[r].at \in {"credit", "crediting"} => request[r].on # n
    BY <1>1, <1>8, OrdersAssumption DEF RequestDue, Due
<1>20. RequestDue'
    BY <1>10, <1>19 DEF RequestDue, Due, TypeOK, Job
<1>21. ApartInv'
    BY <1>2, <1>3, <1>19 DEF ApartInv, LoopCredits, RequestCredits
<1>22. OneAutoPerEngine'
    BY <1>7, <1>10 DEF OneAutoPerEngine
<1> QED BY <1>11, <1>13, <1>14, <1>15, <1>16, <1>17, <1>18, <1>20, <1>21, <1>22

\* Manage looks at a row and leaves it.
LEMMA LeaveStep ==
    ASSUME IInv, loop.at = "manage", loop.todo # {}, loop' = Done,
           UNCHANGED <<orders, paid, got, broken, request>>, UNCHANGED <<wallet, cooling, spent>>
    PROVE  IInv'
<1>1. loop' \in Pass /\ WorkInv' /\ loop'.at = "manage" /\ loop'.todo = loop.todo \ {First}
    BY DoneFacts
<1>2. TypeOK' /\ RowInv'
    BY <1>1 DEF IInv, TypeOK, RowInv
<1>3. OwedInv'
    BY DEF IInv, OwedInv, LoopCredits, RequestCredits
<1>4. ListedInv' /\ LoopDue' /\ OpeningInv'
    BY <1>1 DEF IInv, ListedInv, LoopDue, OpeningInv
<1>5. ApartInv'
    BY <1>1 DEF IInv, ApartInv, LoopCredits, RequestCredits
<1> QED BY <1>1, <1>2, <1>3, <1>4, <1>5, OnlyLoopMoves DEF IInv

LEMMA ManageStep ==
    ASSUME IInv, Manage
    PROVE  IInv'
<1> DEFINE t == Trailed(loop.seen[First])
<1>1. /\ loop.at = "manage" /\ loop.todo # {}
      /\ UNCHANGED <<wallet, cooling, request, paid, got, broken, spent>>
    BY DEF Manage, Managing
<1>2. PICK near, late \in BOOLEAN :
        IF loop.price = 0 \/ orders[First].status # "OPEN" THEN orders' = orders /\ loop' = Done
        ELSE IF Reason(t, near, late) = "none"
        THEN orders' = [orders EXCEPT ![First] = Kept(@, t)] /\ loop' = Done
        ELSE /\ orders' = [orders EXCEPT ![First] = Closed(Kept(@, t), loop.price, Reason(t, near, late))]
             /\ loop' = [loop EXCEPT !.at = "credit"]
    BY DEF Manage
<1>3. CASE loop.price = 0 \/ orders[First].status # "OPEN"
    BY <1>1, <1>2, <1>3, LeaveStep
<1>4. CASE loop.price # 0 /\ orders[First].status = "OPEN" /\ Reason(t, near, late) = "none"
    BY <1>1, <1>2, <1>4, KeepStep
<1>5. CASE loop.price # 0 /\ orders[First].status = "OPEN" /\ Reason(t, near, late) # "none"
    <2>1. Reason(t, near, late) \in Reasons
        BY DEF Reason, Reasons
    <2> QED BY <1>1, <1>2, <1>5, <2>1, CloseStep
<1> QED BY <1>3, <1>4, <1>5

LEMMA LoopCreditReadStep ==
    ASSUME IInv, LoopCreditRead
    PROVE  IInv'
<1>1. /\ loop.at = "credit" /\ UNCHANGED <<orders, paid, got, broken, request>>
      /\ UNCHANGED <<wallet, cooling, spent>>
      /\ loop' = [loop EXCEPT !.at = "crediting", !.balance = wallet[loop.seen[First].user]]
    BY DEF LoopCreditRead
<1>2. wallet[loop.seen[First].user] \in Nat
    BY <1>1, InHand DEF IInv, TypeOK
<1>3. /\ loop' \in Pass /\ loop'.at = "crediting" /\ loop'.todo = loop.todo /\ loop'.seen = loop.seen
      /\ loop'.price = loop.price
    <2> HIDE DEF First
    <2> QED BY <1>1, <1>2 DEF IInv, TypeOK, Pass
<1>4. First' = First
    BY <1>3 DEF First
<1> USE DEF IInv
<1>5. TypeOK' /\ RowInv'
    BY <1>1, <1>3, <1>4 DEF TypeOK, RowInv
<1>6. OwedInv' /\ ApartInv'
    BY <1>1, <1>3, <1>4 DEF OwedInv, ApartInv, LoopCredits, RequestCredits
<1>7. WorkInv' /\ ListedInv' /\ LoopDue' /\ OpeningInv'
    BY <1>1, <1>3, <1>4, OrdersAssumption DEF WorkInv, ListedInv, LoopDue, OpeningInv, Due
<1> QED BY <1>1, <1>5, <1>6, <1>7, OnlyLoopMoves

LEMMA LoopCreditWriteStep ==
    ASSUME IInv, LoopCreditWrite
    PROVE  IInv'
<1> USE DEF IInv
<1> DEFINE n == First
           t == loop.seen[n]
<1>1. /\ loop.at = "crediting" /\ UNCHANGED <<orders, request, paid, broken, spent>> /\ loop' = Done
      /\ wallet' = [wallet EXCEPT ![t.user] = Credited(loop.balance, loop.price)]
      /\ got' = [got EXCEPT ![n] = @ + loop.price]
    BY DEF LoopCreditWrite
<1>2. n \in loop.todo /\ n \in Orders /\ t.user \in Users /\ loop.todo # {}
    BY <1>1, InHand DEF WorkInv
<1>3. loop' \in Pass /\ WorkInv' /\ loop'.at = "manage" /\ loop'.todo = loop.todo \ {n}
    BY <1>1, <1>2, DoneFacts
<1>4. Due(n, loop.price) /\ loop.price \in Nat /\ loop.price > 0
    BY <1>1, OrdersAssumption DEF LoopDue, WorkInv, TypeOK, Pass
<1>5. loop.balance \in Nat /\ loop.price \in Int
    BY OrdersAssumption DEF TypeOK, Pass
<1>6. Credited(loop.balance, loop.price) \in Nat
    BY <1>5, CreditedFacts
<1>7. t.source # "MANUAL" => t.source \in Engines
    BY <1>2 DEF TypeOK, Pass, Order, Sources
<1>8. cooling' \subseteq Users \X Engines
    <2>1. cooling' = cooling \/ (t.source # "MANUAL" /\ cooling' = cooling \cup {<<t.user, t.source>>})
        BY DEF LoopCreditWrite
    <2>2. t.source # "MANUAL" => <<t.user, t.source>> \in Users \X Engines
        BY <1>2, <1>7
    <2> QED BY <2>1, <2>2 DEF TypeOK
<1> HIDE DEF n, t
<1>9. wallet' \in [Users -> Nat] /\ got' \in [Orders -> Int]
    BY <1>1, <1>2, <1>4, <1>6 DEF TypeOK
<1>10. TypeOK'
    BY <1>1, <1>3, <1>8, <1>9 DEF TypeOK
<1>11. got'[n] = got[n] + loop.price /\ \A o \in Orders : o # n => got'[o] = got[o]
    BY <1>1, <1>2 DEF TypeOK
<1>12. got[n] = 0 => got'[n] = loop.price
    BY <1>4, <1>11
<1>13. RowInv'
    BY <1>1, <1>4, <1>11, <1>12 DEF RowInv, Due
<1>14. orders[n].status = "CLOSED" => got'[n] # 0
    BY <1>4, <1>12 DEF Due
<1>15. \A o \in Orders : LoopCredits(o) => o = n
    BY DEF LoopCredits, n
<1>16. OwedInv'
    BY <1>1, <1>11, <1>14, <1>15 DEF OwedInv, RequestCredits
<1>17. ListedInv' /\ LoopDue' /\ OpeningInv'
    BY <1>1, <1>3 DEF ListedInv, LoopDue, OpeningInv
<1>18. InsertInv' /\ JobInv'
    BY <1>1 DEF InsertInv, Reserved, JobInv, Premiums
<1>19. \A r \in Requests : ~RequestCredits(r, n)
    BY <1>1, <1>2 DEF ApartInv, LoopCredits, n
<1>20. RequestDue'
    BY <1>1, <1>11, <1>19 DEF RequestDue, Due, RequestCredits, TypeOK, Job
<1>21. ApartInv'
    BY <1>1, <1>3 DEF ApartInv, LoopCredits, RequestCredits
<1>22. OneAutoPerEngine'
    BY <1>1 DEF OneAutoPerEngine
<1> QED BY <1>3, <1>10, <1>13, <1>16, <1>17, <1>18, <1>20, <1>21, <1>22

LEMMA NextEngineStep ==
    ASSUME IInv, NextEngine
    PROVE  IInv'
<1> USE DEF IInv
<1> DEFINE e == After(loop.at)
<1>1. /\ loop.at \in {"manage"} \cup Engines /\ UNCHANGED <<orders, paid, got, broken, request>>
      /\ UNCHANGED <<wallet, cooling, spent>>
    BY DEF NextEngine
<1>2. loop.at \notin {"fill", "filling", "credit", "crediting", "opening"}
    BY <1>1, OrdersAssumption
<1>3. loop'.at = "out" \/ (loop'.at \in Engines /\ loop'.todo \subseteq Users
                           /\ (loop'.todo # {} => loop'.price > 0))
    <2>1. CASE e = "out"
        BY <2>1, RestFacts DEF NextEngine
    <2>2. CASE e # "out"
        <3>1. PICK users \in SUBSET Users :
                loop' = [loop EXCEPT !.at = e, !.expiry = 0, !.todo = IF loop.price # 0 THEN users ELSE {}]
            BY <2>2 DEF NextEngine, OptedIn
        <3>2. e \in Engines
            BY <2>2 DEF After
        <3>3. loop.price \in Nat
            BY OrdersAssumption DEF TypeOK, Pass
        <3>4. loop'.at = e /\ loop'.todo \in SUBSET users /\ loop'.price = loop.price
              /\ (loop'.todo # {} => loop.price # 0)
            <4> HIDE DEF e
            <4> QED BY <3>1 DEF TypeOK, Pass
        <3> QED BY <3>2, <3>3, <3>4
    <2> QED BY <2>1, <2>2
<1>4. loop' \in Pass
    <2>1. CASE e = "out"
        BY <2>1, RestFacts DEF NextEngine
    <2>2. CASE e # "out"
        <3>1. PICK users \in SUBSET Users :
                loop' = [loop EXCEPT !.at = e, !.expiry = 0, !.todo = IF loop.price # 0 THEN users ELSE {}]
            BY <2>2 DEF NextEngine, OptedIn
        <3>2. e \in Engines /\ 0 \in 0..MaxContracts
            BY <2>2, OrdersAssumption DEF After
        <3> HIDE DEF e
        <3> QED BY <3>1, <3>2 DEF TypeOK, Pass
    <2> QED BY <2>1, <2>2
<1>5. TypeOK'
    BY <1>1, <1>4 DEF TypeOK
<1>6. RowInv'
    BY <1>1, <1>2 DEF RowInv
<1>7. OwedInv'
    BY <1>1, <1>2 DEF OwedInv, LoopCredits, RequestCredits
<1>8. loop'.at \notin {"fill", "filling", "manage", "credit", "crediting", "opening"}
    BY <1>3, OrdersAssumption
<1>9. WorkInv' /\ ListedInv' /\ LoopDue' /\ OpeningInv'
    BY <1>3, <1>8, OrdersAssumption DEF WorkInv, ListedInv, LoopDue, OpeningInv
<1>10. ApartInv'
    BY <1>1, <1>8 DEF ApartInv, LoopCredits, RequestCredits
<1> QED BY <1>1, <1>5, <1>6, <1>7, <1>9, <1>10, OnlyLoopMoves

LEMMA FanoutDebitStep ==
    ASSUME IInv, FanoutDebit
    PROVE  IInv'
<1> USE DEF IInv
<1> DEFINE e == loop.at
<1>1. e \in Engines /\ UNCHANGED <<orders, cooling, request, got, broken, spent>>
    BY DEF FanoutDebit
<1>2. e \notin {"fill", "filling", "manage", "credit", "crediting", "opening", "out"}
    BY <1>1, OrdersAssumption
<1>3. PICK u \in loop.todo :
        IF <<u, e>> \in cooling \/ HasLive(u, e) \/ ~Affords(u, loop.price)
        THEN loop' = [loop EXCEPT !.todo = @ \ {u}] /\ UNCHANGED <<wallet, paid>>
        ELSE /\ \E o \in Orders : Free(o)
             /\ Debit(u, NextId, loop.price)
             /\ loop' = [loop EXCEPT !.at = "opening", !.on = NextId,
                                     !.seen = [@ EXCEPT ![NextId] = [NoOrder EXCEPT !.user = u, !.source = e]]]
    BY DEF FanoutDebit
<1>4. loop.todo \subseteq Users /\ loop.price > 0 /\ loop.price \in Nat
    BY <1>1, <1>3, OrdersAssumption DEF WorkInv, TypeOK, Pass
<1>5. CASE <<u, e>> \in cooling \/ HasLive(u, e) \/ ~Affords(u, loop.price)
    <2>1. loop' = [loop EXCEPT !.todo = @ \ {u}] /\ UNCHANGED <<wallet, paid>>
        BY <1>3, <1>5
    <2>2. loop' \in Pass /\ loop'.at = loop.at /\ loop'.todo = loop.todo \ {u} /\ loop'.price = loop.price
        BY <2>1 DEF TypeOK, Pass
    <2>3. TypeOK'
        BY <1>1, <2>1, <2>2 DEF TypeOK
    <2>4. RowInv'
        BY <1>1, <1>2, <2>1 DEF RowInv
    <2>5. OwedInv'
        BY <1>1, <1>2 DEF OwedInv, LoopCredits, RequestCredits
    <2>6. WorkInv' /\ ListedInv' /\ LoopDue' /\ OpeningInv'
        BY <1>2, <1>4, <2>2 DEF WorkInv, ListedInv, LoopDue, OpeningInv
    <2>7. ApartInv'
        BY <1>1, <1>2, <2>2 DEF ApartInv, LoopCredits, RequestCredits
    <2> QED BY <1>1, <2>1, <2>3, <2>4, <2>5, <2>6, <2>7, OnlyLoopMoves
<1>6. CASE ~(<<u, e>> \in cooling \/ HasLive(u, e) \/ ~Affords(u, loop.price))
    <2> DEFINE n == NextId
               row == [NoOrder EXCEPT !.user = u, !.source = e]
    <2>1. n \in Orders /\ orders[n] = NoOrder /\ orders[n].status = "none" /\ paid[n] = 0
        BY <1>3, <1>6, NextIdFacts
    <2>2. /\ loop' = [loop EXCEPT !.at = "opening", !.on = n, !.seen = [@ EXCEPT ![n] = row]]
          /\ wallet' = [wallet EXCEPT ![u] = @ - loop.price]
          /\ paid' = [paid EXCEPT ![n] = @ + loop.price]
        BY <1>3, <1>6 DEF Debit
    <2>3. u \in Users /\ wallet[u] >= loop.price /\ ~HasLive(u, e)
        BY <1>3, <1>4, <1>6 DEF Affords
    <2>4. row \in Order /\ row.user = u /\ row.source = e
        BY <1>1, <2>3, NoOrderFacts DEF Order, Sources
    <2> HIDE DEF n, row
    <2>5. /\ loop' \in Pass /\ loop'.at = "opening" /\ loop'.todo = loop.todo /\ loop'.on = n
          /\ loop'.price = loop.price /\ loop'.seen[n] = row
        BY <2>1, <2>2, <2>4 DEF TypeOK, Pass
    <2>6. wallet' \in [Users -> Nat] /\ paid' \in [Orders -> Nat]
        BY <1>4, <2>1, <2>2, <2>3 DEF TypeOK
    <2>7. TypeOK'
        BY <1>1, <2>5, <2>6 DEF TypeOK
    <2>8. paid'[n] = loop.price /\ \A o \in Orders : o # n => paid'[o] = paid[o]
        BY <1>4, <2>1, <2>2 DEF TypeOK
    <2>9. RowInv'
        BY <1>1, <1>2, <2>1, <2>8 DEF RowInv
    <2>10. OwedInv'
        BY <1>1, <1>2 DEF OwedInv, LoopCredits, RequestCredits
    <2>11. WorkInv' /\ ListedInv' /\ LoopDue'
        BY <1>4, <2>5 DEF WorkInv, ListedInv, LoopDue
    <2>13. OpeningInv'
        BY <1>1, <1>4, <2>1, <2>3, <2>4, <2>5, <2>8 DEF OpeningInv, Reserved, HasLive
    <2>14. \A r \in Requests : request[r].at = "insert" => request[r].on # n
        BY <2>1 DEF InsertInv, Reserved
    <2>15. InsertInv' /\ JobInv' /\ RequestDue'
        BY <1>1, <2>8, <2>14 DEF InsertInv, Reserved, JobInv, Premiums, RequestDue, Due
    <2>16. ApartInv'
        BY <1>1, <2>5, <2>14 DEF ApartInv, LoopCredits, RequestCredits
    <2>17. OneAutoPerEngine'
        BY <1>1 DEF OneAutoPerEngine
    <2> QED BY <2>7, <2>9, <2>10, <2>11, <2>13, <2>15, <2>16, <2>17
<1> QED BY <1>5, <1>6

LEMMA FanoutInsertStep ==
    ASSUME IInv, FanoutInsert
    PROVE  IInv'
<1> USE DEF IInv
<1> DEFINE n == loop.on
           t == loop.seen[n]
<1>1. loop.at = "opening" /\ UNCHANGED <<wallet, cooling, request, paid, got, broken, spent>>
    BY DEF FanoutInsert
<1>2. /\ n \in Orders /\ orders[n] = NoOrder /\ orders[n].status = "none" /\ paid[n] = loop.price
      /\ loop.price > 0 /\ t.user \in Users /\ t.source \in Engines /\ ~HasLive(t.user, t.source)
    BY <1>1, NoOrderFacts DEF OpeningInv, Reserved
<1>3. t \in Order /\ loop \in Pass
    BY <1>2 DEF TypeOK, Pass
<1>4. PICK terms \in Terms :
        orders' = [orders EXCEPT ![n] =
                     [t EXCEPT !.status = "OPEN", !.entry = loop.price, !.target = terms.target,
                               !.sl = terms.sl, !.trailing = (t.source = "SWING")]]
    BY DEF FanoutInsert
<1> DEFINE row == [t EXCEPT !.status = "OPEN", !.entry = loop.price, !.target = terms.target,
                            !.sl = terms.sl, !.trailing = (t.source = "SWING")]
<1>5. terms.target \in Nat /\ terms.sl \in Nat
    BY OrdersAssumption
<1>6. /\ row \in Order /\ row.status = "OPEN" /\ row.entry = loop.price /\ row.user = t.user
      /\ row.source = t.source
    <2> HIDE DEF t
    <2> QED BY <1>3, <1>5 DEF Order, Pass, Statuses
<1>7. loop' = [loop EXCEPT !.at = t.source, !.todo = @ \ {t.user}, !.on = 0, !.seen[n] = NoOrder]
    BY DEF FanoutInsert
<1> HIDE DEF t, n, row
<1>8. orders' = [orders EXCEPT ![n] = row]
    BY <1>4 DEF row
<1>9. loop' = [loop EXCEPT !.at = t.source, !.todo = @ \ {t.user}, !.on = 0,
                           !.seen = [loop.seen EXCEPT ![n] = NoOrder]]
    BY <1>3, <1>7 DEF Pass
<1>10. [loop.seen EXCEPT ![n] = NoOrder] \in [Orders -> Order]
    BY <1>2, <1>3, NoOrderFacts DEF Pass
<1>11. /\ loop' \in Pass /\ loop'.at = t.source /\ loop'.todo = loop.todo \ {t.user}
       /\ loop'.price = loop.price
    BY <1>2, <1>3, <1>9, <1>10 DEF Pass
<1>12. t.source \notin {"fill", "filling", "manage", "credit", "crediting", "opening", "out", "MANUAL"}
    BY <1>2, OrdersAssumption
<1>13. orders'[n] = row /\ \A o \in Orders : o # n => orders'[o] = orders[o]
    BY <1>2, <1>8 DEF TypeOK
<1>14. TypeOK'
    BY <1>1, <1>6, <1>8, <1>11 DEF TypeOK
<1>15. got[n] = 0
    BY <1>2 DEF RowInv
<1>16. RowInv'
    BY <1>1, <1>2, <1>6, <1>13, <1>15 DEF RowInv
<1>17. OwedInv'
    BY <1>1, <1>2, <1>6, <1>13 DEF OwedInv, LoopCredits, RequestCredits
<1>18. WorkInv' /\ ListedInv' /\ LoopDue' /\ OpeningInv'
    BY <1>1, <1>2, <1>11, <1>12 DEF WorkInv, ListedInv, LoopDue, OpeningInv
<1>19. \A r \in Requests : request[r].at = "insert" => request[r].on # n
    BY <1>1 DEF ApartInv, n
<1>20. InsertInv' /\ JobInv'
    BY <1>1, <1>13, <1>19 DEF InsertInv, Reserved, JobInv, Premiums
<1>21. RequestDue'
    BY <1>1, <1>2, <1>13 DEF RequestDue, Due, TypeOK, Job
<1>22. ApartInv'
    BY <1>1, <1>11, <1>12 DEF ApartInv, LoopCredits, RequestCredits
<1>23. \A o \in Orders : orders[o].status = "OPEN" /\ orders[o].source = t.source => orders[o].user # t.user
    BY <1>2 DEF HasLive
<1>24. OneAutoPerEngine'
    BY <1>6, <1>13, <1>23 DEF OneAutoPerEngine
<1> QED BY <1>14, <1>16, <1>17, <1>18, <1>20, <1>21, <1>22, <1>24

-----------------------------------------------------------------------------
(* The theorems.                                                           *)

LEMMA LoopStepInv == ASSUME IInv, LoopStep PROVE IInv'
BY BeginPassStep, FillDebitStep, FillUpdateStep, SelectOpenStep, BackfillStep, RolloverStep,
   ManageStep, LoopCreditReadStep, LoopCreditWriteStep, NextEngineStep, FanoutDebitStep,
   FanoutInsertStep DEF LoopStep

LEMMA AskedInv == ASSUME IInv, Asked PROVE IInv'
BY EnterRestingStep, EnterDebitStep, AdjustStep, ExitReadStep, EditReadStep, CancelStep, DeleteStep
   DEF Asked

LEMMA ServeInv == ASSUME IInv, NEW r \in Requests, Serve(r) PROVE IInv'
BY EnterInsertStep, ExitWriteStep, CreditReadStep, CreditWriteStep, EditWriteStep DEF Serve

LEMMA StutterInv == ASSUME IInv, UNCHANGED vars PROVE IInv'
<1>1. UNCHANGED <<orders, loop, paid, got, broken>> /\ UNCHANGED <<wallet, cooling, request, spent>>
    BY DEF vars
<1>2. TypeOK' /\ OwedInv' /\ ApartInv'
    BY <1>1 DEF IInv, TypeOK, OwedInv, ApartInv, LoopCredits, RequestCredits, First
<1>3. InsertInv' /\ JobInv' /\ RequestDue'
    BY <1>1, OnlyLoopMoves
<1> QED BY <1>1, <1>2, <1>3, RowsAndLoopKept DEF IInv

\* The inductive invariant: for any number of users, requests, orders and faults, a row, the
\* place of the loop and the places of the requests agree on what was paid, is owed and was
\* credited.
THEOREM PaperOrdersInvariant == Spec => []IInv
<1>1. IInv /\ [Next]_vars => IInv'
    BY LoopStepInv, AskedInv, ServeInv, RequestRaisesStep, CooldownEndsStep, PassRaisesStep,
       RestartStep, StutterInv DEF Next
<1> QED BY InitInv, <1>1, PTL DEF Spec

\* Orders, wallets, cooldowns, the loop and the requests keep their types; no wallet is ever
\* below zero.
THEOREM PaperOrdersTypeOK == Spec => []TypeOK
<1>1. IInv => TypeOK
    BY DEF IInv
<1> QED BY <1>1, PaperOrdersInvariant, PTL

\* Whatever interleaves, a position held cost its user its entry premium, once, and an order
\* that waits has cost nothing, unless an error cut its fill short.
THEOREM PaidForWhatIsHeldTheorem == Spec => []PaidForWhatIsHeld
<1>1. ASSUME IInv PROVE PaidForWhatIsHeld
    BY <1>1 DEF IInv, RowInv, PaidForWhatIsHeld, LoopOwes
<1> QED BY <1>1, PaperOrdersInvariant, PTL

\* What an order is due is credited exactly once: the loop and the requests never both settle
\* it, and proceeds that are not credited yet have somebody who is about to.
THEOREM ProceedsPaidOnceTheorem == Spec => []ProceedsPaidOnce
<1>1. ASSUME IInv PROVE ProceedsPaidOnce
    <2>1. SettledOnce
        BY <1>1 DEF IInv, RowInv, SettledOnce
    <2>2. ProceedsAreOwed
        <3> SUFFICES ASSUME NEW o \in Orders \ broken, orders[o].status = "CLOSED",
                            orders[o].reason # "EXPIRED", got[o] = 0
                     PROVE  o \in LoopOwes \cup UNION {RequestOwes(r) : r \in Requests}
            BY DEF ProceedsAreOwed
        <3>1. CASE LoopCredits(o)
            BY <1>1, <3>1, LoopOwesFacts
        <3>2. ASSUME NEW r \in Requests, RequestCredits(r, o) PROVE o \in RequestOwes(r)
            BY <3>2, OrdersAssumption DEF RequestCredits, RequestOwes
        <3> QED BY <1>1, <3>1, <3>2 DEF IInv, OwedInv
    <2> QED BY <2>1, <2>2 DEF ProceedsPaidOnce
<1> QED BY <1>1, PaperOrdersInvariant, PTL

\* However long a trigger stays true, and however many requests and engines there are, a user
\* never has two open AUTO orders of one engine.
THEOREM OneAutoPerEngineTheorem == Spec => []OneAutoPerEngine
<1>1. IInv => OneAutoPerEngine
    BY DEF IInv
<1> QED BY <1>1, PaperOrdersInvariant, PTL

\* A settled row is written by nothing but its deletion, as far as its outcome and its
\* premiums go, whatever the loop and the requests still do about it.
THEOREM SettledIsHistoryTheorem == Spec => SettledIsHistory
<1> DEFINE Settled(o) == orders[o].status \in {"CLOSED", "CANCELLED"}
           Same(o) == /\ orders'[o].status = orders[o].status
                      /\ orders'[o].entry = orders[o].entry /\ orders'[o].exit = orders[o].exit
           Safe == \A o \in Orders : Settled(o) /\ orders'[o].status # "deleted" => Same(o)
<1>1. ASSUME IInv, Next PROVE Safe
    <2>1. orders \in [Orders -> Order] /\ NoOrder.status = "none"
        BY <1>1, NoOrderFacts DEF IInv, TypeOK
    <2>2. CASE UNCHANGED orders
        BY <2>2
    <2>3. ASSUME NEW n \in Orders, NEW row, orders' = [orders EXCEPT ![n] = row], ~Settled(n)
          PROVE  Safe
        BY <2>1, <2>3
    <2>4. CASE LoopStep
        <3>1. CASE Backfill
            <4>1. First \in Orders
                BY <1>1, <3>1, FirstFacts DEF IInv, Backfill, LacksExpiry
            <4>2. \A o \in Orders : Same(o)
                BY <2>1, <3>1, <4>1 DEF Backfill, Order
            <4> QED BY <4>2
        <3>2. CASE FillUpdate
            <4>1. First \in Orders
                BY <1>1, <3>2, InHand DEF IInv, FillUpdate
            <4>2. CASE orders[First].status = "PENDING"
                BY <2>3, <3>2, <4>1, <4>2 DEF FillUpdate
            <4> QED BY <2>2, <3>2, <4>2 DEF FillUpdate
        <3>3. CASE Rollover
            <4>1. First \in Orders
                BY <1>1, <3>3, FirstFacts DEF IInv, Rollover, Managing
            <4>2. CASE orders[First].status = "OPEN"
                BY <2>2, <2>3, <3>3, <4>1, <4>2 DEF Rollover
            <4> QED BY <2>2, <3>3, <4>2 DEF Rollover
        <3>4. CASE Manage
            <4>1. First \in Orders
                BY <1>1, <3>4, FirstFacts DEF IInv, Manage, Managing
            <4>2. CASE orders[First].status = "OPEN"
                BY <2>2, <2>3, <3>4, <4>1, <4>2 DEF Manage
            <4> QED BY <2>2, <3>4, <4>2 DEF Manage
        <3>5. CASE FanoutInsert
            BY <1>1, <2>1, <2>3, <3>5 DEF FanoutInsert, IInv, OpeningInv, Reserved
        <3>6. CASE \/ BeginPass \/ FillDebit \/ SelectOpen \/ LoopCreditRead \/ LoopCreditWrite
                   \/ NextEngine \/ FanoutDebit
            BY <2>2, <3>6 DEF BeginPass, FillDebit, SelectOpen, LoopCreditRead, LoopCreditWrite,
                              NextEngine, FanoutDebit
        <3> QED BY <2>4, <3>1, <3>2, <3>3, <3>4, <3>5, <3>6 DEF LoopStep
    <2>5. ASSUME NEW r \in Requests, NEW u \in Users, EnterResting(r, u) PROVE Safe
        <3>1. NextId \in Orders /\ orders[NextId].status = "none"
            BY <1>1, <2>5, NextIdFacts DEF IInv, EnterResting
        <3> QED BY <2>3, <2>5, <3>1 DEF EnterResting
    <2>6. ASSUME NEW o \in Orders, Cancel(o) PROVE Safe
        BY <2>3, <2>6 DEF Cancel
    <2>7. ASSUME NEW o \in Orders, Delete(o) PROVE Safe
        BY <2>1, <2>7 DEF Delete
    <2>8. ASSUME NEW r \in Requests, Serve(r) PROVE Safe
        <3>1. CASE EnterInsert(r)
            BY <1>1, <2>1, <2>3, <3>1 DEF EnterInsert, IInv, InsertInv, Reserved
        <3>2. CASE ExitWrite(r)
            <4>1. request[r].on \in Orders
                BY <1>1, <3>2 DEF ExitWrite, IInv, JobInv
            <4>2. CASE orders[request[r].on].status = "OPEN"
                BY <2>3, <3>2, <4>1, <4>2 DEF ExitWrite
            <4> QED BY <2>2, <3>2, <4>2 DEF ExitWrite
        <3>3. CASE EditWrite(r)
            BY <2>1, <3>3 DEF EditWrite
        <3>4. CASE CreditRead(r) \/ CreditWrite(r)
            BY <2>2, <3>4 DEF CreditRead, CreditWrite
        <3> QED BY <2>8, <3>1, <3>2, <3>3, <3>4 DEF Serve
    <2>9. CASE Asked
        <3>1. ASSUME NEW r \in Requests, NEW u \in Users, EnterDebit(r, u) \/ Adjust(r, u) PROVE UNCHANGED orders
            BY <3>1 DEF EnterDebit, Adjust
        <3>2. ASSUME NEW r \in Requests, NEW o \in Orders, ExitRead(r, o) \/ EditRead(r, o) PROVE UNCHANGED orders
            BY <3>2 DEF ExitRead, EditRead
        <3> HIDE DEF Safe
        <3> QED BY <2>2, <2>5, <2>6, <2>7, <2>9, <3>1, <3>2 DEF Asked
    <2>10. CASE CooldownEnds \/ PassRaises \/ Restart \/ \E r \in Requests : RequestRaises(r)
        BY <2>2, <2>10 DEF CooldownEnds, PassRaises, Restart, RequestRaises
    <2> HIDE DEF Safe
    <2> QED BY <1>1, <2>4, <2>8, <2>9, <2>10 DEF Next
<1>2. IInv /\ [Next]_vars => [Safe]_orders
    BY <1>1 DEF vars
<1> QED BY <1>2, PaperOrdersInvariant, PTL DEF Spec, SettledIsHistory
=============================================================================
