---------------------------- MODULE MCPaperOrders ----------------------------
(***************************************************************************)
(* TLC instances of the paper orders.                                      *)
(***************************************************************************)
EXTENDS PaperOrders

Asks(type, limit, target, sl, trailing) ==
    [type |-> type, limit |-> limit, target |-> target, sl |-> sl, trailing |-> trailing]

\* A resting order with a target, and a covered one that trails.
SomeTerms == {Asks("STOP", 2, 3, 0, FALSE), Asks("COVER", 0, 3, 1, TRUE)}

Withdrawal == {-2}
=============================================================================
