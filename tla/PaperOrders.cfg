\* One user, one request beside the loop, one engine that fans out, two orders, one fault.
CONSTANTS
    Users = {u1}
    Requests = {r1}
    Orders = {1, 2}
    Engines = {"SCALP"}
    NoUser = none
    MaxPremium = 3
    Start = 2
    Terms <- SomeTerms
    TopUps <- Withdrawal
    Breakeven = 30
    Trail = 60
    Giveback = 30
    MaxContracts = 2
    MaxRare = 1
SPECIFICATION Spec
INVARIANTS TypeOK   OneAutoPerEngine
PROPERTIES SettledIsHistory
CHECK_DEADLOCK FALSE
