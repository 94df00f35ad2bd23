\* One scheduled cycle, one dashboard read, a legacy trade and a new one, one
\* rollover, one abort.
CONSTANTS
    Cyclers = {c1}
    Viewers = {v1}
    Unknown = unknown
    LegacyTrades = 1
    MaxTrades = 2
    MaxContracts = 2
    MaxAborts = 1
SPECIFICATION Spec
INVARIANTS TypeOK  ExitFollowsClose EntriesOnOwnContract
PROPERTIES ExpirySticks NoPathBack
CHECK_DEADLOCK FALSE
