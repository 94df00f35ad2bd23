CONSTANTS
    Workflows = {w1}
    Runners = {r1}
    Operators = {o1, o2}
    NoWorkflow = none
    Policies = {"semi_auto", "full_auto", "emergency_stop"}
    MaxCalls = 2
    MaxCrashes = 1
SPECIFICATION FairSpec
INVARIANTS TypeOK StageWasEarned LessonsPerGrant
PROPERTIES EventuallyParked
CHECK_DEADLOCK FALSE
