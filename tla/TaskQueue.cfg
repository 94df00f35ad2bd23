\* One row, two scheduler loops with one pool thread each, one crash.
CONSTANTS
    Tasks = {t1}
    DevTrigger = dev
    Types = {dev, custom}
    Registered = {custom}
    Priorities = {0}
    Consumers = {c1, c2}
    NoTask = none
    MaxAttempts = 3
    PoolSize = 1
    MaxCrashes = 1
SPECIFICATION FairSpec
INVARIANTS TypeOK ExclusiveClaim  DeadIsExhausted RegisteredWorkRan
PROPERTIES ImplementsLifecycle EventuallySettled
CHECK_DEADLOCK FALSE
