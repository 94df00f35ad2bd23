\* Two workers of the app, a script beside them, three scheduler objects.
CONSTANTS
    Apps = {a1, a2}
    Scripts = {s1}
    Instances = {i1, i2, i3}
    NoOne = none
SPECIFICATION Spec
INVARIANTS TypeOK SchedulerHoldsLock AtMostOneWanted
PROPERTIES StopSticks
CHECK_DEADLOCK FALSE
