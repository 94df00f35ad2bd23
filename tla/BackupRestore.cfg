\* Two files are kept; the safety copy of a restore is one more.
CONSTANTS
    Retention = 2
    MaxRows = 1
    MaxBackups = 4
    MaxFaults = 0
    Nothing = Nothing
SPECIFICATION Spec
INVARIANTS RestoredIsSound
CHECK_DEADLOCK FALSE
