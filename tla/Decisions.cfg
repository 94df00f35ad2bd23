CONSTANTS
    Exercised = {"level", "entering", "v3", "learn", "oi", "trend", "evidence", "cloud",
             "qualify"}
    Nothing = Nothing
SPECIFICATION Spec
PROPERTIES SetupsAreEarned SignalsAreFounded
CHECK_DEADLOCK FALSE
