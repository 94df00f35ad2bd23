\* The kill switch is set while a loop is between its check and the approval checkpoint.
CONSTANTS
    Workflows = {w1}
    Runners = {r1}
    Operators = {o1}
    NoWorkflow = none
    Policies = {"semi_auto", "emergency_stop"}
    MaxCalls = 0
    MaxCrashes = 0
SPECIFICATION Spec
PROPERTIES EmergencyStopPauses
CHECK_DEADLOCK FALSE
