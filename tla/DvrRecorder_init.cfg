CONSTANTS
    Exts = {".m4s"}
    Policies = {"Stall", "Gap", "Terminate"}
    Faults = {}
    retention_periods = 1
    RetentionBytes = {0, 3}
    MaxLives = 2
    MaxSegments = 3
    MaxInits = 2
    MaxFaults = 1
    MaxRolls = 1
SPECIFICATION Spec
CHECK_DEADLOCK FALSE
INVARIANT SelfContained
