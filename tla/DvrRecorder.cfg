CONSTANTS
    Exts = {".m4s", ".ts"}
    Policies = {"Stall", "Gap", "Terminate"}
    Faults = {"open", "head", "write", "sync", "index", "remove", "crash"}
    retention_periods = 1
    RetentionBytes = {0, 3}
    MaxLives = 2
    MaxSegments = 2
    MaxInits = 2
    MaxFaults = 1
    MaxRolls = 1
SPECIFICATION Spec
CONSTRAINTS
    ReadAcrossEviction
    PoliciesWithTs
CHECK_DEADLOCK FALSE
INVARIANTS
    CatchupSound
    ArchiveAscending
    RetentionSound
PROPERTIES
    EntriesOnlyEvicted
