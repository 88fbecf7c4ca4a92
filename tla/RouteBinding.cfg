CONSTANTS
    Kinds = {"pull", "listen"}
    Programs = {1, 2}
    Followers = {"push"}
    max_sessions = 2
    archive_floor = 3
    MAX_AUTH_ATTEMPTS_BEFORE_PERMANENT = 1
    MAX_DESCRIBE_NOT_FOUND_BEFORE_PERMANENT = 1
    MaxSessions = 3
    MaxAttempts = 3
    MaxWrites = 2
SPECIFICATION Spec
CONSTRAINTS
    SessionsOrRefusals
    ThirdSessionOrSecondProgram
    MediaOnFirstProgram
CHECK_DEADLOCK FALSE
INVARIANTS
    PublisherSlots
    NoMissedRebind
    GivesUpExactly
PROPERTIES
    NoTakeover
    NumbersOnlyGrow
    EgressFollows
