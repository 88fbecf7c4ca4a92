CONSTANTS
    r1 = r1
    r2 = r2
    Requests = {r1, r2}
    Breaks = {1}
    SegmentCapacity = 1
    PartCapacity = 1
    WindowCapacity = 2
    InitHistory = 2
    PartRetention = 1
    MaxSegments = 3
    MaxParts = 2
    MaxInits = 3
    MaxQueued = 1
SPECIFICATION Spec
SYMMETRY Alike
CONSTRAINTS
    ReadAlone
    InitsTakeTurns
    LastInitSimple
ACTION_CONSTRAINT HeldUpSimple
CHECK_DEADLOCK FALSE
INVARIANTS
    DrainComplete
    ListedIsServed
    PlaylistHonest
    RefusedIsOver
    
PROPERTIES
    DiscontinuityStable
