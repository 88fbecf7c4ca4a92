CONSTANTS
    r1 = r1
    r2 = r2
    p1 = p1
    p2 = p2
    Requesters = {r1}
    Pushers = {p1, p2}
    WaiterCap = 2
    MaxProgress = 2
SPECIFICATION FairSpec
INVARIANTS
    SlotsSound
    NoMissedProgress
PROPERTIES
    EveryWaitEnds
