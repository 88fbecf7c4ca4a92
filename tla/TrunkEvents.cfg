CONSTANTS
    r1 = r1
    EventCapacity = 2
    Readers = {r1}
    Segments = {1, 3}
    Starts = {1, 3}
    Deltas = {0, 4}
    UtcTimes = {0, 2}
    TimeAnchors <- TwoAnchors
    TicksPerMs = 2
    MaxMedia = 5
    MaxEvents = 3
    MaxNotes = 3
SPECIFICATION Spec
INVARIANTS
    ResolvedRight
    OneSegmentPerEvent
PROPERTIES
    ResolvedForGood
