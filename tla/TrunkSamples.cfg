CONSTANTS
    c1 = c1
    TimedCapacity = 2
    SparseCapacity = 1
    HandoverCapacity = 2
    Cursors = {c1}
    Subscriptions = {"subscribe", "subscribe_from_backlog"}
    MaxPublished = 3
    MaxGeneration = 3
SPECIFICATION Spec
INVARIANTS
    StreamInOrder
    NothingStuck
PROPERTIES
    LiveHandoverReported
