CONSTANTS
    c1 = c1
    c2 = c2
    p1 = p1
    p2 = p2
    Capacity = 2
    Publishers = {p1}
    Cursors = {c1, c2}
    Policies = {"Gap", "StallIngest", "Terminate"}
    Calls = {"publish_segment", "try_publish_segment", "expire_stalled_pins"}
    MaxSeq = 4
    MaxPublished = 4
SPECIFICATION FairSpec
INVARIANTS
    PinLossless
    NoLostWakeup
    SequenceMonotonic
PROPERTIES
    FeedSpec
    TerminateOnlyOnEviction
    StallEnds
