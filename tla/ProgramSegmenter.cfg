CONSTANTS
    c1 = c1
    p1 = p1
    Me = p1
    Publishers = {p1}
    Cursors = {c1}
    Policies = {"StallIngest"}
    Calls = {"try_publish_segment", "expire_stalled_pins"}
    Capacity = 1
    Containers = {"Fmp4", "MpegTs"}
    PartCapacity = 3
    QueueCap = 2
    MaxParts = 1
    MaxCut = 4
    MaxSeq = 9
    MaxPublished = 9
SPECIFICATION FairSegmenterSpec
INVARIANTS
    StreamPreserved
    LiveEdgeExact
    QueueSound
PROPERTIES
    BacklogDrains
