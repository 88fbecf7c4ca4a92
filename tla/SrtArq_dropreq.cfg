CONSTANTS
    Modulus = 16
    isn = 14
    max_flow_window = 2
    tsbpd_delay = 1
    DeliverCapacity = 1
    DropReqsAhead = TRUE
    MaxSent = 4
    MaxTime = 4
    MaxResends = 1
    MaxDropReqs = 1
SPECIFICATION Spec
CHECK_DEADLOCK FALSE
INVARIANT NeverStalled
