SPECIFICATION FairSpec
CONSTANTS
    s = s
    big = big
    a = a
    Submits = {s, big}
    Lookups = {a}
    Oversize = {big}
    HubCount = 2
    ReqCap = 1
    OutCap = 1
    InCap = 1
    None = None
PROPERTIES CallsEnd InboundIsServed AbandonedAreSwept LoopEnds KeepsCallPromise
CHECK_DEADLOCK FALSE
