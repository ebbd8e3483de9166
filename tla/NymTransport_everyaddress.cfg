SPECIFICATION Spec
CONSTANTS
    Submits = {s}
    s = s
    a = a
    Lookups = {a}
    Oversize = {}
    HubCount = 2
    ReqCap = 1
    OutCap = 1
    InCap = 1
    None = None
INVARIANT SubmitReachesEveryAddress
CHECK_DEADLOCK FALSE
