SPECIFICATION Spec
CONSTANTS
    Submits = {s}
    s = s
    a = a
    b = b
    Lookups = {a, b}
    Oversize = {}
    HubCount = 2
    ReqCap = 1
    OutCap = 1
    InCap = 1
    None = None
SYMMETRY LookupSymmetry
INVARIANTS TypeOK AnswerIsCurrent VerdictMatchesHandOff GoneMeansGone CountCoversWaiting
PROPERTY WaitersAreKept
CHECK_DEADLOCK FALSE
