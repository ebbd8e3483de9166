SPECIFICATION ProcessSpec
CONSTANTS
    p1 = p1
    p2 = p2
    Peers = {p1, p2}
    h1 = h1
    h2 = h2
    Limit = 1
    Troubles = {"descriptors", "listener", "expiry"}
    Configurations <- EveryConfiguration
    Never = Never
    Period = Never
    Backoff = 1
    RequestTimeout = 0
    LookupTimeout = 0
    ProbeInterval = 1
    SilentRounds = 1
    CmdCap = 1
    EvtCap = 1
    OutCap = 1
    BufferCap = 0
    Faults = {"signal", "dead"}
    DeathsCap = 0
    FailuresCap = 1
INVARIANT CleanStop
CHECK_DEADLOCK FALSE
