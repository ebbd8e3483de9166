SPECIFICATION FairSpec
CONSTANTS
    Never = Never
    Period = 1
    Backoff = 1
    RequestTimeout = 1
    LookupTimeout = 1
    ProbeInterval = 1
    SilentRounds = 1
    CmdCap = 2
    EvtCap = 2
    OutCap = 1
    BufferCap = 0
    Faults = {"silent", "dead"}
    DeathsCap = 0
    FailuresCap = 1
PROPERTIES IdentityExpires
CHECK_DEADLOCK FALSE
