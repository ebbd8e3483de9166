SPECIFICATION Spec
CONSTANTS
    Never = Never
    Period = 0
    Backoff = 2
    RequestTimeout = 1
    LookupTimeout = 2
    ProbeInterval = 1
    SilentRounds = 2
    CmdCap = 2
    EvtCap = 2
    OutCap = 1
    BufferCap = 0
    Faults = {"signal", "transport", "silent", "dead"}
    DeathsCap = 0
    FailuresCap = 1
INVARIANTS TypeOK NoMutualWait NoLostDeath StatusIsHonest
PROPERTIES DeferralCoversLookup RotationsKeepBackoff SilenceIsItsOwn
CHECK_DEADLOCK FALSE
