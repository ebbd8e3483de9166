SPECIFICATION Spec
CONSTANTS
    Never = Never
    Period = 1
    Backoff = 2
    RequestTimeout = 1
    LookupTimeout = 0
    ProbeInterval = 1
    SilentRounds = 2
    CmdCap = 2
    EvtCap = 2
    OutCap = 1
    BufferCap = 1
    Faults = {"signal", "transport", "silent", "dead"}
    DeathsCap = 0
    FailuresCap = 1
PROPERTY RotationSparesAcknowledged
CHECK_DEADLOCK FALSE
