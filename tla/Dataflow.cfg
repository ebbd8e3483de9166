SPECIFICATION Spec
CONSTANTS
    FrameBytes = 65536
    AckBytes = 64
    LookupBytes = 64
    n1 = n1
    n2 = n2
    Nonces = {n1, n2}
    Bodies <- EveryBody
    Chain <- Mined
    Strays <- AlmostRight
INVARIANTS OperatorSeesOnlyUnderstood HeldIsServable
PROPERTIES OnlyGenuineFramesSettle
SYMMETRY NonceSymmetry
CHECK_DEADLOCK FALSE
