SPECIFICATION Spec
CONSTANTS
    r1 = r1
    r2 = r2
    Requests = {r1, r2}
    Queries <- EveryQuery
    Configs <- Deployments
SYMMETRY RequestSymmetry
INVARIANTS TypeOK SharedUpstream
PROPERTY KeepsPromise
CHECK_DEADLOCK FALSE
