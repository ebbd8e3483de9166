SPECIFICATION FairSpec
CONSTANTS
    r1 = r1
    r2 = r2
    Requests = {r1, r2}
    Queries <- FewQueries
    Configs <- Deployments
PROPERTIES RequestsEnd PoolRecovers
CHECK_DEADLOCK FALSE
