SPECIFICATION MCSpec
CONSTANTS
    c1 = c1  c2 = c2
    l1 = l1  l2 = l2  NoLease = NoLease
    workers = workers  gpu0 = gpu0
    Client = {c1, c2}
    LeaseId = {l1, l2}
    Resource = {workers}
    Limit <- MCLimit
    Request <- MCRequest
    TTL = 2
    MaxWait = 1
    Skew = 0
    MaxTime = 4
    Backend = "sqlite"
    RedisWait = 0
    RedisTime = 3
    Parts = {"sqlite", "redis"}
SYMMETRY Symmetry
INVARIANTS
    CapacityRespected
    OvertakenIsDead
    YesIsExclusive
PROPERTIES
    ImplementsFences
