SPECIFICATION FairSpec
CONSTANTS
    t1 = t1  t2 = t2
    w1 = w1  w2 = w2
    NoWorker = NoWorker
    Task = {t1, t2}
    Worker = {w1, w2}
    CanRun <- MCCanRun
    MaxRetries = 1
    MaxInflight = 1
    Lease = 2
    MaxLag = 1
    MaxAttempts = 3
    Stores = {"sqlite", "redis", "memory"}
INVARIANTS
    ResultIsLatest
    IndexesAgree
PROPERTIES
    EventuallyFinal
