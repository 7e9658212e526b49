SPECIFICATION MCSpec
CONSTANTS
    v1 = v1
    t1 = t1  t2 = t2  d1 = d1
    g1 = g1  g2 = g2  g3 = g3
    Parts = {"stage"}
    Closer = Closer  NoView = NoView
    View = {v1}
    Task = {t1, t2}
    Direct = {}
    ViewOf <- MCViewOf
    Permits <- MCPermits
    Total = 1
    Count <- MCCount
    Child = {g1, g2, g3}
    TotalUnits = 2
    TotalGpus = 2
    TokenLists = {{}, {1, 2}}
    NumBranches = 3
    WorkerLimit = 2
    Threads = 1
    StagePlans <- MCStagePlans
    MaxCalls = 3
    StoreMethods = {"set"}
PROPERTIES
    StageReturns
CHECK_DEADLOCK FALSE
