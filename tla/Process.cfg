SPECIFICATION MCSpec
CONSTANTS
    v1 = v1
    t1 = t1  t2 = t2  d1 = d1
    e1 = e1
    c1 = c1  c2 = c2
    run1 = run1  run2 = run2
    key1 = key1  key2 = key2
    a = a  b = b
    proc1 = proc1  proc2 = proc2
    Parts = {"pool", "journal", "snapshot", "file", "plugin", "choice", "transition"}
    Closer = Closer  NoView = NoView  None = None
    View = {v1}
    Task = {t1, t2}
    Direct = {d1}
    ViewOf <- MCViewOf
    Permits <- MCPermits
    Total = 1
    Count <- MCCount
    Event = {e1}
    Client = {c1, c2}
    Identity = {run1, run2}
    Key = {key1, key2}
    Intent <- MCIntent
    MaxWatch = 2
    Backends = {"memory", "sqlite", "redis"}
    SnapshotClient = {a, b}
    MaxRevision = 2
    Process = {proc1, proc2}
    MaxWrites = 3
    Overlapping = FALSE
    Plugin = {1, 2, 3}
    MaxGenerations = 1
    MaxChanges = 2
    Provider <- MCProvider
    Caller = {a, b}
    StateOwner = 1
    StateDevice = "cpu"
    Requests <- MCRequests
    Grants <- MCGrants
    MaxSlots = 3
    Overtaking = FALSE
SYMMETRY Symmetry
INVARIANTS
    CapacityExact
    SeenStays
    SnapshotPinned
    FilePinHolds
    CommittedIsReadable
    
    ChoiceIgnoresHistory
    CallerCanGoBack
PROPERTIES
    DecisionsAreVerified
    
CHECK_DEADLOCK FALSE
