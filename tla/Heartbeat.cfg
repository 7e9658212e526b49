SPECIFICATION MCSpec
CONSTANTS
    project = project  stage = stage  child = child
    r1 = r1
    k1 = k1  k2 = k2
    Parts = {"control", "runtime"}
    NoControl = NoControl
    Control = {project, stage, child}
    Parent <- MCParent
    TTL = 2
    Heartbeat = 1
    Retention = 1
    Poller = {child}
    Unreliable = {stage}
    Stores = {"sqlite", "redis"}
    CaseRun = {r1}
    ControlRef = {k1, k2}
    Slots = 1
    MaxErrors = 2
INVARIANTS
    CancelHeard
    ControlsRetired
PROPERTIES
    RowsOnlyAdvance
    RowsReclaimed
    
    SlotsComeBack
CHECK_DEADLOCK FALSE
