SPECIFICATION Spec
CONSTANTS
    Disk = {d1, d2}
    Ctl = Ctl
    Caller = {c1}
    None = None
    MaxDevices = 2
INVARIANTS CreatorToldTruth RemovedIsAsked QueryComplete UnloadLeavesNothing
PROPERTIES CallsReturn
CHECK_DEADLOCK FALSE
