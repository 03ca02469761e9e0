SPECIFICATION Spec
CONSTANTS
    Client = {c1, c2}
    None = None
INVARIANT OutstandingIrpsDone
CHECK_DEADLOCK FALSE
