SPECIFICATION Spec
CONSTANTS
    Max = 4
    Least = 1
    Request <- MCRequest
    MaxQueue = 2
    MaxSpecial = 1
CHECK_DEADLOCK FALSE
INVARIANTS NothingKept WithinBacking WritableAsOpened
