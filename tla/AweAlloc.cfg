SPECIFICATION Spec
CONSTANTS
    Thread = {t1, t2}
    Value <- MCValue
    Fresh = 0
    PageSize = 2
    MaxBlock = 4
    MaxSize = 3
    BlockId = {b1, b2}
SYMMETRY Symmetry
INVARIANTS MappingsLive
PROPERTIES FileSpec
CHECK_DEADLOCK FALSE
