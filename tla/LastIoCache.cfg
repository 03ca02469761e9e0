SPECIFICATION Spec
CONSTANTS
    Client = {c1, c2}
    None = None
    Size = 2
    Byte <- MCByte
    Payload <- MCPayload
    Settings <- MCSettings
    Foreign = 1
    Fill = 0
INVARIANTS CacheCoherent FreshReads BufferSafe PlainWritesAsGiven
SYMMETRY Symmetry
CHECK_DEADLOCK FALSE
