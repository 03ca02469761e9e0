SPECIFICATION Spec
CONSTANTS
    Size = 3
    Chunk = 2
    Value <- MCValue
    Payload <- MCPayload
INVARIANTS TurnTaking TransfersWhole
PROPERTIES CallEnds CloseReachesServer
CHECK_DEADLOCK FALSE
