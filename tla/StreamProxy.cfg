SPECIFICATION Spec
CONSTANTS
    Size = 3
    BufferSize = 2
    Payload <- MCPayload
INVARIANT InStep
INVARIANT TransfersWhole
PROPERTY ServerReleased
CHECK_DEADLOCK FALSE
