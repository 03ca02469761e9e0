SPECIFICATION Spec
CONSTANTS
    Server = s
    c1 = c1
    c2 = c2
    Opener = {c1, c2}
    Wants <- MCWants
    Worker = {w1}
    Req = {r1, r2}
    Write = {r2}
    Long = {r2}
    Addr = {a1, a2}
    None = None
INVARIANTS OwnAnswer BufferReady TableTruthful
PROPERTIES AnsweredWhileConnected
CHECK_DEADLOCK FALSE
