SPECIFICATION FairSpec
CONSTANTS
    Client = {c1, c2}
    None = None
INVARIANTS TypeOK NoLostWakeup OneOwner NothingLeftBehind GoneIsFinal
PROPERTIES ContractSpec IrpsComplete RemovalFinishes
CHECK_DEADLOCK FALSE
