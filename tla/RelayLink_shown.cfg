SPECIFICATION Spec
CONSTANTS
    Handlers = {h1, h2}
    MaxMsg = 2
    SendBuf = 2
SYMMETRY HandlerSymmetry
INVARIANTS
    EveryRecordShown
CHECK_DEADLOCK FALSE
