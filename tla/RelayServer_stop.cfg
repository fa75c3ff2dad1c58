SPECIFICATION FairSpec
CONSTANTS
    Clients = {c1, c2}
    Reusers = {c1, c2}
    Senders = {c1}
    Quitters = {c1, c2}
    MaxMsg = 1
    SendBuf = 1
    Interruptible = TRUE
INVARIANTS
    TypeOK
    NothingLeaks
    ServedIsEntered
    NotServedAfterStop
PROPERTIES
    InterruptEndsAll
CHECK_DEADLOCK FALSE
