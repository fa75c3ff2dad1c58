SPECIFICATION Spec
CONSTANTS
    Clients = {c1, c2}
    Reusers = {}
    Senders = {c1}
    Quitters = {c1, c2}
    MaxMsg = 1
    SendBuf = 1
    Interruptible = TRUE
INVARIANTS
    StopCompletes
CHECK_DEADLOCK FALSE
