SPECIFICATION StalledSpec
CONSTANTS
    Clients = {c1, c2}
    Reusers = {}
    Senders = {c1}
    Quitters = {}
    MaxMsg = 3
    SendBuf = 1
    Interruptible = FALSE
PROPERTIES
    SessionServed
CHECK_DEADLOCK FALSE
