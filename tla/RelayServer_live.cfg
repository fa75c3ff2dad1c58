SPECIFICATION FairSpec
CONSTANTS
    Clients = {c1, c2}
    Reusers = {}
    Senders = {c1, c2}
    Quitters = {c1, c2}
    MaxMsg = 2
    SendBuf = 1
    Interruptible = FALSE
PROPERTIES
    MessageHandled
    DepartureNoticed
CHECK_DEADLOCK FALSE
