SPECIFICATION Spec
CONSTANTS
    Clients = {c1, c2, c3}
    Reusers = {}
    Senders = {c1, c2}
    Quitters = {c3}
    MaxMsg = 1
    SendBuf = 1
    Interruptible = FALSE
SYMMETRY SenderSymmetry
INVARIANTS
    OwedDelivered
PROPERTIES
    ImplementsLinks
    ImplementsBroadcast
CHECK_DEADLOCK FALSE
