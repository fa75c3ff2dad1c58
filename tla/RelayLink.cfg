SPECIFICATION FairSpec
CONSTANTS
    Handlers = {h1, h2}
    MaxMsg = 2
    SendBuf = 1
INVARIANTS
    TypeOK
    PerSenderOrder
    NoLossWithoutOverlap
PROPERTIES
    LossIsPermanent
    RelayedIsShown
    RelayFinishes
CHECK_DEADLOCK FALSE
