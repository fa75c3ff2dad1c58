SPECIFICATION FairSpec
CONSTANTS
    MaxLines = 3
    MaxIn = 2
    SendBuf = 1
INVARIANTS
    TypeOK
    NoGap
    LossExplained
    ReaderAlive
PROPERTIES
    ImplementsPeer
    EndNoticed
    ProgramEnds
CHECK_DEADLOCK FALSE
