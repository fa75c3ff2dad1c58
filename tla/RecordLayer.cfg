SPECIFICATION FairSpec
CONSTANTS
    MaxLen = 3
    MaxField = 3
    SeqLimit = 3
    MaxCalls = 4
INVARIANTS
    TypeOK
    InStep
    FreshUntilWrap
PROPERTIES
    ImplementsChannel
    AllArrive
CHECK_DEADLOCK FALSE
