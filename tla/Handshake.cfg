SPECIFICATION FairSpec
CONSTANT
    MaxRecords = 2
INVARIANTS
    TypeOK
    ModesAgree
    WholeHellos
    KeysMatchIffExact
PROPERTIES
    HandshakeEnds
    FailureEndsBoth
CHECK_DEADLOCK FALSE
