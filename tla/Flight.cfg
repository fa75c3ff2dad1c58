SPECIFICATION Spec
CONSTANTS
    MaxMsgs = 2
    MaxRecords = 3
    MaxLag = 1
    MaxUpdates = 1
    MaxAgain = 1
INVARIANTS
    TypeOK
    MessagesIntact
    HandedUpAtOnce
    PrefixPerKey
    NonceFresh
PROPERTIES
    CutIsNoticed
CHECK_DEADLOCK FALSE
