SPECIFICATION Spec
CONSTANT
    MaxRecords = 1
INVARIANTS
    BothDeriveIdenticalKeys
CHECK_DEADLOCK FALSE
