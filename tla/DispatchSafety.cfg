SPECIFICATION Spec
CONSTANTS
    Kind = "fd"
    FreeHandlersCall = TRUE
    MaxIn = 3
    MaxSends = 1
    MaxBlocks = 1
    MaxOther = 1
CHECK_DEADLOCK FALSE
INVARIANTS
    ProcessedInOrder
    SenderOrder
    AtMostOneAnswer
    TerminatesOnlyOnDisconnect
