SPECIFICATION Spec
CONSTANTS
    Kind = "standalone"
    FreeHandlersCall = FALSE
    MaxIn = 2
    MaxSends = 0
    MaxBlocks = 0
    MaxOther = 0
CHECK_DEADLOCK FALSE
INVARIANT OneMessagePerDispatch
