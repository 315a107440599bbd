SPECIFICATION FairSpec
CONSTANTS
    Kind = "standalone"
    FreeHandlersCall = FALSE
    MaxIn = 2
    MaxSends = 1
    MaxBlocks = 1
    MaxOther = 1
CHECK_DEADLOCK FALSE
PROPERTIES
    IncomingProcessed
    OutgoingWritten
    
