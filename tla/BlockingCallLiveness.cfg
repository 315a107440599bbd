SPECIFICATION FairSpec
CONSTANTS
    Callers = {c1}
    Free = Free
    MaxSerial = 3
    MaxSignals = 0
CHECK_DEADLOCK FALSE
PROPERTIES
    CallsReturn
    StoredReplyIsReturned
    QueueDrains
