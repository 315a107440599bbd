SPECIFICATION FairSpec
CONSTANTS
    Kinds = {"sendmsg"}
    Shapes <- LongShapes
    Word = 6
    MaxLength = 2
    Cuts = {}
    MaxMessages = 1
CHECK_DEADLOCK FALSE
PROPERTY OversizedPurged
