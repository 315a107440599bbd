SPECIFICATION Spec
CONSTANTS
    Callers = {c1, c2}
    Free = Free
    MaxSerial = 2
    MaxSignals = 0
CHECK_DEADLOCK FALSE
INVARIANT StoreTargetsEntry
