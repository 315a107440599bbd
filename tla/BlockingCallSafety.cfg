SPECIFICATION Spec
CONSTANTS
    Callers = {c1, c2}
    Free = Free
    MaxSerial = 2
    MaxSignals = 1
CHECK_DEADLOCK FALSE
SYMMETRY CallerSymmetry
INVARIANTS
    OwnReply
    TableTracksCalls
    NeverSleepsOnWork
PROPERTY KeepsItsPromise
