SPECIFICATION FairSpec
CONSTANTS
    Threads = {t1, t2}
    Dispatcher = Dispatcher
    Paths = {p1, p2}
    None = None
    MaxCalls = 2
CHECK_DEADLOCK FALSE
PROPERTIES
    LiveObjectsStay
    DispatcherReturns
    EveryCallSettled
