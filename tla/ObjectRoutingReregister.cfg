SPECIFICATION Spec
CONSTANTS
    Threads = {t1}
    Dispatcher = Dispatcher
    Paths = {p1}
    None = None
    MaxCalls = 1
CHECK_DEADLOCK FALSE
INVARIANT RegistrationReturns
