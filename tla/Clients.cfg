SPECIFICATION Spec
CONSTANTS
    Callers = {t1}
    Dispatcher = disp
    MaxValue = 2
    MaxCalls = 2
    MaxEdits = 1
    Kinds <- MCKinds
    Looper = looper
    Plain = plain
    DispThread = disp
    p1 = p1
    q = q
    r1 = r1
    FreeProxies = {p1}
    MemberProxies = {q}
    Rules = {r1}
    RuleOf <- MCRuleOf
    MaxSignals = 2
    MaxOps = 3
    MaxFailures = 1
    Objects = {root, child}
    i1 = i1
    i2 = i2
    n1 = n1
    Interfaces = {i1, i2}
    NameOf <- MCNameOf
    Signals = {s1}
    Methods = {m1}
    Null = null
    MaxSteps = 6
    Addresses <- MCAddresses
    MaxMessages = 2
    MaxHellos = 2
    oa = oa
    ob = ob
    ix = ix
    iy = iy
    mx = mx
    my = my
    ObjectProxies = {oa, ob}
    InterfaceProxies = {ix, iy}
    MethodProxies = {mx, my}
    WatchedSignals = {sx}
    InterfaceName <- MCInterfaceName
    MethodName <- MCMethodName
    ProxyPaths = {1, 2}
    FirstPath <- MCFirstPath
    Nobody = nobody
    Anywhere = 0
    MaxChanges = 5
CHECK_DEADLOCK FALSE
INVARIANTS
    CacheWasReal
    CurrentWhenQuiet
    HandledOnceInOrder
    RulesKept
    SignalsFollowTheObject
    OpensCleanly
    NoGapWhileValid
    ProxiesFollowTheirObject
PROPERTIES
    RemovedStaysQuiet
    SignalsReachProxies
