SPECIFICATION FairSpec
CONSTANTS
    Null = Null
    AppListeners = {a}
    OneShot = {}
    Throwing = {}
    Waiters = {w}
    Pollers = {p1, p2}
    RpcFailures = FALSE
    Interrupts = FALSE
    SpuriousWakeups = FALSE
    MaxTip = 3
    MaxRegistrations = 2
CHECK_DEADLOCK FALSE
PROPERTIES
    TerminatedExits
    ListenersHear
    CallReturnsOnNewBlock
