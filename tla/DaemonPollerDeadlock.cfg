SPECIFICATION FairSpec
CONSTANTS
    Null = Null
    AppListeners = {}
    OneShot = {}
    Throwing = {}
    Waiters = {w}
    Pollers = {p1}
    RpcFailures = FALSE
    Interrupts = FALSE
    SpuriousWakeups = FALSE
    MaxTip = 3
    MaxRegistrations = 2
CHECK_DEADLOCK FALSE
PROPERTIES
    NotifiedCallReturns
