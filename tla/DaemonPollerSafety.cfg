SPECIFICATION Spec
CONSTANTS
    Null = Null
    AppListeners = {a, o, x}
    OneShot = {o}
    Throwing = {x}
    Waiters = {w}
    Pollers = {p1, p2}
    RpcFailures = TRUE
    Interrupts = TRUE
    SpuriousWakeups = TRUE
    MaxTip = 2
    MaxRegistrations = 3
SYMMETRY PollerSymmetry
CHECK_DEADLOCK FALSE
INVARIANTS
    TypeOK
    OneNotifier
    PollingIffListening
    NoOrphanRunnable
    NoLostNotification
    ReturnedUnregistered
    RoundReachesAll
