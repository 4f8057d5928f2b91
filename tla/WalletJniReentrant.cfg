SPECIFICATION FairSpec
CONSTANTS
    Callback = Callback
    Background = Background
    None = None
    Apps = {a}
    Listeners = {r}
    Reentrant = {r}
    Throwing = {}
    Natives = {n1, n2}
    AppMethods <- ListenersAndSync
    CallbackMethods <- RemoveOnly
CHECK_DEADLOCK FALSE
PROPERTIES
    MethodsReturn
