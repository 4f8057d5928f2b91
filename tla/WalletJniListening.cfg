SPECIFICATION FairSpec
CONSTANTS
    Callback = Callback
    Background = Background
    None = None
    Apps = {a}
    Listeners = {x, r}
    Reentrant = {r}
    Throwing = {x}
    Natives = {n1, n2}
    AppMethods <- AllMethods
    CallbackMethods <- PlainMethods
CHECK_DEADLOCK FALSE
INVARIANTS
    TypeOK
    DeliveryExclusive
    OneNativeListener
    ListensForListeners
    SilentWithoutListeners
    DeletedAfterClose
PROPERTIES
    MethodsReturn
    NotificationsEnd
