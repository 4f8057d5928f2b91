SPECIFICATION Spec
CONSTANTS
    NoWallet = NoWallet
    NoAddress = NoAddress
    Wallets = {w1, w2}
    MaxAccounts = 2
    MaxSubaddresses = 2
    MaxKeyChanges = 0
    Methods <- ServiceMethods
    Faults = {"lostRequest"}
    Tagged = {}
INVARIANTS
    TypeOK
    CacheIsTrue
    OneWallet
PROPERTIES
    ImplementsService
