SPECIFICATION Spec
CONSTANTS
    NoWallet = NoWallet
    NoAddress = NoAddress
    Wallets = {w1}
    MaxAccounts = 2
    MaxSubaddresses = 2
    MaxKeyChanges = 1
    Methods <- MultisigMethods
    Faults = {}
    Tagged = {}
PROPERTIES
    AddressesAreTrue
