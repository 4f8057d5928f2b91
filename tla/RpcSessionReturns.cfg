SPECIFICATION FairSpec
CONSTANTS
    NoWallet = NoWallet
    NoAddress = NoAddress
    Wallets = {w1}
    MaxAccounts = 2
    MaxSubaddresses = 2
    MaxKeyChanges = 1
    Methods <- AllMethods
    Faults = {"lostRequest", "lostReply", "crash", "otherClient"}
    Tagged <- SecondAccount
PROPERTIES
    CallsReturn
