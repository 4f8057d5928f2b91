SPECIFICATION Spec
CONSTANTS
    o1 = o1
    o2 = o2
    o3 = o3
    Outputs = {o1, o2, o3}
    Accounts = {0, 1}
    Indices = {0, 1}
    Home <- MCHome
    Dust = {o1}
    Kinds = {"full", "viewOnly", "multisig"}
    NoAccount = NoAccount
INVARIANTS
    TypeOK
    TxsCompatible
PROPERTIES
    SweptClean
    ImplementsSends
