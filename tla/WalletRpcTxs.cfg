SPECIFICATION FairSpec
CONSTANTS
    Null = Null
    payment = payment
    spending = spending
    other = other
    o1 = o1
    o2 = o2
    change = change
    o4 = o4
    Txs <- MCTxs
    Accounts = {0, 1}
    Outputs <- MCOutputs
    Incoming <- MCIncoming
    Outgoing <- MCOutgoing
    TxOf <- MCTxOf
    AccountOf <- MCAccountOf
    Spends <- MCSpends
    LockBlocks = 2
    MaxTop = 4
    TxsQueries <- MCTxsQueries
    TransfersQueries <- MCTransfersQueries
    OutputsQueries <- MCOutputsQueries
    MaxChanges = 2
    StackDepth = 12
INVARIANTS
    TypeOK
    AnswerIsCurrent
    QuietAnswerIsExact
    HeightsAreTrue
    ContradictionMeansChange
    MergesAsObjects
PROPERTIES
    CallsReturn
