--------------------------- MODULE MCWalletRpcTxs ---------------------------
(* Two accounts; a payment to both, and two transactions that spend one    *)
(* output of it each and send an output to the first account.              *)
EXTENDS TxObjects

CONSTANTS payment, spending, other, o1, o2, change, o4

MCTxs == {payment, spending, other}
MCOutputs == {o1, o2, change, o4}
MCIncoming == payment :> {0, 1} @@ spending :> {} @@ other :> {0}
MCOutgoing == payment :> Null @@ spending :> 0 @@ other :> 1
MCTxOf == o1 :> payment @@ o2 :> payment @@ change :> spending @@ o4 :> other
MCAccountOf == o1 :> 0 @@ o2 :> 1 @@ change :> 0 @@ o4 :> 0
MCSpends == payment :> {} @@ spending :> {o1} @@ other :> {o2}

All ==
    [isConfirmed |-> Null, inTxPool |-> Null, isFailed |-> Null, isLocked |-> Null,
     isIncoming |-> Null, isOutgoing |-> Null, minHeight |-> Null, maxHeight |-> Null,
     hashes |-> Null, includeOutputs |-> FALSE, transfer |-> Null, output |-> Null]
Unspent == [isSpent |-> FALSE, account |-> Null]
Spent == [isSpent |-> TRUE, account |-> Null]
OfAccount1 == [isSpent |-> Null, account |-> 1]
Received == [isIncoming |-> TRUE, account |-> 0]
Sent == [isIncoming |-> FALSE, account |-> Null]

MCTxsQueries ==
    {[All EXCEPT !.includeOutputs = TRUE],
     [All EXCEPT !.output = Unspent, !.isLocked = FALSE],
     [All EXCEPT !.hashes = {payment, other}, !.isConfirmed = TRUE],
     [All EXCEPT !.minHeight = 2, !.maxHeight = 3, !.output = OfAccount1]}
MCTransfersQueries ==
    {[All EXCEPT !.transfer = Received, !.inTxPool = TRUE],
     [All EXCEPT !.transfer = Sent, !.isFailed = TRUE],
     [All EXCEPT !.transfer = Received, !.output = Spent]}
MCOutputsQueries ==
    {[All EXCEPT !.output = Unspent, !.minHeight = 2],
     [All EXCEPT !.output = OfAccount1, !.isLocked = TRUE],
     [All EXCEPT !.output = Unspent, !.isOutgoing = TRUE]}

=============================================================================
