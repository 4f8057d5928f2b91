---------------------------- MODULE WalletLedger ----------------------------
(***************************************************************************)
(* The transactions of the wallet that monero-wallet-rpc holds, and what   *)
(* becomes of them whether or not a client is looking: they arrive in the  *)
(* pool, are mined, unlock with the blocks that follow, fail, and go back  *)
(* to the pool or to another block when the chain is reorganized.  Nothing *)
(* of this is in the repository, whose code reads it request by request.   *)
(***************************************************************************)
EXTENDS Integers, FiniteSets

CONSTANTS
    Null,         \* no account, no height, a criterion that is not given
    Txs,          \* the transactions that may happen
    Accounts,     \* the indices of the wallet's accounts
    Outputs,      \* the outputs the wallet may receive
    Incoming,     \* by transaction, the accounts with an incoming transfer
    Outgoing,     \* by transaction, the account of its outgoing transfer, or Null
    TxOf,         \* by output, its transaction
    AccountOf,    \* by output, its account
    Spends,       \* by transaction, the outputs of the wallet that it spends
    LockBlocks,   \* the confirmations at which a transaction unlocks
    MaxTop        \* bound: the height of the chain

ASSUME LedgerAssumption ==
    /\ IsFiniteSet(Txs) /\ IsFiniteSet(Outputs) /\ IsFiniteSet(Accounts)
    /\ Accounts \subseteq Nat /\ Accounts # {}
    /\ Null \notin Int \cup BOOLEAN
    /\ Incoming \in [Txs -> SUBSET Accounts]
    /\ Outgoing \in [Txs -> Accounts \cup {Null}]
    /\ TxOf \in [Outputs -> Txs]
    /\ AccountOf \in [Outputs -> Accounts]
    /\ Spends \in [Txs -> SUBSET Outputs]
    /\ LockBlocks \in Nat \ {0}
    /\ MaxTop \in Nat \ {0}
    /\ \A t \in Txs : Incoming[t] # {} \/ Outgoing[t] # Null

VARIABLES
    top,     \* the height of the chain: its next block has this height
    place,   \* where a transaction is: "none", "pool", "failed" or "mined"
    mined    \* the height of a transaction's block, 0 if it is not mined

ledger == <<top, place, mined>>

Heights == 1..(MaxTop - 1)

LedgerTypeOK ==
    /\ top \in 1..MaxTop
    /\ place \in [Txs -> {"none", "pool", "failed", "mined"}]
    /\ mined \in [Txs -> 0..(MaxTop - 1)]

IsLocked(t) == place[t] # "mined" \/ top < mined[t] + LockBlocks
Confirmations(t) == IF place[t] = "mined" THEN top - mined[t] ELSE 0
IsSpent(o) == \E t \in Txs : o \in Spends[t] /\ place[t] \in {"pool", "mined"}

\* Only unlocked outputs are spent, each once.
Consistent ==
    /\ \A t \in Txs : IF place[t] = "mined" THEN mined[t] \in 1..(top - 1) ELSE mined[t] = 0
    /\ \A t \in Txs, o \in Outputs :
          o \in Spends[t] /\ place[t] \in {"pool", "mined"} =>
              /\ place[TxOf[o]] = "mined"
              /\ mined[TxOf[o]] + LockBlocks <= IF place[t] = "mined" THEN mined[t] ELSE top
              /\ \A u \in Txs \ {t} : place[u] \in {"pool", "mined"} => o \notin Spends[u]

LedgerInit ==
    /\ top = 1
    /\ place = [t \in Txs |-> "none"]
    /\ mined = [t \in Txs |-> 0]

\* A transaction arrives in the pool; one that failed may be sent again.
Arrive(t) ==
    /\ place[t] \in {"none", "failed"}
    /\ place' = [place EXCEPT ![t] = "pool"]
    /\ UNCHANGED <<top, mined>>
    /\ Consistent'

\* The next block holds some of the transactions of the pool.
Mine ==
    /\ top < MaxTop
    /\ \E block \in SUBSET {t \in Txs : place[t] = "pool"} :
          /\ place' = [t \in Txs |-> IF t \in block THEN "mined" ELSE place[t]]
          /\ mined' = [t \in Txs |-> IF t \in block THEN top ELSE mined[t]]
    /\ top' = top + 1

\* The pool drops a transaction: the wallet remembers those that it sent.
Drop(t) ==
    /\ place[t] = "pool"
    /\ place' = [place EXCEPT ![t] = IF Outgoing[t] = Null THEN "none" ELSE "failed"]
    /\ UNCHANGED <<top, mined>>

\* The blocks from height kept on are replaced by as many others: their
\* transactions go to other heights, or back to the pool.
Reorganize ==
    /\ \E kept \in 1..(top - 1) :
          LET moved == {t \in Txs : mined[t] >= kept}
          IN  \E height \in [moved -> {0} \cup kept..(top - 1)] :
                 /\ mined' = [t \in Txs |-> IF t \in moved THEN height[t] ELSE mined[t]]
                 /\ place' = [t \in Txs |->
                                IF t \in moved /\ height[t] = 0 THEN "pool" ELSE place[t]]
    /\ UNCHANGED top
    /\ Consistent'

=============================================================================
