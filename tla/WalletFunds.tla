---------------------------- MODULE WalletFunds ----------------------------
(***************************************************************************)
(* The outputs of the wallet that monero-wallet-rpc has open, as far as    *)
(* spending them is concerned: external, modelled from how MoneroWalletRpc *)
(* uses it.  A transaction is the set of outputs that it spends.           *)
(***************************************************************************)
EXTENDS Integers

CONSTANTS
    Outputs,
    Accounts,
    Indices,   \* of subaddresses
    Home,      \* the account and the subaddress of each output
    Dust,      \* the outputs that sweep_dust is for
    Kinds      \* the kinds of wallets

AllKinds == {
    "full",       \* has its keys
    "viewOnly",   \* makes transactions that another wallet has to sign
    "multisig"}   \* makes transactions that others have to sign as well

ASSUME FundsAssumption ==
    /\ Accounts \subseteq Nat
    /\ Home \in [Outputs -> Accounts \X Indices]
    /\ Dust \subseteq Outputs
    /\ Kinds \subseteq AllKinds

VARIABLES
    kind,      \* the wallet's kind
    unlocked,  \* the outputs that have been received and unlocked
    relayed    \* the transactions that were relayed

funds == <<kind, unlocked, relayed>>

Account(o) == Home[o][1]
Index(o) == Home[o][2]

Txs == (SUBSET Outputs) \ {{}}

Disjoint(T) == \A t, u \in T : t = u \/ t \cap u = {}

(* The transactions of one reply: no two spend the same output.            *)
Batches == {T \in SUBSET Txs : Disjoint(T)}

Spent == UNION relayed
Available == unlocked \ Spent

FundsInit ==
    /\ kind \in Kinds
    /\ unlocked = {}
    /\ relayed = {}

FundsTypeOK ==
    /\ kind \in Kinds
    /\ unlocked \subseteq Outputs
    /\ relayed \subseteq Txs

(* The daemon takes a transaction once, and none that spends an output     *)
(* again.                                                                  *)
Relays(T) ==
    /\ Disjoint(relayed \cup T)
    /\ relayed' = relayed \cup T
    /\ UNCHANGED <<kind, unlocked>>

(* An output is received and unlocked; another client spends outputs.      *)
Unlocks ==
    /\ \E o \in Outputs \ unlocked : unlocked' = unlocked \cup {o}
    /\ UNCHANGED <<kind, relayed>>

OthersSpend == \E t \in (SUBSET Available) \ {{}} : Relays({t})

=============================================================================
