---------------------------- MODULE WalletServer ----------------------------
(***************************************************************************)
(* monero-wallet-rpc, the server behind MoneroWalletRpc.  Its code is not  *)
(* in this repository: this is what MoneroWalletRpc and its tests rely on. *)
(*                                                                         *)
(* The server has at most one wallet open.  A wallet has accounts, and an  *)
(* account has subaddresses, numbered from 0 in the order they were added. *)
(* An address stands for the wallet, the keys the wallet has and its       *)
(* account and index: turning a wallet into a multisig wallet replaces its *)
(* keys and with them all its addresses.                                   *)
(***************************************************************************)
EXTENDS Integers, FiniteSets

CONSTANTS
    Wallets,          \* names of wallet files
    NoWallet,         \* null for the path of a wallet
    NoAddress,        \* null for an address
    MaxAccounts,      \* bound on the accounts of a wallet
    MaxSubaddresses,  \* bound on the subaddresses of an account
    MaxKeyChanges     \* bound on the changes of a wallet's keys

Accounts == 0..MaxAccounts-1
Indices == 0..MaxSubaddresses-1
Addresses == [wallet: Wallets, keys: 0..MaxKeyChanges,
              account: Accounts, index: Indices]

ASSUME ServerAssumption ==
    /\ NoWallet \notin Wallets
    /\ NoAddress \notin Addresses
    /\ MaxAccounts \in Nat \ {0}
    /\ MaxSubaddresses \in Nat \ {0}
    /\ MaxKeyChanges \in Nat

VARIABLES
    running,  \* the server's process runs
    open,     \* the wallet it has open, if any
    files,    \* the wallet files that exist
    keys,     \* how often the keys of each wallet were replaced
    book      \* the number of subaddresses of each wallet's accounts

server == <<running, open, files, keys, book>>

ServerTypeOK ==
    /\ running \in BOOLEAN
    /\ open \in Wallets \cup {NoWallet}
    /\ files \subseteq Wallets
    /\ keys \in [Wallets -> 0..MaxKeyChanges]
    /\ book \in [Wallets -> [Accounts -> 0..MaxSubaddresses]]

(* The server may be started with a wallet; a new wallet has one account   *)
(* with one subaddress.                                                    *)
ServerInit ==
    /\ running = TRUE
    /\ files \in SUBSET Wallets
    /\ open \in files \cup {NoWallet}
    /\ keys = [w \in Wallets |-> 0]
    /\ book = [w \in Wallets |-> [a \in Accounts |-> IF a = 0 THEN 1 ELSE 0]]

-----------------------------------------------------------------------------
HasAccount(a) == open # NoWallet /\ book[open][a] > 0
HasSubaddress(a, i) == open # NoWallet /\ i < book[open][a]

(* The address that the open wallet has at account a and index i.          *)
ServerAddress(a, i) ==
    IF HasSubaddress(a, i)
      THEN [wallet |-> open, keys |-> keys[open], account |-> a, index |-> i]
      ELSE NoAddress

-----------------------------------------------------------------------------
(* What a request does when the server carries it out.                     *)

(* open_wallet and the requests that create a wallet close the open one.   *)
ServerOpens(w) ==
    /\ running /\ w \in files
    /\ open' = w
    /\ UNCHANGED <<running, files, keys, book>>

ServerCreates(w) ==
    /\ running /\ w \notin files
    /\ files' = files \cup {w}
    /\ open' = w
    /\ UNCHANGED <<running, keys, book>>

ServerCloses ==
    /\ running /\ open # NoWallet
    /\ open' = NoWallet
    /\ UNCHANGED <<running, files, keys, book>>

ServerStops ==
    /\ running
    /\ running' = FALSE
    /\ open' = NoWallet
    /\ UNCHANGED <<files, keys, book>>

ServerAdds(a) ==
    /\ running /\ open # NoWallet
    /\ book[open][a] < MaxSubaddresses
    /\ book' = [book EXCEPT ![open][a] = @ + 1]
    /\ UNCHANGED <<running, open, files, keys>>

(* create_account adds the next account, which has one subaddress.         *)
ServerAddsAccount ==
    \E a \in Accounts :
        /\ open # NoWallet
        /\ a > 0 /\ book[open][a - 1] > 0 /\ book[open][a] = 0
        /\ ServerAdds(a)

ServerAddsSubaddress(a) == HasAccount(a) /\ ServerAdds(a)

(* make_multisig and exchange_multisig_keys.                               *)
ServerReplacesKeys ==
    /\ running /\ open # NoWallet
    /\ keys[open] < MaxKeyChanges
    /\ keys' = [keys EXCEPT ![open] = @ + 1]
    /\ UNCHANGED <<running, open, files, book>>

-----------------------------------------------------------------------------
(* What happens to the server besides.                                     *)

ServerCrashes == ServerStops

ServerRestarts ==
    /\ ~running
    /\ running' = TRUE
    /\ UNCHANGED <<open, files, keys, book>>

=============================================================================
