--------------------------- MODULE WalletService ---------------------------
(***************************************************************************)
(* What MoneroWallet promises of a wallet's life and addresses, whatever   *)
(* implements it: a method takes effect at most once, between its call and *)
(* its end; getPath() names the open wallet; and an address that is        *)
(* returned is the one the wallet has when it is returned.  There is no    *)
(* cache here, and nothing of how many requests a method takes.            *)
(*                                                                         *)
(* A method that throws may have taken effect.                             *)
(***************************************************************************)
EXTENDS WalletServer

VARIABLES
    path,     \* the path of the wallet
    request,  \* the method that runs, or NoRequest
    answer    \* how the last method ended, or NoAnswer

vars == <<server, path, request, answer>>

NoRequest == [method |-> "none", wallet |-> NoWallet,
              account |-> 0, index |-> 0, done |-> FALSE]
NoAnswer == [method |-> "none", outcome |-> "none", address |-> NoAddress]

Operations == {"openWallet", "createWallet", "setDaemonConnection", "stop", "close",
            "getAddress", "isClosed", "getSubaddresses", "getAccount",
            "getAccounts", "getAccountsByTag",
            "createAccount", "createSubaddress", "makeMultisig"}

Init ==
    /\ ServerInit
    /\ path = NoWallet
    /\ request = NoRequest
    /\ answer = NoAnswer

Invoke ==
    /\ request = NoRequest
    /\ request' \in [method: Operations, wallet: Wallets \cup {NoWallet},
                     account: Accounts, index: Indices, done: {FALSE}]
    /\ answer' = NoAnswer
    /\ UNCHANGED <<server, path>>

-----------------------------------------------------------------------------
(* A method takes effect.                                                  *)

Opens ==
    /\ \/ request.method = "openWallet" /\ ServerOpens(request.wallet)
       \/ request.method = "createWallet" /\ ServerCreates(request.wallet)
    /\ path' = request.wallet

Ends ==
    /\ \/ request.method = "close" /\ ServerCloses
       \/ request.method = "stop" /\ ServerStops
    /\ path' = NoWallet

Adds ==
    /\ \/ request.method = "createAccount" /\ ServerAddsAccount
       \/ request.method = "createSubaddress" /\ ServerAddsSubaddress(request.account)
    /\ UNCHANGED path

Effect == ~request.done /\ (Opens \/ Ends \/ Adds)

(* A wallet that cannot be closed has no path any more.                    *)
NoEffect ==
    /\ UNCHANGED server
    /\ path' = path \/ (request.method = "close" /\ path' = NoWallet)

-----------------------------------------------------------------------------
(* A method goes on or ends; done says whether it has taken effect.        *)

GoOn(done) ==
    /\ request' = [request EXCEPT !.done = done]
    /\ UNCHANGED answer

NeedsEffect == {"openWallet", "createWallet", "stop", "close",
                "createAccount", "createSubaddress"}

Answer(outcome, address) ==
    /\ request' = NoRequest
    /\ answer' = [method |-> request.method, outcome |-> outcome, address |-> address]

Return(done) ==
    /\ request.method # "isClosed"
    /\ request.method \in NeedsEffect => done
    /\ Answer("returns", IF request.method = "getAddress"
                           THEN ServerAddress(request.account, request.index)
                           ELSE NoAddress)

Throw == request.method # "isClosed" /\ Answer("throws", NoAddress)

(* A wallet that cannot be reached is not known to be closed.              *)
SayIfClosed ==
    /\ request.method = "isClosed"
    /\ \/ Answer("false", NoAddress)
       \/ open = NoWallet /\ Answer("true", NoAddress)

Run ==
    /\ request # NoRequest
    /\ \E effect \in BOOLEAN :
         /\ IF effect THEN Effect ELSE NoEffect
         /\ \/ GoOn(request.done \/ effect)
            \/ Return(request.done \/ effect)
            \/ Throw
            \/ SayIfClosed

Restart == ServerRestarts /\ UNCHANGED <<path, request, answer>>

Next == Invoke \/ Run \/ Restart

Spec == Init /\ [][Next]_vars

=============================================================================
