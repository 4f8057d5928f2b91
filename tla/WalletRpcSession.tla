-------------------------- MODULE WalletRpcSession --------------------------
(***************************************************************************)
(* The session of a MoneroWalletRpc with monero-wallet-rpc: the wallet     *)
(* that is open, its path, and the cache of its addresses.                 *)
(*                                                                         *)
(* A method sends one or more requests.  One step is one request, carried  *)
(* out, refused or lost, with the code from there to the next request:     *)
(* nobody else reads the client's fields, and the server's steps do not    *)
(* depend on them.                                                         *)
(***************************************************************************)
EXTENDS WalletServer

CONSTANTS
    Methods,  \* the methods the application calls
    Faults,   \* what goes wrong, besides requests that the server refuses
    Tagged    \* the accounts that have the tag getAccounts is asked for

AllFaults == {
    "lostRequest",   \* a request does not reach the server
    "lostReply",     \* the server's reply does not reach the client
    "crash",         \* the server crashes
    "otherClient"}   \* another client uses the server

VARIABLES
    path,    \* MoneroWalletRpc.path
    cache,   \* MoneroWalletRpc.addressCache
    call,    \* the method that runs, its arguments and its next request
    answer   \* how the last method ended

vars == <<server, path, cache, call, answer>>

FirstStep == [
    openWallet |-> "open_wallet", createWallet |-> "create_wallet",
    setDaemonConnection |-> "set_daemon",
    stop |-> "stop_wallet", close |-> "close_wallet",
    getAddress |-> "look_up", isClosed |-> "look_up",
    getSubaddresses |-> "get_address", getAccount |-> "get_accounts",
    getAccounts |-> "get_accounts", getAccountsByTag |-> "get_accounts",
    createAccount |-> "create_account", createSubaddress |-> "create_address",
    makeMultisig |-> "make_multisig"]

ASSUME SessionAssumption ==
    /\ Methods \subseteq DOMAIN FirstStep
    /\ Faults \subseteq AllFaults
    /\ Tagged \subseteq Accounts

NoAddresses == [i \in Indices |-> NoAddress]

(* fetched are the addresses that getSubaddresses has not cached yet;      *)
(* listed and sizes are getAccounts' list: the accounts in it and the      *)
(* number of subaddresses of those whose subaddresses were fetched.        *)
NoCall == [
    method |-> "none", step |-> "none", wallet |-> NoWallet, option |-> "none",
    account |-> 0, index |-> 0, fetched |-> NoAddresses,
    listed |-> {}, sizes |-> [a \in Accounts |-> 0]]

NoAnswer == [method |-> "none", outcome |-> "none", error |-> "none",
             account |-> 0, index |-> 0, address |-> NoAddress]

EmptyCache == [a \in Accounts |-> NoAddresses]

Init ==
    /\ ServerInit
    /\ path = NoWallet
    /\ cache = EmptyCache
    /\ call = NoCall
    /\ answer = NoAnswer

-----------------------------------------------------------------------------
At(step) == call.step = step

GoTo(step) == call' = [call EXCEPT !.step = step] /\ UNCHANGED answer

End(outcome, error, address) ==
    /\ call' = NoCall
    /\ answer' = [method |-> call.method, outcome |-> outcome, error |-> error,
                  account |-> call.account, index |-> call.index,
                  address |-> address]

Return == End("returns", "none", NoAddress)

(* isClosed() catches what getPrimaryAddress() throws.                     *)
Throw(error) ==
    End(IF call.method # "isClosed" THEN "throws"
        ELSE IF error = "noWallet" THEN "true" ELSE "false",
        error, NoAddress)

ReturnAddress(address) ==
    IF call.method = "isClosed" THEN End("false", "none", NoAddress)
    ELSE End("returns", "none", address)

Unreachable == ~running \/ "lostRequest" \in Faults

(* A request that is not carried out, because it is lost or refused.       *)
RequestFails(refused) ==
    /\ \/ Unreachable /\ Throw("connection")
       \/ running /\ refused /\ Throw("rejected")
    /\ UNCHANGED server

(* The same for a request about the open wallet.                           *)
WalletRequestFails(refused) ==
    \/ RequestFails(open # NoWallet /\ refused)
    \/ running /\ open = NoWallet /\ Throw("noWallet") /\ UNCHANGED server

ReplyIsLost == "lostReply" \in Faults /\ Throw("connection")

(* mutation: the map is dropped rather than emptied. *)
ClearDropsMap == path' = NoWallet /\ cache' = NoAddress

Clear == path' = NoWallet /\ cache' = EmptyCache

KeepSession == UNCHANGED <<path, cache>>

-----------------------------------------------------------------------------
(* The application calls a method; arguments that the method refuses       *)
(* before its first request are left out.                                  *)

Options == [
    openWallet |-> {"noDaemon", "daemon", "login"},
    createWallet |-> {"noDaemon", "daemon", "login"},
    setDaemonConnection |-> {"daemon", "login", "null"},
    getSubaddresses |-> {"all", "one", "skipBalances"},
    getAccount |-> {"plain", "subaddresses"},
    getAccounts |-> {"plain", "subaddresses"},
    getAccountsByTag |-> {"plain", "subaddresses"}]

OptionsOf(m) == IF m \in DOMAIN Options THEN Options[m] ELSE {"none"}
WalletsOf(m) == IF m \in {"openWallet", "createWallet"} THEN Wallets ELSE {NoWallet}
AccountsOf(m) ==
    IF m \in {"getAddress", "getSubaddresses", "getAccount", "createSubaddress"}
      THEN Accounts ELSE {0}
IndicesOf(m) == IF m \in {"getAddress", "getSubaddresses"} THEN Indices ELSE {0}

Begin(m) ==
    /\ call = NoCall
    /\ \E w \in WalletsOf(m), o \in OptionsOf(m), a \in AccountsOf(m), i \in IndicesOf(m) :
         call' = [NoCall EXCEPT !.method = m, !.step = FirstStep[m], !.wallet = w,
                                !.option = o, !.account = a, !.index = i]
    /\ answer' = NoAnswer
    /\ UNCHANGED <<server, path, cache>>

-----------------------------------------------------------------------------
(* openWallet() and createWallet(): the wallet is open when the daemon is  *)
(* set, which may fail.                                                    *)

(* mutation: the cache survives the opening of another wallet. *)
StartSessionKeepsCache ==
    /\ path' = call.wallet
    /\ UNCHANGED cache
    /\ IF call.option = "noDaemon" THEN Return ELSE GoTo("set_daemon")

StartSession ==
    /\ path' = call.wallet
    /\ cache' = EmptyCache
    /\ IF call.option = "noDaemon" THEN Return ELSE GoTo("set_daemon")

(* mutation: the path is set before the request. *)
OpenWalletSetsPathFirst ==
    /\ At("open_wallet")
    /\ path' = call.wallet
    /\ cache' = EmptyCache
    /\ \/ RequestFails(TRUE)
       \/ /\ ServerOpens(call.wallet)
          /\ IF call.option = "noDaemon" THEN Return ELSE GoTo("set_daemon")

(* The server refuses a file that it cannot read or decrypt.               *)
OpenWallet ==
    /\ At("open_wallet")
    /\ \/ RequestFails(TRUE) /\ KeepSession
       \/ ServerOpens(call.wallet) /\ StartSession
       \/ ServerOpens(call.wallet) /\ ReplyIsLost /\ KeepSession

CreateWallet ==
    /\ At("create_wallet")
    /\ \/ RequestFails(call.wallet \in files) /\ KeepSession
       \/ ServerCreates(call.wallet) /\ StartSession
       \/ ServerCreates(call.wallet) /\ ReplyIsLost /\ KeepSession

(* A user name is refused, and null dereferenced, before the request.      *)
SetDaemonConnection ==
    /\ At("set_daemon")
    /\ KeepSession /\ UNCHANGED server
    /\ CASE call.option = "login" -> Throw("authentication")
         [] call.option = "null"  -> Throw("nullPointer")
         [] OTHER -> \/ WalletRequestFails(TRUE)
                     \/ running /\ open # NoWallet /\ (Return \/ ReplyIsLost)

-----------------------------------------------------------------------------
(* stop() and close().                                                     *)

Stop ==
    /\ At("stop_wallet")
    /\ \/ WalletRequestFails(FALSE) /\ KeepSession
       \/ ServerStops /\ Clear /\ Return
       \/ ServerStops /\ ReplyIsLost /\ KeepSession

(* mutation: the session is not cleared. *)
CloseKeepsSession ==
    /\ At("close_wallet")
    /\ KeepSession
    /\ \/ WalletRequestFails(FALSE)
       \/ ServerCloses /\ (Return \/ ReplyIsLost)

Close ==
    /\ At("close_wallet")
    /\ Clear
    /\ \/ WalletRequestFails(FALSE)
       \/ ServerCloses /\ (Return \/ ReplyIsLost)

-----------------------------------------------------------------------------
(* Addresses: getAddress(), isClosed(), getSubaddresses(), getAccount()    *)
(* and getAccounts().                                                      *)

IsCached(a) == \E i \in Indices : cache[a][i] # NoAddress

(* mutation: what is fetched is cached only for accounts in the cache. *)
PutOnlyCached(a, addresses) ==
    cache' = [cache EXCEPT ![a] =
                [i \in Indices |-> IF addresses[i] # NoAddress /\ IsCached(a)
                                  THEN addresses[i] ELSE @[i]]]

(* The end of getSubaddresses().                                           *)
Put(a, addresses) ==
    cache' = [cache EXCEPT ![a] =
                [i \in Indices |-> IF addresses[i] # NoAddress THEN addresses[i] ELSE @[i]]]

(* The server answers a request about the subaddresses I of account a.     *)
Answers(a, I) ==
    /\ running /\ HasAccount(a)
    /\ \A i \in I : HasSubaddress(a, i)
    /\ UNCHANGED <<server, path>>

AddressesOf(a, I) == [i \in Indices |-> IF i \in I THEN ServerAddress(a, i) ELSE NoAddress]

(* getSubaddresses() without balances: one request.                        *)
Fetch(a, I) == Answers(a, I) /\ Put(a, AddressesOf(a, I))

AllOf(a) == {i \in Indices : HasSubaddress(a, i)}

FetchFails(refused) ==
    /\ WalletRequestFails(refused) \/ (ReplyIsLost /\ UNCHANGED server)
    /\ KeepSession

LookUp ==
    /\ At("look_up")
    /\ UNCHANGED <<server, path, cache>>
    /\ IF ~IsCached(call.account) THEN GoTo("fetch_account")
       ELSE IF cache[call.account][call.index] = NoAddress THEN GoTo("fetch_subaddress")
       ELSE ReturnAddress(cache[call.account][call.index])

(* getAddress() caches the account and calls itself.                       *)
FetchAccount ==
    /\ At("fetch_account")
    /\ \/ FetchFails(~HasAccount(call.account))
       \/ Fetch(call.account, AllOf(call.account)) /\ GoTo("look_up")

FetchSubaddress ==
    /\ At("fetch_subaddress")
    /\ \/ FetchFails(~HasAccount(call.account))
       \/ /\ Fetch(call.account, AllOf(call.account))
          /\ ReturnAddress(cache'[call.account][call.index])

(* get_accounts, of getAccount() and getAccounts().                        *)
ListedAccounts ==
    {a \in Accounts : HasAccount(a) /\ (call.method = "getAccountsByTag" => a \in Tagged)}

GetAccounts ==
    /\ At("get_accounts")
    /\ KeepSession
    /\ \/ FetchFails(ListedAccounts = {})
       \/ /\ running /\ ListedAccounts # {}
          /\ UNCHANGED server
          /\ IF call.method = "getAccount" /\ call.account \notin ListedAccounts
               THEN Throw("noAccount")
             ELSE IF call.option = "plain" THEN Return
             ELSE /\ call' = [call EXCEPT !.listed = ListedAccounts, !.step = "get_address"]
                  /\ UNCHANGED answer

(* get_address and get_balance, of getSubaddresses() and getAccount().     *)
GetAddress ==
    /\ At("get_address")
    /\ call.method \in {"getSubaddresses", "getAccount"}
    /\ LET a == call.account
           I == IF call.option = "one" THEN {call.index} ELSE AllOf(a)
       IN \/ FetchFails(~HasAccount(a) \/ \E i \in I : ~HasSubaddress(a, i))
          \/ call.option = "skipBalances" /\ Fetch(a, I) /\ Return
          \/ /\ call.option # "skipBalances"
             /\ Answers(a, I)
             /\ call' = [call EXCEPT !.fetched = AddressesOf(a, I), !.step = "get_balance"]
             /\ UNCHANGED <<cache, answer>>

(* What was fetched is cached after the balances.                          *)
GetBalance ==
    /\ At("get_balance")
    /\ call.method \in {"getSubaddresses", "getAccount"}
    /\ \/ FetchFails(TRUE)
       \/ Answers(call.account, {}) /\ Put(call.account, call.fetched) /\ Return

(* get_address, of getAccounts(): the listed accounts one after the other. *)
Unfetched == {a \in call.listed : call.sizes[a] = 0}

GetAddressOfNext ==
    /\ At("get_address")
    /\ call.method \in {"getAccounts", "getAccountsByTag"}
    /\ \E a \in Unfetched :
         /\ \A b \in Unfetched : a <= b
         /\ \/ FetchFails(~HasAccount(a))
            \/ /\ Fetch(a, AllOf(a))
               /\ call' = [call EXCEPT
                     !.sizes[a] = book[open][a],
                     !.step = IF Unfetched = {a} THEN "get_balances" ELSE "get_address"]
               /\ UNCHANGED answer

(* get_balance for all accounts.  The server reports some subaddresses;    *)
(* each is taken to be at the place of its indices in what was listed.     *)
IsInPlace(a, i) == 0..a \subseteq call.listed /\ i < call.sizes[a]

GetBalances ==
    /\ At("get_balances")
    /\ \/ FetchFails(FALSE)
       \/ /\ running /\ open # NoWallet
          /\ UNCHANGED server
          /\ KeepSession
          /\ \/ Return
             \/ /\ \E a \in Accounts : \E i \in AllOf(a) : ~IsInPlace(a, i)
                /\ Throw("outOfOrder")

-----------------------------------------------------------------------------
(* Methods that change the open wallet and nothing in the client.  The     *)
(* server may refuse, for example an account that does not exist.          *)

CreateAccount ==
    /\ At("create_account")
    /\ KeepSession
    /\ \/ WalletRequestFails(TRUE)
       \/ ServerAddsAccount /\ (Return \/ ReplyIsLost)

CreateSubaddress ==
    /\ At("create_address")
    /\ KeepSession
    /\ \/ WalletRequestFails(TRUE)
       \/ ServerAddsSubaddress(call.account) /\ (Return \/ ReplyIsLost)

(* makeMultisig() and exchangeMultisigKeys().                              *)
MakeMultisig ==
    /\ At("make_multisig")
    /\ KeepSession
    /\ \/ WalletRequestFails(TRUE)
       \/ ServerReplacesKeys /\ (Return \/ ReplyIsLost)

-----------------------------------------------------------------------------
Step ==
    \/ OpenWallet \/ CreateWallet \/ SetDaemonConnection \/ Stop \/ Close
    \/ LookUp \/ FetchAccount \/ FetchSubaddress
    \/ GetAccounts \/ GetAddress \/ GetBalance \/ GetAddressOfNext \/ GetBalances
    \/ CreateAccount \/ CreateSubaddress \/ MakeMultisig

Crash ==
    /\ "crash" \in Faults
    /\ ServerCrashes
    /\ UNCHANGED <<path, cache, call, answer>>

Restart == ServerRestarts /\ UNCHANGED <<path, cache, call, answer>>

OtherClient ==
    /\ "otherClient" \in Faults
    /\ \/ \E w \in Wallets : ServerOpens(w) \/ ServerCreates(w)
       \/ ServerCloses
       \/ ServerAddsAccount
       \/ ServerReplacesKeys
       \/ \E a \in Accounts : ServerAddsSubaddress(a)
    /\ UNCHANGED <<path, cache, call, answer>>

Next == (\E m \in Methods : Begin(m)) \/ Step \/ Crash \/ Restart \/ OtherClient

Spec == Init /\ [][Next]_vars

(* The client's thread runs, and a request is answered or fails in the end *)
(* (the HTTP client's timeouts).                                           *)
FairSpec == Spec /\ WF_vars(Step)

-----------------------------------------------------------------------------
Steps == {FirstStep[m] : m \in DOMAIN FirstStep} \cup
         {"none", "set_daemon", "look_up", "fetch_account", "fetch_subaddress",
          "get_address", "get_balance", "get_balances"}
AllOptions == {"none", "noDaemon", "daemon", "login", "null",
               "all", "one", "skipBalances", "plain", "subaddresses"}
Outcomes == {"none", "returns", "throws", "true", "false"}
Errors == {"none", "connection", "rejected", "noWallet",
           "authentication", "nullPointer", "noAccount", "outOfOrder"}

Calls == [method: Methods \cup {"none"}, step: Steps,
          wallet: Wallets \cup {NoWallet}, option: AllOptions,
          account: Accounts, index: Indices,
          fetched: [Indices -> Addresses \cup {NoAddress}],
          listed: SUBSET Accounts, sizes: [Accounts -> 0..MaxSubaddresses]]
Results == [method: Methods \cup {"none"}, outcome: Outcomes, error: Errors,
            account: Accounts, index: Indices, address: Addresses \cup {NoAddress}]

(* Every variable has its type.                                            *)
TypeOK ==
    /\ ServerTypeOK
    /\ path \in Wallets \cup {NoWallet}
    /\ cache \in [Accounts -> [Indices -> Addresses \cup {NoAddress}]]
    /\ call \in Calls
    /\ call.step \in {"open_wallet", "create_wallet"} => call.wallet # NoWallet
    /\ answer \in Results

(* Each step belongs to the methods that send its request.                 *)
StepFollowsMethod ==
    /\ call.method = "none" => call = NoCall
    /\ call.step # "get_balance" => call.fetched = NoAddresses
    /\ call.method # "none" =>
         \/ call.step = FirstStep[call.method]
         \/ call.step = "set_daemon" /\ call.method \in {"openWallet", "createWallet"}
         \/ /\ call.step \in {"fetch_account", "fetch_subaddress"}
            /\ call.method \in {"getAddress", "isClosed"}
         \/ /\ call.step = "get_balance"
            /\ call.method \in {"getSubaddresses", "getAccount"}
         \/ /\ call.step = "get_address"
            /\ call.method \in {"getAccount", "getAccounts", "getAccountsByTag"}
         \/ /\ call.step = "get_balances"
            /\ call.method \in {"getAccounts", "getAccountsByTag"}

(* The session's path, the wallet the server has open and the wallets of   *)
(* the addresses that are cached or will be.                               *)
CachedAddresses ==
    {d \in {cache[a][i] : a \in Accounts, i \in Indices}
            \cup {call.fetched[i] : i \in Indices} : d # NoAddress}

SessionWallets ==
    ({path, open} \ {NoWallet}) \cup {d.wallet : d \in CachedAddresses}

(* A session is about one wallet, as long as no other client uses the      *)
(* server and no reply is lost: getPath() does not name one wallet while   *)
(* requests reach another, and the cache never mixes wallets, although a   *)
(* request may fail at any point of openWallet, createWallet, close and    *)
(* stop, and the server may crash.                                         *)
OneWallet == \A v, w \in SessionWallets : v = w

(* Without crashes and changes of keys, what is cached is what the server  *)
(* would answer, and a path is set only while that wallet is open.         *)
CacheIsTrue ==
    /\ path \in {NoWallet, open}
    /\ \A a \in Accounts, i \in Indices :
         cache[a][i] # NoAddress => cache[a][i] = ServerAddress(a, i)

(* The same of what will be cached.                                        *)
FetchedIsTrue ==
    \A i \in Indices :
        call.fetched[i] # NoAddress => call.fetched[i] = ServerAddress(call.account, i)

(* What the proofs of CacheIsTrue and of ImplementsService rest on.        *)
InductiveInv == TypeOK /\ StepFollowsMethod /\ CacheIsTrue /\ FetchedIsTrue

(* The cache is transparent, methods take effect at most once, and they    *)
(* return normally only after that: the session implements WalletService.  *)
Service == INSTANCE WalletService WITH
    request <- [method |-> call.method, wallet |-> call.wallet,
                account |-> call.account, index |-> call.index,
                done |-> call.step = "set_daemon" /\ call.method # "setDaemonConnection"],
    answer <- [method |-> answer.method, outcome |-> answer.outcome,
               address |-> answer.address]

ImplementsService == Service!Spec

(* Every method ends, getAddress' recursion included, whatever the server  *)
(* and its other clients do.                                               *)
CallsReturn == (call # NoCall) ~> (call = NoCall)

(* An address that getAddress returns is the open wallet's.                *)
(* MoneroWallet.java:167: "Get the wallet's primary address."              *)
AddressesAreTrue ==
    [][answer' # answer /\ answer'.method = "getAddress" /\ answer'.outcome = "returns"
         => answer'.address = ServerAddress(call.account, call.index)]_vars

=============================================================================
