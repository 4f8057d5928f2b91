----------------------- MODULE WalletRpcSessionProofs -----------------------
(***************************************************************************)
(* What WalletRpcSession guarantees for any wallets, accounts and          *)
(* subaddresses: types; that a session is about one wallet; that its cache *)
(* is true; that it implements WalletService; and that its methods end.    *)
(***************************************************************************)
EXTENDS WalletRpcSession, FiniteSetTheorems, TLAPS

SessionTypeOK ==
    /\ path \in Wallets \cup {NoWallet}
    /\ cache \in [Accounts -> [Indices -> Addresses \cup {NoAddress}]]

CallTypes ==
    {c \in Calls : c.step \in {"open_wallet", "create_wallet"} => c.wallet # NoWallet}

LEMMA TypeParts ==
  /\ TypeOK <=> ServerTypeOK /\ SessionTypeOK /\ call \in CallTypes /\ answer \in Results
  /\ TypeOK' <=> ServerTypeOK' /\ SessionTypeOK' /\ call' \in CallTypes /\ answer' \in Results
BY DEF TypeOK, SessionTypeOK, CallTypes

-----------------------------------------------------------------------------
(* The ways in which a step ends. *)

LEMMA Constants ==
  /\ 0 \in Accounts /\ 0 \in Indices
  /\ 0 \in 0..MaxSubaddresses /\ 1 \in 0..MaxSubaddresses
  /\ 0 \in 0..MaxKeyChanges
BY ServerAssumption DEF ServerAssumption, Accounts, Indices

(* The steps at which the methods start. *)
LEMMA FirstSteps ==
  ASSUME NEW m \in DOMAIN FirstStep
  PROVE  /\ m # "none"
         /\ FirstStep[m] \notin {"none", "fetch_account", "fetch_subaddress",
                                 "get_balance", "get_balances"}
         /\ FirstStep[m] = "open_wallet"    => m = "openWallet"
         /\ FirstStep[m] = "create_wallet"  => m = "createWallet"
         /\ FirstStep[m] = "set_daemon"     => m = "setDaemonConnection"
         /\ FirstStep[m] = "stop_wallet"    => m = "stop"
         /\ FirstStep[m] = "close_wallet"   => m = "close"
         /\ FirstStep[m] = "look_up"        => m \in {"getAddress", "isClosed"}
         /\ FirstStep[m] = "get_address"    => m = "getSubaddresses"
         /\ FirstStep[m] = "get_accounts"   => m \in {"getAccount", "getAccounts", "getAccountsByTag"}
         /\ FirstStep[m] = "create_account" => m = "createAccount"
         /\ FirstStep[m] = "create_address" => m = "createSubaddress"
         /\ FirstStep[m] = "make_multisig"  => m = "makeMultisig"
BY DEF FirstStep

LEMMA NoCallType == NoCall \in CallTypes /\ NoAnswer \in Results
BY Constants DEF NoCall, NoAddresses, NoAnswer, Calls, CallTypes, Results, Steps, AllOptions, Outcomes, Errors

LEMMA EndType ==
  ASSUME call \in CallTypes, NEW outcome \in Outcomes, NEW error \in Errors,
         NEW address \in Addresses \cup {NoAddress}, End(outcome, error, address)
  PROVE  call' \in CallTypes /\ answer' \in Results
<1>1. call' \in CallTypes
  BY NoCallType DEF End
<1>2. answer' \in Results
  BY DEF End, Calls, CallTypes, Results
<1> QED BY <1>1, <1>2

LEMMA ReturnType ==
  ASSUME call \in CallTypes, Return
  PROVE  call' \in CallTypes /\ answer' \in Results
BY EndType DEF Return, Outcomes, Errors

LEMMA ThrowType ==
  ASSUME call \in CallTypes, NEW error \in Errors, Throw(error)
  PROVE  call' \in CallTypes /\ answer' \in Results
BY EndType DEF Throw, Outcomes

LEMMA ReturnAddressType ==
  ASSUME call \in CallTypes, NEW address \in Addresses \cup {NoAddress}, ReturnAddress(address)
  PROVE  call' \in CallTypes /\ answer' \in Results
BY EndType DEF ReturnAddress, Outcomes, Errors

LEMMA GoToType ==
  ASSUME call \in CallTypes, answer \in Results, NEW step \in Steps \ {"open_wallet", "create_wallet"}, GoTo(step)
  PROVE  call' \in CallTypes /\ answer' \in Results
<1>1. call' \in CallTypes
  BY DEF GoTo, Calls, CallTypes
<1> QED BY <1>1 DEF GoTo

(* A request that fails ends its method, and the server stays as it is. *)
LEMMA RequestFailsEffect ==
  ASSUME NEW refused, RequestFails(refused)
  PROVE  /\ UNCHANGED server
         /\ \E error \in Errors : Throw(error) /\ error # "noWallet"
BY DEF RequestFails, Errors

LEMMA WalletRequestFailsEffect ==
  ASSUME NEW refused, WalletRequestFails(refused)
  PROVE  /\ UNCHANGED server
         /\ \E error \in Errors : Throw(error) /\ (error = "noWallet" => open = NoWallet)
<1>1. CASE RequestFails(open # NoWallet /\ refused)
  BY <1>1, RequestFailsEffect
<1>2. CASE running /\ open = NoWallet /\ Throw("noWallet") /\ UNCHANGED server
  BY <1>2 DEF Errors
<1> QED BY <1>1, <1>2 DEF WalletRequestFails

LEMMA FetchFailsEffect ==
  ASSUME NEW refused, FetchFails(refused)
  PROVE  /\ UNCHANGED <<server, path, cache>>
         /\ \E error \in Errors : Throw(error) /\ (error = "noWallet" => open = NoWallet)
<1>1. CASE WalletRequestFails(refused)
  BY <1>1, WalletRequestFailsEffect DEF FetchFails, KeepSession
<1>2. CASE ReplyIsLost /\ UNCHANGED server
  BY <1>2 DEF FetchFails, KeepSession, ReplyIsLost, Errors
<1> QED BY <1>1, <1>2 DEF FetchFails

(* What the server answers and what is cached of it. *)
LEMMA ServerAddressType ==
  ASSUME ServerTypeOK, NEW a \in Accounts, NEW i \in Indices
  PROVE  ServerAddress(a, i) \in Addresses \cup {NoAddress}
BY DEF ServerTypeOK, ServerAddress, HasSubaddress, Addresses

(* What the server answers is cached at once or kept until the balances are *)
(* known. *)
LEMMA AddressesType ==
  ASSUME ServerTypeOK, NEW a \in Accounts, NEW I
  PROVE  AddressesOf(a, I) \in [Indices -> Addresses \cup {NoAddress}]
BY ServerAddressType DEF AddressesOf

LEMMA PutEffect ==
  ASSUME SessionTypeOK, NEW a \in Accounts, UNCHANGED path,
         NEW addresses \in [Indices -> Addresses \cup {NoAddress}], Put(a, addresses)
  PROVE  /\ SessionTypeOK'
         /\ \A b \in Accounts, i \in Indices :
              cache'[b][i] = IF b = a /\ addresses[i] # NoAddress THEN addresses[i]
                             ELSE cache[b][i]
<1>1. [i \in Indices |-> IF addresses[i] # NoAddress THEN addresses[i] ELSE cache[a][i]]
        \in [Indices -> Addresses \cup {NoAddress}]
  BY DEF SessionTypeOK
<1>2. SessionTypeOK'
  BY <1>1 DEF Put, SessionTypeOK
<1>3. ASSUME NEW b \in Accounts, NEW i \in Indices
      PROVE  cache'[b][i] = IF b = a /\ addresses[i] # NoAddress THEN addresses[i]
                            ELSE cache[b][i]
  BY DEF Put, SessionTypeOK
<1> QED BY <1>2, <1>3

LEMMA FetchEffect ==
  ASSUME TypeOK, NEW a \in Accounts, NEW I, Fetch(a, I)
  PROVE  /\ UNCHANGED <<server, path>>
         /\ SessionTypeOK'
         /\ open \in Wallets
         /\ \A b \in Accounts, i \in Indices :
              cache'[b][i] = IF b = a /\ i \in I THEN ServerAddress(b, i) ELSE cache[b][i]
<1>1. UNCHANGED <<server, path>>
  BY DEF Fetch, Answers
<1>2. open \in Wallets
  BY DEF Fetch, Answers, HasAccount, TypeOK, ServerTypeOK
<1>3. /\ SessionTypeOK'
      /\ \A b \in Accounts, i \in Indices :
           cache'[b][i] = IF b = a /\ AddressesOf(a, I)[i] # NoAddress THEN AddressesOf(a, I)[i]
                          ELSE cache[b][i]
  BY <1>1, AddressesType, PutEffect, TypeParts DEF Fetch
<1>4. ASSUME NEW i \in Indices
      PROVE  /\ i \in I => AddressesOf(a, I)[i] = ServerAddress(a, i)
             /\ i \notin I => AddressesOf(a, I)[i] = NoAddress
             /\ i \in I => ServerAddress(a, i) # NoAddress
  <2>1. i \in I => HasSubaddress(a, i)
    BY DEF Fetch, Answers
  <2>2. i \in I => ServerAddress(a, i) \in Addresses
    BY <1>2, <2>1 DEF ServerAddress, Addresses, TypeOK, ServerTypeOK
  <2> QED BY <2>2, ServerAssumption DEF AddressesOf, ServerAssumption
<1> QED BY <1>1, <1>2, <1>3, <1>4

-----------------------------------------------------------------------------
(* Type correctness. *)

LEMMA ServerTypes ==
  ASSUME ServerTypeOK,
         \/ UNCHANGED server
         \/ \E w \in Wallets : ServerOpens(w) \/ ServerCreates(w)
         \/ ServerCloses \/ ServerStops \/ ServerRestarts
         \/ ServerAddsAccount \/ (\E a \in Accounts : ServerAddsSubaddress(a))
         \/ ServerReplacesKeys
  PROVE  ServerTypeOK'
<1> USE DEF ServerTypeOK
<1>1. CASE UNCHANGED server
  BY <1>1 DEF server
<1>2. CASE \E w \in Wallets : ServerOpens(w) \/ ServerCreates(w)
  BY <1>2 DEF ServerOpens, ServerCreates
<1>3. CASE ServerCloses \/ ServerStops \/ ServerRestarts
  BY <1>3 DEF ServerCloses, ServerStops, ServerRestarts
<1>4. CASE ServerReplacesKeys
  <2>1. open \in Wallets /\ keys[open] + 1 \in 0..MaxKeyChanges
    BY <1>4, ServerAssumption DEF ServerReplacesKeys, ServerAssumption
  <2>2. keys' \in [Wallets -> 0..MaxKeyChanges]
    BY <1>4, <2>1 DEF ServerReplacesKeys
  <2> QED BY <1>4, <2>2 DEF ServerReplacesKeys
<1>5. ASSUME NEW a \in Accounts, ServerAdds(a) PROVE ServerTypeOK'
  <2>1. open \in Wallets /\ book[open][a] + 1 \in 0..MaxSubaddresses
    BY <1>5, ServerAssumption DEF ServerAdds, ServerAssumption
  <2>2. book' \in [Wallets -> [Accounts -> 0..MaxSubaddresses]]
    BY <1>5, <2>1 DEF ServerAdds
  <2> QED BY <1>5, <2>2 DEF ServerAdds
<1>6. CASE ServerAddsAccount \/ (\E a \in Accounts : ServerAddsSubaddress(a))
  BY <1>5, <1>6 DEF ServerAddsAccount, ServerAddsSubaddress
<1> QED BY <1>1, <1>2, <1>3, <1>4, <1>6

LEMMA EmptyCacheType ==
  EmptyCache \in [Accounts -> [Indices -> Addresses \cup {NoAddress}]]
BY DEF EmptyCache, NoAddresses

LEMMA TypeInit == Init => TypeOK
<1> SUFFICES ASSUME Init PROVE TypeOK
  OBVIOUS
<1>1. ServerTypeOK
  BY Constants DEF Init, ServerInit, ServerTypeOK
<1>2. SessionTypeOK
  BY EmptyCacheType DEF Init, SessionTypeOK
<1> QED BY <1>1, <1>2, NoCallType, TypeParts DEF Init

LEMMA OptionsType == ASSUME NEW m PROVE OptionsOf(m) \subseteq AllOptions
BY DEF OptionsOf, Options, AllOptions

LEMMA BeginType ==
  ASSUME TypeOK, NEW m \in Methods, Begin(m)
  PROVE  call' \in CallTypes
<1>1. FirstStep[m] \in Steps
  BY SessionAssumption DEF SessionAssumption, Steps
<1>2. PICK w \in WalletsOf(m), o \in OptionsOf(m), a \in AccountsOf(m), i \in IndicesOf(m) :
         call' = [NoCall EXCEPT !.method = m, !.step = FirstStep[m], !.wallet = w,
                                !.option = o, !.account = a, !.index = i]
  BY DEF Begin
<1>3. o \in AllOptions
  BY OptionsType
<1>4. w \in Wallets \cup {NoWallet} /\ a \in Accounts /\ i \in Indices
  BY Constants DEF WalletsOf, AccountsOf, IndicesOf
<1>5. FirstStep[m] \in {"open_wallet", "create_wallet"} => w \in Wallets
  BY SessionAssumption, FirstSteps DEF SessionAssumption, WalletsOf
<1>6. call' \in Calls
  BY <1>1, <1>2, <1>3, <1>4, NoCallType DEF Calls, CallTypes, NoCall
<1>7. call'.step = FirstStep[m] /\ call'.wallet = w
  BY <1>2 DEF NoCall
<1> QED BY <1>5, <1>6, <1>7, ServerAssumption DEF CallTypes, ServerAssumption

LEMMA TypeNext == TypeOK /\ [Next]_vars => TypeOK'
<1> SUFFICES ASSUME TypeOK, [Next]_vars PROVE TypeOK'
  OBVIOUS
<1> USE TypeParts
<1> DEFINE Ended == call' \in CallTypes /\ answer' \in Results
<1>t. call \in CallTypes /\ answer \in Results /\ ServerTypeOK /\ SessionTypeOK
      /\ call.account \in Accounts /\ call.index \in Indices
  BY DEF Calls, CallTypes
<1>f1. ASSUME NEW error \in Errors, Throw(error) PROVE Ended
  BY <1>t, <1>f1, ThrowType
<1>f2. ASSUME NEW refused, RequestFails(refused) PROVE Ended /\ UNCHANGED server
  BY <1>f1, <1>f2, RequestFailsEffect
<1>f3. ASSUME NEW refused, WalletRequestFails(refused) PROVE Ended /\ UNCHANGED server
  BY <1>f1, <1>f3, WalletRequestFailsEffect
<1>f4. ASSUME NEW refused, FetchFails(refused) PROVE TypeOK'
  <2>1. UNCHANGED <<server, path, cache>> /\ Ended
    BY <1>f1, <1>f4, FetchFailsEffect
  <2> QED BY <1>t, <2>1, ServerTypes DEF SessionTypeOK
<1>f5. ASSUME ReplyIsLost PROVE Ended
  BY <1>f1, <1>f5 DEF ReplyIsLost, Errors
<1>f6. ASSUME Return PROVE Ended
  BY <1>t, <1>f6, ReturnType
<1>f7. ASSUME NEW step \in Steps \ {"open_wallet", "create_wallet"}, GoTo(step) PROVE Ended
  BY <1>t, <1>f7, GoToType
<1>s. {"set_daemon", "look_up", "get_address", "get_balance", "get_balances",
       "fetch_account", "fetch_subaddress"} \subseteq Steps \ {"open_wallet", "create_wallet"}
  BY DEF Steps
<1>k. ASSUME KeepSession PROVE SessionTypeOK'
  BY <1>t, <1>k DEF KeepSession, SessionTypeOK
<1>c. ASSUME Clear PROVE SessionTypeOK'
  BY <1>c, EmptyCacheType DEF Clear, SessionTypeOK
<1> HIDE DEF Ended
<1>e. ASSUME Ended, SessionTypeOK', ServerTypeOK' PROVE TypeOK'
  BY <1>e DEF Ended
<1>1. CASE \E m \in Methods : Begin(m)
  <2>1. call' \in CallTypes
    BY <1>1, BeginType
  <2>2. ServerTypeOK' /\ SessionTypeOK' /\ answer' \in Results
    BY <1>t, <1>1, ServerTypes, NoCallType DEF Begin, SessionTypeOK
  <2> QED BY <2>1, <2>2
<1>w. ASSUME StartSession, ServerTypeOK', open' = call.wallet PROVE TypeOK'
  <2>1. SessionTypeOK'
    BY <1>w, EmptyCacheType DEF StartSession, SessionTypeOK, ServerTypeOK
  <2>2. Ended
    BY <1>w, <1>f6, <1>f7, <1>s DEF StartSession
  <2> QED BY <1>w, <1>e, <2>1, <2>2
<1>2. CASE OpenWallet
  <2>1. CASE RequestFails(TRUE) /\ KeepSession
    BY <1>t, <2>1, <1>f2, <1>k, <1>e, ServerTypes
  <2>2. CASE ServerOpens(call.wallet)
    <3>1. ServerTypeOK' /\ open' = call.wallet
      BY <1>t, <2>2, ServerTypes DEF ServerOpens, ServerTypeOK
    <3> QED BY <1>2, <3>1, <1>w, <1>f5, <1>k, <1>e, <1>f2, <1>t, ServerTypes DEF OpenWallet
  <2> QED BY <1>2, <2>1, <2>2 DEF OpenWallet
<1>3. CASE CreateWallet
  <2>1. CASE RequestFails(call.wallet \in files) /\ KeepSession
    BY <1>t, <2>1, <1>f2, <1>k, <1>e, ServerTypes
  <2>2. CASE ServerCreates(call.wallet)
    <3>1. call.wallet \in Wallets
      BY <1>3, <1>t DEF CreateWallet, At, CallTypes, Calls
    <3>2. ServerTypeOK' /\ open' = call.wallet
      BY <1>t, <2>2, <3>1, ServerTypes DEF ServerCreates
    <3> QED BY <1>3, <3>2, <1>w, <1>f5, <1>k, <1>e, <1>f2, <1>t, ServerTypes DEF CreateWallet
  <2> QED BY <1>3, <2>1, <2>2 DEF CreateWallet
<1>4. CASE SetDaemonConnection
  <2>1. ServerTypeOK' /\ SessionTypeOK'
    BY <1>t, <1>4, <1>k, ServerTypes DEF SetDaemonConnection
  <2>2. Ended
    BY <1>4, <1>f1, <1>f3, <1>f5, <1>f6 DEF SetDaemonConnection, Errors
  <2> QED BY <1>e, <2>1, <2>2
<1>5. CASE Stop
  <2>1. CASE ServerStops
    BY <1>5, <1>t, <2>1, <1>c, <1>e, <1>f3, <1>f5, <1>f6, <1>k, ServerTypes DEF Stop
  <2>2. CASE WalletRequestFails(FALSE) /\ KeepSession
    BY <1>t, <2>2, <1>f3, <1>e, <1>k, ServerTypes
  <2> QED BY <1>5, <2>1, <2>2 DEF Stop
<1>6. CASE Close
  <2>1. ServerTypeOK'
    BY <1>6, <1>t, <1>f3, ServerTypes DEF Close
  <2>2. Ended
    BY <1>6, <1>f3, <1>f5, <1>f6 DEF Close
  <2> QED BY <1>6, <1>c, <1>e, <2>1, <2>2 DEF Close
<1>g. ASSUME NEW a \in Accounts, NEW I, Fetch(a, I) PROVE ServerTypeOK' /\ SessionTypeOK'
  BY <1>t, <1>g, FetchEffect, ServerTypes
<1>7. CASE LookUp
  <2>1. ServerTypeOK' /\ SessionTypeOK'
    BY <1>t, <1>7, ServerTypes DEF LookUp, SessionTypeOK
  <2>2. cache[call.account][call.index] \in Addresses \cup {NoAddress}
    BY <1>t DEF SessionTypeOK
  <2>3. Ended
    BY <1>7, <1>t, <1>f7, <1>s, <2>2, ReturnAddressType DEF LookUp, Ended
  <2> QED BY <1>e, <2>1, <2>3
<1>8. CASE FetchAccount
  BY <1>8, <1>t, <1>f4, <1>f7, <1>s, <1>e, <1>g DEF FetchAccount
<1>9. CASE FetchSubaddress
  <2>1. CASE FetchFails(~HasAccount(call.account))
    BY <2>1, <1>f4
  <2>2. CASE Fetch(call.account, AllOf(call.account))
             /\ ReturnAddress(cache'[call.account][call.index])
    <3>1. ServerTypeOK' /\ SessionTypeOK'
      BY <1>t, <1>g, <2>2
    <3>2. Ended
      BY <1>t, <2>2, <3>1, ReturnAddressType DEF SessionTypeOK, Ended
    <3> QED BY <1>e, <3>1, <3>2
  <2> QED BY <1>9, <2>1, <2>2 DEF FetchSubaddress
<1>10. CASE GetAccounts
  <2>1. CASE FetchFails(ListedAccounts = {})
    BY <2>1, <1>f4
  <2>2. CASE UNCHANGED server
    <3>1. ServerTypeOK' /\ SessionTypeOK'
      BY <1>10, <1>t, <1>k, <2>2, ServerTypes DEF GetAccounts
    <3>2. ASSUME call' = [call EXCEPT !.listed = ListedAccounts, !.step = "get_address"],
                 UNCHANGED answer
          PROVE  Ended
      <4>1. ListedAccounts \in SUBSET Accounts /\ "get_address" \in Steps
        BY <1>s DEF ListedAccounts
      <4>2. call' \in CallTypes
        BY <1>t, <3>2, <4>1 DEF CallTypes, Calls
      <4> QED BY <1>t, <3>2, <4>2 DEF Ended
    <3>3. Ended \/ FetchFails(ListedAccounts = {})
      BY <1>10, <1>f1, <1>f6, <3>2 DEF GetAccounts, Errors
    <3> QED BY <1>e, <1>f4, <3>1, <3>3
  <2> QED BY <1>10, <2>1, <2>2 DEF GetAccounts
<1>11. CASE GetAddress
  <2>1. PICK I : \/ FetchFails(~HasAccount(call.account) \/ \E i \in I : ~HasSubaddress(call.account, i))
                 \/ Fetch(call.account, I) /\ Return
                 \/ /\ Answers(call.account, I)
                    /\ call' = [call EXCEPT !.fetched = AddressesOf(call.account, I),
                                            !.step = "get_balance"]
                    /\ UNCHANGED <<cache, answer>>
    <3>1. \E I : I = IF call.option = "one" THEN {call.index} ELSE AllOf(call.account)
      OBVIOUS
    <3> QED BY <1>11, <3>1 DEF GetAddress
  <2>2. CASE /\ Answers(call.account, I)
             /\ call' = [call EXCEPT !.fetched = AddressesOf(call.account, I),
                                     !.step = "get_balance"]
             /\ UNCHANGED <<cache, answer>>
    <3>1. ServerTypeOK' /\ SessionTypeOK'
      BY <1>t, <2>2, ServerTypes DEF Answers, SessionTypeOK
    <3>2. call' \in CallTypes
      BY <1>t, <1>s, <2>2, AddressesType DEF CallTypes, Calls
    <3> QED BY <1>t, <1>e, <2>2, <3>1, <3>2 DEF Ended
  <2> QED BY <1>t, <2>1, <2>2, <1>f4, <1>f6, <1>e, <1>g
<1>12. CASE GetBalance
  <2>1. CASE Answers(call.account, {}) /\ Put(call.account, call.fetched) /\ Return
    <3>1. ServerTypeOK' /\ UNCHANGED path
      BY <1>t, <2>1, ServerTypes DEF Answers
    <3>2. call.fetched \in [Indices -> Addresses \cup {NoAddress}]
      BY <1>t DEF CallTypes, Calls
    <3>3. SessionTypeOK'
      BY <1>t, <2>1, <3>1, <3>2, PutEffect
    <3> QED BY <1>e, <1>f6, <2>1, <3>1, <3>3
  <2> QED BY <1>12, <2>1, <1>f4 DEF GetBalance
<1>13. CASE GetAddressOfNext
  <2>1. PICK a \in Unfetched :
           \/ FetchFails(~HasAccount(a))
           \/ /\ Fetch(a, AllOf(a))
              /\ call' = [call EXCEPT
                   !.sizes[a] = book[open][a],
                   !.step = IF Unfetched = {a} THEN "get_balances" ELSE "get_address"]
              /\ UNCHANGED answer
    BY <1>13 DEF GetAddressOfNext
  <2>2. a \in Accounts
    BY <1>t DEF Unfetched, CallTypes, Calls
  <2>3. CASE Fetch(a, AllOf(a)) /\ UNCHANGED answer /\
             call' = [call EXCEPT
                   !.sizes[a] = book[open][a],
                   !.step = IF Unfetched = {a} THEN "get_balances" ELSE "get_address"]
    <3>1. book[open][a] \in 0..MaxSubaddresses
      BY <1>t, <2>2, <2>3, FetchEffect DEF ServerTypeOK
    <3>2. call' \in CallTypes
      BY <1>t, <1>s, <2>2, <2>3, <3>1 DEF CallTypes, Calls
    <3>3. Ended
      BY <1>t, <2>3, <3>2 DEF Ended
    <3> QED BY <1>e, <1>g, <2>2, <2>3, <3>3
  <2> QED BY <2>1, <2>3, <1>f4
<1>14. CASE GetBalances
  BY <1>14, <1>t, <1>f1, <1>f4, <1>f6, <1>e, <1>k, ServerTypes DEF GetBalances, Errors
<1>15. CASE CreateAccount
  BY <1>15, <1>t, <1>f3, <1>f5, <1>f6, <1>e, <1>k, ServerTypes DEF CreateAccount
<1>16. CASE CreateSubaddress
  BY <1>16, <1>t, <1>f3, <1>f5, <1>f6, <1>e, <1>k, ServerTypes DEF CreateSubaddress
<1>17. CASE MakeMultisig
  BY <1>17, <1>t, <1>f3, <1>f5, <1>f6, <1>e, <1>k, ServerTypes DEF MakeMultisig
<1>18. CASE Crash \/ Restart \/ OtherClient
  <2>1. ServerTypeOK'
    BY <1>18, <1>t, ServerTypes DEF Crash, ServerCrashes, Restart, OtherClient
  <2> QED BY <1>18, <1>t, <2>1 DEF Crash, Restart, OtherClient, SessionTypeOK
<1>19. CASE UNCHANGED vars
  BY <1>19, <1>t, ServerTypes DEF vars, SessionTypeOK
<1> QED BY <1>1, <1>2, <1>3, <1>4, <1>5, <1>6, <1>7, <1>8, <1>9, <1>10, <1>11, <1>12,
           <1>13, <1>14, <1>15, <1>16, <1>17, <1>18, <1>19 DEF Next, Step

(* Every variable keeps its type. *)
THEOREM TypeCorrect == Spec => []TypeOK
BY TypeInit, TypeNext, PTL DEF Spec

-----------------------------------------------------------------------------
(* Each step belongs to the methods that send its request. *)

LEMMA EndedStep ==
  ASSUME call' = NoCall
  PROVE  StepFollowsMethod'
BY DEF StepFollowsMethod, NoCall

LEMMA Ends ==
  /\ \A error : Throw(error) => call' = NoCall
  /\ \A address : ReturnAddress(address) => call' = NoCall
  /\ Return => call' = NoCall
  /\ ReplyIsLost => call' = NoCall
  /\ \A refused : RequestFails(refused) => call' = NoCall
  /\ \A refused : WalletRequestFails(refused) => call' = NoCall
  /\ \A refused : FetchFails(refused) => call' = NoCall
<1>1. \A error : Throw(error) => call' = NoCall
  BY DEF Throw, End
<1> QED
  BY <1>1 DEF ReturnAddress, Return, ReplyIsLost, RequestFails, WalletRequestFails,
              FetchFails, End

(* The method that runs, by the step it is at. *)
LEMMA MethodOfStep ==
  ASSUME TypeOK, StepFollowsMethod
  PROVE  /\ call # NoCall <=> call.method # "none"
         /\ call.step # "none" => call.method # "none"
         /\ At("open_wallet")   => call.method = "openWallet"
         /\ At("create_wallet") => call.method = "createWallet"
         /\ At("set_daemon")    =>
              call.method \in {"openWallet", "createWallet", "setDaemonConnection"}
         /\ At("stop_wallet")   => call.method = "stop"
         /\ At("close_wallet")  => call.method = "close"
         /\ At("look_up") \/ At("fetch_account") \/ At("fetch_subaddress") =>
              call.method \in {"getAddress", "isClosed"}
         /\ At("get_accounts")  => call.method \in {"getAccount", "getAccounts", "getAccountsByTag"}
         /\ At("get_address")   => call.method \in {"getSubaddresses", "getAccount",
                                                    "getAccounts", "getAccountsByTag"}
         /\ At("get_balance")   => call.method \in {"getSubaddresses", "getAccount"}
         /\ At("get_balances")  => call.method \in {"getAccounts", "getAccountsByTag"}
         /\ At("create_account") => call.method = "createAccount"
         /\ At("create_address") => call.method = "createSubaddress"
         /\ At("make_multisig") => call.method = "makeMultisig"
<1>1. call.method \in DOMAIN FirstStep \/ call.method = "none"
  BY SessionAssumption DEF SessionAssumption, TypeOK, Calls
<1>2. CASE call.method = "none"
  BY <1>2 DEF StepFollowsMethod, NoCall, At
<1>3. CASE call.method \in DOMAIN FirstStep
  BY <1>3, FirstSteps DEF StepFollowsMethod, At, NoCall
<1> QED BY <1>1, <1>2, <1>3

LEMMA StepInit == Init => StepFollowsMethod
BY DEF Init, StepFollowsMethod, NoCall

LEMMA StepNext == TypeOK /\ StepFollowsMethod /\ [Next]_vars => StepFollowsMethod'
<1> SUFFICES ASSUME TypeOK, StepFollowsMethod, [Next]_vars PROVE StepFollowsMethod'
  OBVIOUS
<1> USE Ends, EndedStep, MethodOfStep
<1>t. call \in Calls
  BY DEF TypeOK
<1>g. ASSUME NEW step, GoTo(step)
      PROVE  /\ call'.method = call.method /\ call'.step = step
             /\ call'.fetched = call.fetched
  BY <1>t, <1>g DEF GoTo, Calls
<1>1. CASE \E m \in Methods : Begin(m)
  <2>1. PICK m \in Methods : Begin(m)
    BY <1>1
  <2>2. call'.method = m /\ call'.step = FirstStep[m] /\ call'.fetched = NoAddresses
    BY <2>1 DEF Begin, NoCall
  <2>3. m # "none"
    BY SessionAssumption, FirstSteps DEF SessionAssumption
  <2> QED BY <2>2, <2>3 DEF StepFollowsMethod
<1>2. CASE OpenWallet
  BY <1>2, <1>g DEF OpenWallet, StartSession, StepFollowsMethod, At
<1>3. CASE CreateWallet
  BY <1>3, <1>g DEF CreateWallet, StartSession, StepFollowsMethod, At
<1>4. CASE SetDaemonConnection
  BY <1>4 DEF SetDaemonConnection
<1>5. CASE Stop \/ Close
  BY <1>5 DEF Stop, Close
<1>7. CASE LookUp
  BY <1>7, <1>g DEF LookUp, StepFollowsMethod, At
<1>8. CASE FetchAccount
  <2>1. CASE GoTo("look_up")
    BY <1>8, <1>g, <2>1 DEF FetchAccount, StepFollowsMethod, FirstStep, At
  <2> QED BY <1>8, <2>1 DEF FetchAccount
<1>9. CASE FetchSubaddress
  BY <1>9 DEF FetchSubaddress
<1>10. CASE GetAccounts
  <2>1. CASE call' = [call EXCEPT !.listed = ListedAccounts, !.step = "get_address"]
    BY <1>10, <1>t, <2>1 DEF GetAccounts, StepFollowsMethod, Calls, At
  <2> QED BY <1>10, <2>1 DEF GetAccounts
<1>11. CASE GetAddress
  <2>1. ASSUME NEW addresses,
               call' = [call EXCEPT !.fetched = addresses, !.step = "get_balance"]
        PROVE  StepFollowsMethod'
    BY <1>11, <1>t, <2>1 DEF GetAddress, StepFollowsMethod, Calls
  <2> QED BY <1>11, <2>1 DEF GetAddress
<1>12. CASE GetBalance
  BY <1>12 DEF GetBalance
<1>13. CASE GetAddressOfNext
  <2>1. ASSUME NEW a, NEW n, NEW s \in {"get_balances", "get_address"},
               call' = [call EXCEPT !.sizes[a] = n, !.step = s]
        PROVE  StepFollowsMethod'
    BY <1>13, <1>t, <2>1 DEF GetAddressOfNext, StepFollowsMethod, Calls, At
  <2> QED BY <1>13, <2>1 DEF GetAddressOfNext
<1>14. CASE GetBalances
  BY <1>14 DEF GetBalances
<1>15. CASE CreateAccount \/ CreateSubaddress \/ MakeMultisig
  BY <1>15 DEF CreateAccount, CreateSubaddress, MakeMultisig
<1>16. CASE UNCHANGED call
  BY <1>16 DEF StepFollowsMethod
<1> QED BY <1>1, <1>2, <1>3, <1>4, <1>5, <1>7, <1>8, <1>9, <1>10, <1>11, <1>12,
           <1>13, <1>14, <1>15, <1>16 DEF Next, Step, Crash, Restart, OtherClient, vars

-----------------------------------------------------------------------------
(* What a step does to the session and to the server, if no reply is lost  *)
(* and nobody else uses the server. *)

SoleClient == Faults \cap {"lostReply", "otherClient"} = {}

Starts == path' = open' /\ path' \in Wallets /\ cache' = EmptyCache
Forgets == Clear /\ open' \in {open, NoWallet}
Caches == \E a \in Accounts : \E I : Fetch(a, I)
CachesFetched == Answers(call.account, {}) /\ Put(call.account, call.fetched)
Keeps == UNCHANGED <<path, cache, open>>
Dies == open' = NoWallet /\ UNCHANGED <<path, cache>>

LEMMA Effects ==
  ASSUME SoleClient, TypeOK, StepFollowsMethod, [Next]_vars
  PROVE  \/ Starts
         \/ Forgets
         \/ Caches \/ CachesFetched
         \/ Keeps /\ \/ UNCHANGED server
                     \/ ServerRestarts
                     \/ ServerAddsAccount
                     \/ \E a \in Accounts : ServerAddsSubaddress(a)
                     \/ "makeMultisig" \in Methods /\ ServerReplacesKeys
         \/ Dies /\ "crash" \in Faults
<1> DEFINE Concl ==
         \/ Starts
         \/ Forgets
         \/ Caches \/ CachesFetched
         \/ Keeps /\ \/ UNCHANGED server
                     \/ ServerRestarts
                     \/ ServerAddsAccount
                     \/ \E a \in Accounts : ServerAddsSubaddress(a)
                     \/ "makeMultisig" \in Methods /\ ServerReplacesKeys
         \/ Dies /\ "crash" \in Faults
<1>t. /\ call \in Calls /\ call.account \in Accounts
      /\ call.step \in {"open_wallet", "create_wallet"} => call.wallet \in Wallets
  BY DEF TypeOK, Calls
<1>l. ~ReplyIsLost /\ "otherClient" \notin Faults
  BY DEF SoleClient, ReplyIsLost
<1>f1. ASSUME NEW refused, RequestFails(refused) \/ WalletRequestFails(refused)
       PROVE  UNCHANGED server
  BY <1>f1, RequestFailsEffect, WalletRequestFailsEffect
<1>f2. ASSUME NEW refused, FetchFails(refused)
       PROVE  UNCHANGED <<server, path, cache>>
  BY <1>f2, FetchFailsEffect
<1>u. ASSUME UNCHANGED <<server, path, cache>> PROVE Concl
  <2>1. Keeps
    BY <1>u DEF server, Keeps
  <2>2. UNCHANGED server
    BY <1>u
  <2> QED BY <2>1, <2>2
<1>1. CASE \E m \in Methods : Begin(m)
  BY <1>1, <1>u DEF Begin
<1>2. CASE OpenWallet
  BY <1>2, <1>t, <1>l, <1>f1, <1>u
  DEF OpenWallet, ServerOpens, StartSession, Starts, At, KeepSession
<1>3. CASE CreateWallet
  BY <1>3, <1>t, <1>l, <1>f1, <1>u
  DEF CreateWallet, ServerCreates, StartSession, Starts, At, KeepSession
<1>4. CASE SetDaemonConnection
  BY <1>4, <1>f1, <1>u DEF SetDaemonConnection, KeepSession
<1>5. CASE Stop
  BY <1>5, <1>l, <1>f1, <1>u DEF Stop, ServerStops, Forgets, KeepSession
<1>6. CASE Close
  <2>1. open' \in {open, NoWallet}
    BY <1>6, <1>f1 DEF Close, ServerCloses, server
  <2> QED BY <1>6, <2>1 DEF Close, Forgets
<1>7. CASE LookUp
  BY <1>7, <1>u DEF LookUp
<1>8. CASE FetchAccount
  BY <1>8, <1>t, <1>f2, <1>u DEF FetchAccount, Caches
<1>9. CASE FetchSubaddress
  BY <1>9, <1>t, <1>f2, <1>u DEF FetchSubaddress, Caches
<1>10. CASE GetAccounts
  BY <1>10, <1>f2, <1>u DEF GetAccounts, KeepSession
<1>11. CASE GetAddress
  BY <1>11, <1>t, <1>f2, <1>u DEF GetAddress, Answers, Caches
<1>12. CASE GetBalance
  BY <1>12, <1>f2, <1>u DEF GetBalance, CachesFetched
<1>13. CASE GetAddressOfNext
  <2>1. PICK a \in Unfetched : FetchFails(~HasAccount(a)) \/ Fetch(a, AllOf(a))
    BY <1>13 DEF GetAddressOfNext
  <2>2. a \in Accounts
    BY <1>t DEF Unfetched, Calls
  <2> QED BY <1>f2, <1>u, <2>1, <2>2 DEF Caches
<1>14. CASE GetBalances
  BY <1>14, <1>f2, <1>u DEF GetBalances, KeepSession
<1>15. CASE CreateAccount
  BY <1>15, <1>f1, <1>u DEF CreateAccount, ServerAddsAccount, ServerAdds, Keeps, KeepSession
<1>16. CASE CreateSubaddress
  BY <1>16, <1>t, <1>f1, <1>u DEF CreateSubaddress, ServerAddsSubaddress, ServerAdds, Keeps, KeepSession
<1>17. CASE MakeMultisig
  <2>1. "makeMultisig" \in Methods
    BY <1>17, <1>t, MethodOfStep DEF MakeMultisig, Calls
  <2> QED BY <1>17, <1>f1, <1>u, <2>1 DEF MakeMultisig, ServerReplacesKeys, Keeps, KeepSession
<1>18. CASE Crash
  BY <1>18 DEF Crash, ServerCrashes, ServerStops, Dies
<1>19. CASE Restart
  BY <1>19 DEF Restart, ServerRestarts, Keeps
<1>20. CASE UNCHANGED vars
  BY <1>20, <1>u DEF vars
<1> QED BY <1>1, <1>2, <1>3, <1>4, <1>5, <1>6, <1>7, <1>8, <1>9, <1>10, <1>11, <1>12,
           <1>13, <1>14, <1>15, <1>16, <1>17, <1>18, <1>19, <1>20, <1>l
           DEF Next, Step, OtherClient

(* The addresses that will be cached stay what they are, or were fetched.  *)
LEMMA Fetched ==
  ASSUME SoleClient, TypeOK, StepFollowsMethod, [Next]_vars
  PROVE  \/ call'.fetched = NoAddresses
         \/ /\ UNCHANGED <<path, cache, call>>
            /\ UNCHANGED server \/ ServerRestarts \/ ("crash" \in Faults /\ open' = NoWallet)
         \/ /\ UNCHANGED <<server, path, cache>>
            /\ open \in Wallets /\ call'.account = call.account
            /\ \A i \in Indices :
                 call'.fetched[i] \in {NoAddress, ServerAddress(call.account, i)}
<1> USE DEF At
<1>t. call \in Calls /\ "otherClient" \notin Faults
  BY DEF TypeOK, SoleClient
<1>s. StepFollowsMethod'
  BY StepNext
<1>1. CASE call'.step # "get_balance"
  BY <1>1, <1>s DEF StepFollowsMethod
<1>2. CASE call'.step = "get_balance" /\ GetAddress
  <2>1. PICK I : /\ Answers(call.account, I)
                 /\ call' = [call EXCEPT !.fetched = AddressesOf(call.account, I),
                                         !.step = "get_balance"]
                 /\ UNCHANGED cache
    <3>1. \E I : I = IF call.option = "one" THEN {call.index} ELSE AllOf(call.account)
      OBVIOUS
    <3>2. call' # NoCall
      BY <1>2 DEF NoCall
    <3> QED BY <1>2, <3>1, <3>2, Ends DEF GetAddress
  <2>2. call'.account = call.account /\ call'.fetched = AddressesOf(call.account, I)
    BY <1>t, <2>1 DEF Calls
  <2>3. open \in Wallets
    BY <2>1 DEF Answers, HasAccount, TypeOK, ServerTypeOK
  <2> QED BY <2>1, <2>2, <2>3 DEF Answers, AddressesOf
<1>3. CASE Crash \/ Restart \/ UNCHANGED vars
  BY <1>3 DEF Crash, ServerCrashes, ServerStops, Restart, vars
<1>4. CASE \E m \in Methods : Begin(m)
  <2>1. PICK m \in Methods : Begin(m)
    BY <1>4
  <2>2. call'.step = FirstStep[m] /\ FirstStep[m] # "get_balance"
    BY <2>1, SessionAssumption, FirstSteps DEF SessionAssumption, Begin, NoCall
  <2> QED BY <1>1, <2>2
<1>e. ASSUME call' = NoCall PROVE call'.step # "get_balance"
  BY <1>e DEF NoCall
<1>g. ASSUME NEW step, GoTo(step) PROVE call'.step = step
  BY <1>t, <1>g DEF GoTo, Calls
<1>5. CASE OpenWallet \/ CreateWallet
  BY <1>1, <1>5, <1>e, <1>g, Ends DEF OpenWallet, CreateWallet, StartSession
<1>6. CASE SetDaemonConnection \/ Stop \/ Close \/ CreateAccount \/ CreateSubaddress \/ MakeMultisig
  BY <1>1, <1>6, <1>e, Ends
     DEF SetDaemonConnection, Stop, Close, CreateAccount, CreateSubaddress, MakeMultisig
<1>7. CASE LookUp \/ FetchAccount \/ FetchSubaddress
  BY <1>1, <1>7, <1>e, <1>g, Ends DEF LookUp, FetchAccount, FetchSubaddress
<1>8. CASE GetAccounts
  <2>1. CASE call' = [call EXCEPT !.listed = ListedAccounts, !.step = "get_address"]
    BY <1>1, <1>t, <2>1 DEF Calls
  <2> QED BY <1>1, <1>8, <1>e, <2>1, Ends DEF GetAccounts
<1>9. CASE GetBalance \/ GetBalances
  BY <1>1, <1>9, <1>e, Ends DEF GetBalance, GetBalances
<1>10. CASE GetAddressOfNext
  <2>1. ASSUME NEW a, NEW n, NEW s \in {"get_balances", "get_address"},
               call' = [call EXCEPT !.sizes[a] = n, !.step = s]
        PROVE  call'.step # "get_balance"
    BY <1>t, <2>1 DEF Calls
  <2> QED BY <1>1, <1>10, <1>e, <2>1, Ends DEF GetAddressOfNext
<1> QED BY <1>1, <1>2, <1>3, <1>4, <1>5, <1>6, <1>7, <1>8, <1>9, <1>10, <1>t
        DEF Next, Step, OtherClient

-----------------------------------------------------------------------------
(* A session is about one wallet. *)

LEMMA NothingCached ==
  /\ \A i \in Indices : NoAddresses[i] = NoAddress
  /\ \A a \in Accounts, i \in Indices : EmptyCache[a][i] = NoAddress
BY DEF EmptyCache, NoAddresses

LEMMA WalletsInit == Init => OneWallet
<1> SUFFICES ASSUME Init PROVE OneWallet
  OBVIOUS
<1>1. CachedAddresses = {}
  BY NothingCached DEF Init, CachedAddresses, NoCall, NoAddresses
<1> QED BY <1>1 DEF Init, OneWallet, SessionWallets

LEMMA CachesFetchedEffect ==
  ASSUME TypeOK, CachesFetched
  PROVE  /\ UNCHANGED <<server, path>>
         /\ \A b \in Accounts, i \in Indices :
              cache'[b][i] = IF b = call.account /\ call.fetched[i] # NoAddress
                             THEN call.fetched[i] ELSE cache[b][i]
<1>1. UNCHANGED <<server, path>>
  BY DEF CachesFetched, Answers
<1>2. /\ SessionTypeOK /\ call.account \in Accounts
      /\ call.fetched \in [Indices -> Addresses \cup {NoAddress}]
  BY DEF TypeOK, SessionTypeOK, Calls
<1> QED BY <1>1, <1>2, PutEffect DEF CachesFetched

(* The wallets of the addresses that are cached and of those that will be. *)
CacheWallets == {d.wallet : d \in {cache[a][i] : a \in Accounts, i \in Indices} \ {NoAddress}}
FetchedWallets == {d.wallet : d \in {call.fetched[i] : i \in Indices} \ {NoAddress}}

LEMMA WalletsOfSession ==
  /\ SessionWallets = ({path, open} \ {NoWallet}) \cup CacheWallets \cup FetchedWallets
  /\ SessionWallets' = ({path', open'} \ {NoWallet}) \cup CacheWallets' \cup FetchedWallets'
BY DEF SessionWallets, CachedAddresses, CacheWallets, FetchedWallets

LEMMA FetchedWalletsNext ==
  ASSUME SoleClient, TypeOK, StepFollowsMethod, [Next]_vars
  PROVE  \/ FetchedWallets' = {}
         \/ UNCHANGED <<path, cache, FetchedWallets>> /\ open' \in {open, NoWallet}
         \/ /\ FetchedWallets' \subseteq {open} /\ open \in Wallets
            /\ UNCHANGED <<server, path, cache>>
<1>1. CASE call'.fetched = NoAddresses
  BY <1>1, NothingCached DEF FetchedWallets
<1>2. CASE /\ UNCHANGED <<path, cache, call>>
           /\ UNCHANGED server \/ ServerRestarts \/ ("crash" \in Faults /\ open' = NoWallet)
  BY <1>2 DEF FetchedWallets, server, ServerRestarts
<1>3. CASE /\ UNCHANGED <<server, path, cache>> /\ open \in Wallets
           /\ \A i \in Indices :
                call'.fetched[i] \in {NoAddress, ServerAddress(call.account, i)}
  <2>1. ASSUME NEW i \in Indices, call'.fetched[i] # NoAddress
        PROVE  call'.fetched[i].wallet = open
    <3>1. call'.fetched[i] = ServerAddress(call.account, i)
      BY <1>3, <2>1
    <3> QED BY <2>1, <3>1 DEF ServerAddress
  <2> QED BY <1>3, <2>1 DEF FetchedWallets
<1> QED BY <1>1, <1>2, <1>3, Fetched

LEMMA WalletsNext ==
  ASSUME SoleClient, TypeOK, StepFollowsMethod, OneWallet, [Next]_vars
  PROVE  OneWallet'
<1> USE WalletsOfSession DEF OneWallet
<1>1. CASE FetchedWallets' \subseteq {open} /\ open \in Wallets /\ UNCHANGED <<server, path, cache>>
  <2>1. UNCHANGED <<path, open, CacheWallets>> /\ open # NoWallet
    BY <1>1, ServerAssumption DEF server, CacheWallets, ServerAssumption
  <2> QED BY <1>1, <2>1
<1>2. CASE UNCHANGED <<path, cache, FetchedWallets>> /\ open' \in {open, NoWallet}
  <2>1. CacheWallets' = CacheWallets
    BY <1>2 DEF CacheWallets
  <2> QED BY <1>2, <2>1
<1>3. CASE FetchedWallets' = {}
  <2>1. CASE Starts
    <3>1. CacheWallets' = {}
      BY <2>1, NothingCached DEF Starts, CacheWallets
    <3> QED BY <1>3, <2>1, <3>1 DEF Starts
  <2>2. CASE Forgets
    <3>1. CacheWallets' = {} /\ path' = NoWallet
      BY <2>2, NothingCached DEF Forgets, Clear, CacheWallets
    <3> QED BY <1>3, <2>2, <3>1 DEF Forgets
  <2>3. CASE Caches
    <3>a. PICK a \in Accounts : \E I : Fetch(a, I)
      BY <2>3 DEF Caches
    <3>1. PICK I : Fetch(a, I)
      BY <3>a
    <3>2. /\ UNCHANGED <<open, path>>
          /\ open \in Wallets
          /\ \A b \in Accounts, i \in Indices :
               cache'[b][i] = IF b = a /\ i \in I THEN ServerAddress(b, i) ELSE cache[b][i]
      BY <3>1, FetchEffect DEF server
    <3>3. ASSUME NEW b \in Accounts, NEW i \in Indices, cache'[b][i] # NoAddress
          PROVE  cache'[b][i].wallet \in CacheWallets \cup {open}
      <4>1. CASE b = a /\ i \in I
        <5>1. cache'[b][i] = ServerAddress(b, i)
          BY <3>2, <4>1
        <5> QED BY <3>3, <5>1 DEF ServerAddress
      <4>2. CASE cache'[b][i] = cache[b][i]
        BY <3>3, <4>2 DEF CacheWallets
      <4> QED BY <3>2, <4>1, <4>2
    <3>4. CacheWallets' \subseteq CacheWallets \cup {open}
      BY <3>3 DEF CacheWallets
    <3> QED BY <1>3, <3>2, <3>4, ServerAssumption DEF ServerAssumption
  <2>4. CASE CachesFetched
    <3>1. UNCHANGED <<open, path>>
      BY <2>4 DEF CachesFetched, Answers, server
    <3>2. ASSUME NEW b \in Accounts, NEW i \in Indices, cache'[b][i] # NoAddress
          PROVE  cache'[b][i].wallet \in CacheWallets \cup FetchedWallets
      <4>1. cache'[b][i] \in {cache[b][i], call.fetched[i]}
        BY <2>4, <3>1, CachesFetchedEffect
      <4> QED BY <3>2, <4>1 DEF CacheWallets, FetchedWallets
    <3>3. CacheWallets' \subseteq CacheWallets \cup FetchedWallets
      BY <3>2 DEF CacheWallets
    <3> QED BY <1>3, <3>1, <3>3
  <2>5. CASE Keeps \/ Dies
    <3>1. CacheWallets' = CacheWallets
      BY <2>5 DEF Keeps, Dies, CacheWallets
    <3> QED BY <1>3, <2>5, <3>1 DEF Keeps, Dies
  <2> QED BY <2>1, <2>2, <2>3, <2>4, <2>5, Effects
<1> QED BY <1>1, <1>2, <1>3, FetchedWalletsNext

(* However often requests fail and the server crashes, the path, the open  *)
(* wallet and the cache are about one wallet, if no other client uses the  *)
(* server and no reply is lost. *)
THEOREM SessionIsAboutOneWallet ==
  ASSUME SoleClient
  PROVE  Spec => []OneWallet
<1> DEFINE Inv == TypeOK /\ StepFollowsMethod /\ OneWallet
<1>1. Init => Inv
  BY TypeInit, StepInit, WalletsInit
<1>2. Inv /\ [Next]_vars => Inv'
  BY TypeNext, StepNext, WalletsNext
<1>3. Inv => OneWallet
  OBVIOUS
<1> QED BY <1>1, <1>2, <1>3, PTL DEF Spec

-----------------------------------------------------------------------------
(* The cache is true. *)

(* Besides, the server does not crash and no method replaces the keys. *)
Faithful == SoleClient /\ "crash" \notin Faults /\ "makeMultisig" \notin Methods

LEMMA TruthInit == Init => CacheIsTrue /\ FetchedIsTrue
BY NothingCached DEF Init, CacheIsTrue, FetchedIsTrue, NoCall

(* Addresses stay what they are while the same wallet is open. *)
LEMMA AddressesStay ==
  ASSUME ServerTypeOK,
         \/ UNCHANGED server
         \/ ServerRestarts
         \/ ServerAddsAccount
         \/ \E a \in Accounts : ServerAddsSubaddress(a),
         NEW a \in Accounts, NEW i \in Indices, ServerAddress(a, i) # NoAddress
  PROVE  ServerAddress(a, i)' = ServerAddress(a, i)
<1>1. open \in Wallets /\ i < book[open][a]
  BY DEF ServerAddress, HasSubaddress, ServerTypeOK
<1>2. CASE UNCHANGED server
  BY <1>2 DEF server, ServerAddress, HasSubaddress
<1>3. CASE ServerRestarts
  BY <1>3 DEF ServerRestarts, ServerAddress, HasSubaddress
<1>4. ASSUME NEW b \in Accounts, ServerAdds(b)
      PROVE  ServerAddress(a, i)' = ServerAddress(a, i)
  <2>1. UNCHANGED <<open, keys>>
    BY <1>4 DEF ServerAdds
  <2>2. book[open] \in [Accounts -> 0..MaxSubaddresses]
    BY <1>1 DEF ServerTypeOK
  <2>3. book'[open] = [book[open] EXCEPT ![b] = @ + 1]
    BY <1>1, <1>4 DEF ServerAdds, ServerTypeOK
  <2>4. i < book'[open][a]
    BY <1>1, <2>2, <2>3 DEF Indices
  <2> QED BY <1>1, <2>1, <2>4 DEF ServerAddress, HasSubaddress
<1> QED BY <1>2, <1>3, <1>4 DEF ServerAddsAccount, ServerAddsSubaddress

LEMMA TruthNext ==
  ASSUME Faithful, TypeOK, StepFollowsMethod, CacheIsTrue, FetchedIsTrue, [Next]_vars
  PROVE  CacheIsTrue'
<1> SoleClient /\ "crash" \notin Faults /\ "makeMultisig" \notin Methods
  BY DEF Faithful
<1>1. CASE Starts
  BY <1>1, NothingCached DEF Starts, CacheIsTrue
<1>2. CASE Forgets
  BY <1>2, NothingCached DEF Forgets, Clear, CacheIsTrue
<1>3. CASE Caches
  <2>1. PICK a \in Accounts : \E I : Fetch(a, I)
    BY <1>3 DEF Caches
  <2>2. PICK I : Fetch(a, I)
    BY <2>1
  <2>3. /\ UNCHANGED <<server, path>>
        /\ \A b \in Accounts, i \in Indices :
             cache'[b][i] = IF b = a /\ i \in I THEN ServerAddress(b, i) ELSE cache[b][i]
    BY <2>2, FetchEffect
  <2>4. ASSUME NEW b \in Accounts, NEW i \in Indices, cache'[b][i] # NoAddress
        PROVE  cache'[b][i] = ServerAddress(b, i)'
    <3>1. cache'[b][i] = ServerAddress(b, i)
      BY <2>3, <2>4 DEF CacheIsTrue
    <3>2. ServerAddress(b, i)' = ServerAddress(b, i)
      BY <2>3, <2>4, <3>1, AddressesStay DEF TypeOK
    <3> QED BY <3>1, <3>2
  <2>5. path' \in {NoWallet, open'}
    BY <2>3 DEF CacheIsTrue, server
  <2> QED BY <2>4, <2>5 DEF CacheIsTrue
<1>4. CASE Keeps /\ \/ UNCHANGED server
                    \/ ServerRestarts
                    \/ ServerAddsAccount
                    \/ \E a \in Accounts : ServerAddsSubaddress(a)
  <2>1. UNCHANGED <<path, cache, open>>
    BY <1>4 DEF Keeps
  <2>2. ASSUME NEW a \in Accounts, NEW i \in Indices, cache'[a][i] # NoAddress
        PROVE  cache'[a][i] = ServerAddress(a, i)'
    <3>1. cache'[a][i] = ServerAddress(a, i)
      BY <2>1, <2>2 DEF CacheIsTrue
    <3>2. ServerAddress(a, i)' = ServerAddress(a, i)
      BY <1>4, <2>2, <3>1, AddressesStay DEF TypeOK
    <3> QED BY <3>1, <3>2
  <2> QED BY <2>1, <2>2 DEF CacheIsTrue
<1>5. CASE CachesFetched
  <2>1. /\ UNCHANGED <<server, path>>
        /\ \A b \in Accounts, i \in Indices :
             cache'[b][i] = IF b = call.account /\ call.fetched[i] # NoAddress
                            THEN call.fetched[i] ELSE cache[b][i]
    BY <1>5, CachesFetchedEffect
  <2>2. ASSUME NEW b \in Accounts, NEW i \in Indices, cache'[b][i] # NoAddress
        PROVE  cache'[b][i] = ServerAddress(b, i)'
    <3>1. cache'[b][i] = ServerAddress(b, i)
      BY <2>1, <2>2 DEF CacheIsTrue, FetchedIsTrue
    <3>2. ServerAddress(b, i)' = ServerAddress(b, i)
      BY <2>1, <2>2, <3>1, AddressesStay DEF TypeOK
    <3> QED BY <3>1, <3>2
  <2>3. path' \in {NoWallet, open'}
    BY <2>1 DEF CacheIsTrue, server
  <2> QED BY <2>2, <2>3 DEF CacheIsTrue
<1> QED BY <1>1, <1>2, <1>3, <1>4, <1>5, Effects

LEMMA FetchedTruthNext ==
  ASSUME Faithful, TypeOK, StepFollowsMethod, FetchedIsTrue, [Next]_vars
  PROVE  FetchedIsTrue'
<1> SoleClient /\ "crash" \notin Faults
  BY DEF Faithful
<1>1. CASE call'.fetched = NoAddresses
  BY <1>1, NothingCached DEF FetchedIsTrue
<1>2. CASE UNCHANGED call /\ (UNCHANGED server \/ ServerRestarts)
  <2>1. ASSUME NEW i \in Indices, call'.fetched[i] # NoAddress
        PROVE  call'.fetched[i] = ServerAddress(call.account, i)'
    <3>1. call'.fetched[i] = ServerAddress(call.account, i) /\ call.account \in Accounts
      BY <1>2, <2>1 DEF FetchedIsTrue, TypeOK, Calls
    <3>2. ServerAddress(call.account, i)' = ServerAddress(call.account, i)
      BY <1>2 DEF ServerRestarts, server, ServerAddress, HasSubaddress
    <3> QED BY <1>2, <3>1, <3>2
  <2> QED BY <2>1 DEF FetchedIsTrue
<1>3. CASE /\ UNCHANGED server /\ call'.account = call.account
           /\ \A i \in Indices :
                call'.fetched[i] \in {NoAddress, ServerAddress(call.account, i)}
  BY <1>3 DEF server, ServerAddress, HasSubaddress, FetchedIsTrue
<1> QED BY <1>1, <1>2, <1>3, Fetched

LEMMA InductiveInvAlways ==
  ASSUME Faithful
  PROVE  Spec => []InductiveInv
<1>1. Init => InductiveInv
  BY TypeInit, StepInit, TruthInit DEF InductiveInv
<1>2. InductiveInv /\ [Next]_vars => InductiveInv'
  BY TypeNext, StepNext, TruthNext, FetchedTruthNext DEF InductiveInv
<1> QED BY <1>1, <1>2, PTL DEF Spec

(* What is cached is what the server would answer, and a path is set only  *)
(* while that wallet is open, if no other client uses the server, no reply *)
(* is lost, the server does not crash and no method replaces the keys. *)
THEOREM CacheStaysTrue ==
  ASSUME Faithful
  PROVE  Spec => []CacheIsTrue
<1>1. InductiveInv => CacheIsTrue
  BY DEF InductiveInv
<1> QED BY <1>1, InductiveInvAlways, PTL

-----------------------------------------------------------------------------
(* The session implements WalletService. *)

Request == [method |-> call.method, wallet |-> call.wallet,
            account |-> call.account, index |-> call.index,
            done |-> call.step = "set_daemon" /\ call.method # "setDaemonConnection"]

LEMMA SetDone ==
  ASSUME NEW m, NEW w, NEW a, NEW i, NEW d, NEW t
  PROVE  [[method |-> m, wallet |-> w, account |-> a, index |-> i, done |-> d]
            EXCEPT !.done = t]
           = [method |-> m, wallet |-> w, account |-> a, index |-> i, done |-> t]
OBVIOUS

LEMMA EndImplements ==
  ASSUME NEW outcome, NEW error, NEW address, End(outcome, error, address)
  PROVE  Service!Answer(outcome, address)
BY DEF End, Service!Answer, Service!NoRequest, NoCall

(* A method ends, without and with an effect, or goes on. *)
LEMMA ThrowImplements ==
  ASSUME InductiveInv, call.method # "none", Service!NoEffect, NEW error, Throw(error),
         error = "noWallet" => open = NoWallet
  PROVE  Service!Run
<1>1. Request # Service!NoRequest
  BY DEF Request, Service!NoRequest
<1>2. CASE call.method # "isClosed"
  <2>1. Service!Throw
    BY <1>2 DEF Throw, End, Service!Throw, Service!Answer, Service!NoRequest, NoCall
  <2> QED BY <1>1, <2>1 DEF Service!Run, Request
<1>3. CASE call.method = "isClosed"
  <2>1. Service!SayIfClosed
    BY <1>3 DEF Throw, End, Service!SayIfClosed, Service!Answer, Service!NoRequest, NoCall
  <2> QED BY <1>1, <2>1 DEF Service!Run, Request
<1> QED BY <1>2, <1>3

LEMMA ReturnImplements ==
  ASSUME InductiveInv, call.method \notin {"none", "isClosed", "getAddress"}, Return,
         \/ Service!Effect /\ ~Request.done
         \/ Service!NoEffect /\ (call.method \in Service!NeedsEffect => Request.done)
  PROVE  Service!Run
<1>1. Request # Service!NoRequest
  BY DEF Request, Service!NoRequest
<1>2. \A done : (call.method \in Service!NeedsEffect => done) => Service!Return(done)
  BY DEF Return, End, Service!Return, Service!Answer, Service!NoRequest, NoCall
<1> QED BY <1>1, <1>2 DEF Service!Run, Request

LEMMA ReturnAddressImplements ==
  ASSUME InductiveInv, call.method \in {"getAddress", "isClosed"}, Service!NoEffect,
         ReturnAddress(ServerAddress(call.account, call.index))
  PROVE  Service!Run
<1>1. Request # Service!NoRequest
  BY DEF Request, Service!NoRequest
<1>2. CASE call.method = "isClosed"
  <2>1. Service!SayIfClosed
    <3>1. End("false", "none", NoAddress)
      BY <1>2 DEF ReturnAddress
    <3> QED BY <1>2, <3>1, EndImplements DEF Service!SayIfClosed
  <2> QED BY <1>1, <2>1 DEF Service!Run, Request
<1>3. CASE call.method = "getAddress"
  <2>1. \A done : Service!Return(done)
    <3>1. End("returns", "none", ServerAddress(call.account, call.index))
      BY <1>3 DEF ReturnAddress
    <3>2. Service!Answer("returns", ServerAddress(call.account, call.index))
      BY <3>1, EndImplements
    <3> QED BY <1>3, <3>2 DEF Service!Return, Service!NeedsEffect, ServerAddress,
               HasSubaddress, Service!ServerAddress, Service!HasSubaddress
  <2> QED BY <1>1, <2>1 DEF Service!Run, Request
<1> QED BY <1>2, <1>3

LEMMA GoOnImplements ==
  ASSUME InductiveInv, call.method # "none", UNCHANGED answer,
         \/ Service!Effect /\ ~Request.done /\ Request' = [Request EXCEPT !.done = TRUE]
         \/ Service!NoEffect /\ Request' = Request
  PROVE  Service!Run
<1>1. Request # Service!NoRequest
  BY DEF Request, Service!NoRequest
<1>2. CASE Service!Effect /\ ~Request.done /\ Request' = [Request EXCEPT !.done = TRUE]
  <2>1. Service!GoOn(Request.done \/ TRUE)
    BY <1>2 DEF Service!GoOn, Request
  <2> QED BY <1>1, <1>2, <2>1 DEF Service!Run, Request
<1>3. CASE Service!NoEffect /\ Request' = Request
  <2>1. Request.done \in BOOLEAN /\ (Request.done \/ FALSE) = Request.done
    BY DEF Request
  <2>2. Request' = [Request EXCEPT !.done = Request.done]
    BY <1>3 DEF Request
  <2>3. Service!GoOn(Request.done \/ FALSE)
    BY <2>1, <2>2 DEF Service!GoOn, Request
  <2> QED BY <1>1, <1>3, <2>3 DEF Service!Run, Request
<1> QED BY <1>2, <1>3

LEMMA BeginImplements ==
  ASSUME InductiveInv, NEW m \in Methods, Begin(m)
  PROVE  Service!Invoke
<1>1. m \in Service!Operations
  BY SessionAssumption DEF SessionAssumption, FirstStep, Service!Operations
<1>2. PICK w \in WalletsOf(m), o \in OptionsOf(m), a \in AccountsOf(m), i \in IndicesOf(m) :
         call' = [NoCall EXCEPT !.method = m, !.step = FirstStep[m], !.wallet = w,
                                !.option = o, !.account = a, !.index = i]
  BY DEF Begin
<1>3. w \in Wallets \cup {NoWallet} /\ a \in Accounts /\ i \in Indices
  BY Constants DEF WalletsOf, AccountsOf, IndicesOf
<1>4. /\ call'.method = m /\ call'.wallet = w /\ call'.account = a /\ call'.index = i
      /\ call'.step = FirstStep[m]
  BY <1>2 DEF NoCall
<1>5. ~(call'.step = "set_daemon" /\ call'.method # "setDaemonConnection")
  BY <1>4, SessionAssumption, FirstSteps DEF SessionAssumption
<1>6. Request' \in [method: Service!Operations, wallet: Wallets \cup {NoWallet},
                    account: Accounts, index: Indices, done: {FALSE}]
  BY <1>1, <1>3, <1>4, <1>5 DEF Request
<1>7. Request = Service!NoRequest
  BY DEF Begin, Request, NoCall, Service!NoRequest
<1>8. UNCHANGED <<server, path>> /\ answer' = NoAnswer
  BY DEF Begin
<1> QED BY <1>6, <1>7, <1>8 DEF Service!Invoke, Request, Accounts, Service!Accounts, Indices,
           Service!Indices, server, Service!server, NoAnswer, Service!NoAnswer

LEMMA Implementation ==
  ASSUME Faithful, InductiveInv, [Next]_vars
  PROVE  [Service!Next]_(Service!vars)
<1>m. /\ TypeOK /\ StepFollowsMethod /\ CacheIsTrue
      /\ call \in Calls /\ call.account \in Accounts /\ call.index \in Indices
      /\ call.step \in {"open_wallet", "create_wallet"} => call.wallet \in Wallets
  BY DEF InductiveInv, TypeOK, Calls
<1>l. ~ReplyIsLost /\ "otherClient" \notin Faults /\ "crash" \notin Faults
  BY DEF Faithful, SoleClient, ReplyIsLost
<1>r. ASSUME Service!Run PROVE [Service!Next]_(Service!vars)
  BY <1>r DEF Service!Next
<1>n. ASSUME UNCHANGED <<server, path>> PROVE Service!NoEffect
  BY <1>n DEF Service!NoEffect, server, Service!server
<1>t. ASSUME call.method # "none", NEW error, Throw(error), error # "noWallet",
             UNCHANGED <<server, path>>
      PROVE  Service!Run
  BY <1>n, <1>t, ThrowImplements
<1>f. ASSUME call.method # "none", UNCHANGED path, NEW refused,
             RequestFails(refused) \/ WalletRequestFails(refused)
      PROVE  Service!Run
  <2>1. /\ UNCHANGED server
        /\ \E error : Throw(error) /\ (error = "noWallet" => open = NoWallet)
    BY <1>f, RequestFailsEffect, WalletRequestFailsEffect
  <2> QED BY <1>f, <1>n, <2>1, ThrowImplements
<1>g. ASSUME call.method # "none", NEW refused, FetchFails(refused) PROVE Service!Run
  BY <1>g, <1>f, <1>l DEF FetchFails, KeepSession
<1>p. ASSUME call.method \notin {"none", "isClosed", "getAddress"}, Return,
             call.method \notin Service!NeedsEffect \/ Request.done,
             UNCHANGED <<server, path>>
      PROVE  Service!Run
  BY <1>n, <1>p, ReturnImplements
<1>q. ASSUME NEW step, GoTo(step), step # "set_daemon", call.step # "set_daemon"
      PROVE  Request' = Request /\ UNCHANGED answer
  BY <1>m, <1>q DEF GoTo, Calls, Request
<1>s. ASSUME StartSession, call.method \in {"openWallet", "createWallet"},
             call.step # "set_daemon", Service!Effect
      PROVE  Service!Run
  <2>1. ~Request.done
    BY <1>s DEF Request
  <2>2. CASE Return
    BY <1>s, <2>1, <2>2, ReturnImplements
  <2>3. CASE GoTo("set_daemon")
    <3>1. Request' = [Request EXCEPT !.done = TRUE] /\ UNCHANGED answer
      <4>1. /\ call'.method = call.method /\ call'.wallet = call.wallet
            /\ call'.account = call.account /\ call'.index = call.index
            /\ call'.step = "set_daemon" /\ UNCHANGED answer
        BY <1>m, <2>3 DEF GoTo, Calls
      <4>2. (call'.step = "set_daemon" /\ call'.method # "setDaemonConnection") = TRUE
        BY <1>s, <4>1
      <4> DEFINE done == [method |-> call.method, wallet |-> call.wallet,
                          account |-> call.account, index |-> call.index, done |-> TRUE]
      <4>3. Request' = done
        BY <4>1, <4>2 DEF Request
      <4>4. [Request EXCEPT !.done = TRUE] = done
        <5>1. PICK t : t = TRUE
          OBVIOUS
        <5>2. [Request EXCEPT !.done = t] =
                [method |-> call.method, wallet |-> call.wallet,
                 account |-> call.account, index |-> call.index, done |-> t]
          BY SetDone DEF Request
        <5> QED BY <5>1, <5>2, Zenon
      <4> QED BY <4>1, <4>3, <4>4
    <3> QED BY <1>s, <2>1, <3>1, GoOnImplements
  <2> QED BY <1>s, <2>2, <2>3 DEF StartSession
<1>1. CASE \E m \in Methods : Begin(m)
  BY <1>1, BeginImplements DEF Service!Next
<1>2. CASE OpenWallet
  <2>1. call.method = "openWallet"
    BY <1>2, <1>m, MethodOfStep DEF OpenWallet
  <2>2. CASE RequestFails(TRUE) /\ KeepSession
    BY <1>f, <1>r, <2>1, <2>2 DEF KeepSession
  <2>3. CASE ServerOpens(call.wallet) /\ StartSession
    <3>1. Service!Effect
      BY <1>2, <2>1, <2>3 DEF OpenWallet, At, StartSession, ServerOpens, Service!Effect,
         Service!Opens, Service!ServerOpens
    <3> QED BY <1>2, <1>r, <1>s, <2>1, <2>3, <3>1 DEF OpenWallet, At
  <2> QED BY <1>2, <1>l, <2>2, <2>3 DEF OpenWallet
<1>3. CASE CreateWallet
  <2>1. call.method = "createWallet"
    BY <1>3, <1>m, MethodOfStep DEF CreateWallet
  <2>2. CASE RequestFails(call.wallet \in files) /\ KeepSession
    BY <1>f, <1>r, <2>1, <2>2 DEF KeepSession
  <2>3. CASE ServerCreates(call.wallet) /\ StartSession
    <3>1. Service!Effect
      BY <1>3, <2>1, <2>3 DEF CreateWallet, At, StartSession, ServerCreates, Service!Effect,
         Service!Opens, Service!ServerCreates
    <3> QED BY <1>3, <1>r, <1>s, <2>1, <2>3, <3>1 DEF CreateWallet, At
  <2> QED BY <1>3, <1>l, <2>2, <2>3 DEF CreateWallet
<1>4. CASE SetDaemonConnection
  <2>1. call.method \in {"openWallet", "createWallet", "setDaemonConnection"}
    BY <1>4, <1>m, MethodOfStep DEF SetDaemonConnection
  <2>2. UNCHANGED <<server, path>>
    BY <1>4 DEF SetDaemonConnection, KeepSession
  <2>3. CASE Return
    <3>1. call.method \notin Service!NeedsEffect \/ Request.done
      BY <1>4, <2>1 DEF SetDaemonConnection, At, Request, Service!NeedsEffect
    <3> QED BY <1>p, <1>r, <2>1, <2>2, <2>3, <3>1
  <2> QED BY <1>4, <1>f, <1>l, <1>r, <1>t, <2>1, <2>2, <2>3 DEF SetDaemonConnection
<1>5. CASE Stop
  <2>1. call.method = "stop" /\ ~Request.done
    BY <1>5, <1>m, MethodOfStep DEF Stop, At, Request
  <2>2. CASE WalletRequestFails(FALSE) /\ KeepSession
    BY <1>f, <1>r, <2>1, <2>2 DEF KeepSession
  <2>3. CASE ServerStops /\ Clear /\ Return
    <3>1. Service!Effect
      BY <2>1, <2>3 DEF Clear, ServerStops, Request, Service!Effect, Service!Ends,
         Service!ServerStops
    <3> QED BY <1>r, <2>1, <2>3, <3>1, ReturnImplements
  <2> QED BY <1>5, <1>l, <2>2, <2>3 DEF Stop
<1>6. CASE Close
  <2>1. call.method = "close" /\ ~Request.done /\ path' = NoWallet
    BY <1>6, <1>m, MethodOfStep DEF Close, At, Request, Clear
  <2>2. CASE WalletRequestFails(FALSE)
    <3>1. /\ UNCHANGED server
          /\ \E error : Throw(error) /\ (error = "noWallet" => open = NoWallet)
      BY <2>2, WalletRequestFailsEffect
    <3>2. Service!NoEffect
      BY <2>1, <3>1 DEF Service!NoEffect, server, Service!server
    <3> QED BY <1>r, <2>1, <3>1, <3>2, ThrowImplements
  <2>3. CASE ServerCloses /\ Return
    <3>1. Service!Effect
      BY <2>1, <2>3 DEF ServerCloses, Request, Service!Effect, Service!Ends,
         Service!ServerCloses
    <3> QED BY <1>r, <2>1, <2>3, <3>1, ReturnImplements
  <2> QED BY <1>6, <1>l, <2>2, <2>3 DEF Close
<1>7. CASE LookUp
  <2>1. call.method \in {"getAddress", "isClosed"} /\ call.step # "set_daemon"
    BY <1>7, <1>m, MethodOfStep DEF LookUp, At
  <2>2. Service!NoEffect
    BY <1>7, <1>n DEF LookUp
  <2>3. CASE GoTo("fetch_account") \/ GoTo("fetch_subaddress")
    BY <1>q, <1>r, <2>1, <2>2, <2>3, GoOnImplements
  <2>4. CASE /\ ReturnAddress(cache[call.account][call.index])
             /\ cache[call.account][call.index] # NoAddress
    <3>1. cache[call.account][call.index] = ServerAddress(call.account, call.index)
      BY <1>m, <2>4 DEF CacheIsTrue
    <3> QED BY <1>r, <2>1, <2>2, <2>4, <3>1, ReturnAddressImplements
  <2> QED BY <1>7, <2>3, <2>4 DEF LookUp
<1>8. CASE FetchAccount
  <2>1. call.method \in {"getAddress", "isClosed"} /\ call.step # "set_daemon"
    BY <1>8, <1>m, MethodOfStep DEF FetchAccount, At
  <2>2. CASE FetchFails(~HasAccount(call.account))
    BY <1>g, <1>r, <2>1, <2>2
  <2>3. CASE Fetch(call.account, AllOf(call.account)) /\ GoTo("look_up")
    <3>1. Service!NoEffect
      BY <1>m, <1>n, <2>3, FetchEffect
    <3> QED BY <1>q, <1>r, <2>1, <2>3, <3>1, GoOnImplements
  <2> QED BY <1>8, <2>2, <2>3 DEF FetchAccount
<1>9. CASE FetchSubaddress
  <2>1. call.method \in {"getAddress", "isClosed"}
    BY <1>9, <1>m, MethodOfStep DEF FetchSubaddress
  <2>2. CASE FetchFails(~HasAccount(call.account))
    BY <1>g, <1>r, <2>1, <2>2
  <2>3. CASE /\ Fetch(call.account, AllOf(call.account))
             /\ ReturnAddress(cache'[call.account][call.index])
    <3>1. Service!NoEffect
      BY <1>m, <1>n, <2>3, FetchEffect
    <3>2. cache'[call.account][call.index]
            = IF call.index \in AllOf(call.account) THEN ServerAddress(call.account, call.index)
              ELSE cache[call.account][call.index]
      BY <1>m, <2>3, FetchEffect
    <3>3. cache'[call.account][call.index] = ServerAddress(call.account, call.index)
      BY <1>m, <3>2 DEF CacheIsTrue, AllOf, ServerAddress
    <3> QED BY <1>r, <2>1, <2>3, <3>1, <3>3, ReturnAddressImplements
  <2> QED BY <1>9, <2>2, <2>3 DEF FetchSubaddress
<1>h. ASSUME call.method \in {"getSubaddresses", "getAccount", "getAccounts",
                              "getAccountsByTag"}
      PROVE  call.method \notin {"none", "isClosed", "getAddress"} \cup Service!NeedsEffect
  BY <1>h DEF Service!NeedsEffect
<1>10. CASE GetAccounts
  <2>1. call.method \in {"getAccount", "getAccounts", "getAccountsByTag"}
        /\ call.step # "set_daemon" /\ UNCHANGED path
    BY <1>10, <1>m, MethodOfStep DEF GetAccounts, At, KeepSession
  <2>2. CASE FetchFails(ListedAccounts = {})
    BY <1>g, <1>r, <2>1, <2>2
  <2>3. CASE UNCHANGED server /\ (Throw("noAccount") \/ Return)
    BY <1>h, <1>p, <1>r, <1>t, <2>1, <2>3
  <2>4. CASE /\ UNCHANGED <<server, answer>>
             /\ call' = [call EXCEPT !.listed = ListedAccounts, !.step = "get_address"]
    <3>1. Request' = Request
      BY <1>m, <2>1, <2>4 DEF Request, Calls
    <3> QED BY <1>n, <1>r, <2>1, <2>4, <3>1, GoOnImplements
  <2> QED BY <1>10, <2>2, <2>3, <2>4 DEF GetAccounts
<1>11. CASE GetAddress
  <2>1. call.method \in {"getSubaddresses", "getAccount"} /\ call.step # "set_daemon"
    BY <1>11 DEF GetAddress, At
  <2>2. PICK I : \/ FetchFails(~HasAccount(call.account) \/ \E i \in I : ~HasSubaddress(call.account, i))
                 \/ Fetch(call.account, I) /\ Return
                 \/ /\ Answers(call.account, I)
                    /\ call' = [call EXCEPT !.fetched = AddressesOf(call.account, I),
                                            !.step = "get_balance"]
                    /\ UNCHANGED <<cache, answer>>
    <3>1. \E I : I = IF call.option = "one" THEN {call.index} ELSE AllOf(call.account)
      OBVIOUS
    <3> QED BY <1>11, <3>1 DEF GetAddress
  <2>3. CASE FetchFails(~HasAccount(call.account) \/ \E i \in I : ~HasSubaddress(call.account, i))
    BY <1>g, <1>r, <2>1, <2>3
  <2>4. CASE Fetch(call.account, I) /\ Return
    <3>1. UNCHANGED <<server, path>>
      BY <1>m, <2>4, FetchEffect
    <3> QED BY <1>h, <1>p, <1>r, <2>1, <2>4, <3>1
  <2>5. CASE /\ Answers(call.account, I)
             /\ call' = [call EXCEPT !.fetched = AddressesOf(call.account, I),
                                     !.step = "get_balance"]
             /\ UNCHANGED <<cache, answer>>
    <3>1. Request' = Request
      BY <1>m, <2>1, <2>5 DEF Request, Calls
    <3>2. Service!NoEffect
      BY <1>n, <2>5 DEF Answers
    <3> QED BY <1>r, <2>1, <2>5, <3>1, <3>2, GoOnImplements
  <2> QED BY <2>2, <2>3, <2>4, <2>5
<1>12. CASE GetBalance
  BY <1>12, <1>g, <1>h, <1>p, <1>r DEF GetBalance, Answers
<1>13. CASE GetAddressOfNext
  <2>1. call.method \in {"getAccounts", "getAccountsByTag"} /\ call.step # "set_daemon"
    BY <1>13 DEF GetAddressOfNext, At
  <2>2. PICK a \in Unfetched :
           \/ FetchFails(~HasAccount(a))
           \/ /\ Fetch(a, AllOf(a))
              /\ call' = [call EXCEPT
                   !.sizes[a] = book[open][a],
                   !.step = IF Unfetched = {a} THEN "get_balances" ELSE "get_address"]
              /\ UNCHANGED answer
    BY <1>13 DEF GetAddressOfNext
  <2>3. a \in Accounts
    BY <1>m DEF Unfetched, Calls
  <2>4. CASE FetchFails(~HasAccount(a))
    BY <1>g, <1>r, <2>1, <2>4
  <2>5. CASE /\ Fetch(a, AllOf(a)) /\ UNCHANGED answer
             /\ call' = [call EXCEPT
                   !.sizes[a] = book[open][a],
                   !.step = IF Unfetched = {a} THEN "get_balances" ELSE "get_address"]
    <3>1. Request' = Request
      BY <1>m, <2>1, <2>5 DEF Request, Calls
    <3>2. Service!NoEffect
      BY <1>m, <1>n, <2>3, <2>5, FetchEffect
    <3> QED BY <1>r, <2>1, <2>5, <3>1, <3>2, GoOnImplements
  <2> QED BY <2>2, <2>4, <2>5
<1>14. CASE GetBalances
  <2>1. call.method \in {"getAccounts", "getAccountsByTag"}
    BY <1>14, <1>m, MethodOfStep DEF GetBalances
  <2> QED BY <1>14, <1>g, <1>h, <1>p, <1>r, <1>t, <2>1 DEF GetBalances, KeepSession
<1>15. CASE CreateAccount \/ CreateSubaddress
  <2>1. /\ call.method \in {"createAccount", "createSubaddress"}
        /\ ~Request.done /\ UNCHANGED path
    BY <1>15, <1>m, MethodOfStep DEF CreateAccount, CreateSubaddress, At, Request, KeepSession
  <2>2. CASE WalletRequestFails(TRUE)
    BY <1>f, <1>r, <2>1, <2>2
  <2>3. CASE Return /\ \/ call.method = "createAccount" /\ ServerAddsAccount
                       \/ call.method = "createSubaddress" /\ ServerAddsSubaddress(call.account)
    <3>1. Service!Adds
      BY <2>1, <2>3 DEF Service!Adds, ServerAddsAccount, ServerAddsSubaddress, ServerAdds,
         HasAccount, Service!ServerAddsAccount, Service!ServerAddsSubaddress,
         Service!ServerAdds, Service!HasAccount, Accounts, Service!Accounts
    <3>2. Service!Effect
      BY <2>1, <3>1 DEF Service!Effect, Request
    <3> QED BY <1>r, <2>1, <2>3, <3>2, ReturnImplements
  <2> QED BY <1>15, <1>l, <1>m, <2>2, <2>3, MethodOfStep DEF CreateAccount, CreateSubaddress
<1>17. CASE MakeMultisig
  BY <1>17, <1>m, MethodOfStep DEF MakeMultisig, Faithful, Calls
<1>18. CASE Crash
  BY <1>18, <1>l DEF Crash
<1>19. CASE Restart
  BY <1>19 DEF Restart, ServerRestarts, Service!Next, Service!Restart, Service!ServerRestarts
<1>20. CASE UNCHANGED vars
  BY <1>20 DEF vars, Service!vars, server, Service!server
<1> QED BY <1>1, <1>2, <1>3, <1>4, <1>5, <1>6, <1>7, <1>8, <1>9, <1>10, <1>11, <1>12,
           <1>13, <1>14, <1>15, <1>17, <1>18, <1>19, <1>20, <1>l
           DEF Next, Step, OtherClient

LEMMA InitImplements == Init => Service!Init
<1> SUFFICES ASSUME Init PROVE Service!Init
  OBVIOUS
<1>1. Service!ServerInit
  BY DEF Init, ServerInit, Service!ServerInit, Accounts, Service!Accounts
<1>2. (call.step = "set_daemon" /\ call.method # "setDaemonConnection") = FALSE
  BY DEF Init, NoCall
<1>3. Request = Service!NoRequest
  BY <1>2 DEF Init, NoCall, Request, Service!NoRequest
<1>4. /\ answer.method = "none" /\ answer.outcome = "none" /\ answer.address = NoAddress
      /\ path = NoWallet
  BY DEF Init, NoAnswer
<1> QED BY <1>1, <1>3, <1>4 DEF Request, Service!Init, Service!NoAnswer

(* With its cache and its many requests, a session behaves as WalletService *)
(* does with neither: what getAddress returns is what the server has then,  *)
(* methods take effect once, and return only after they did. *)
THEOREM SessionImplementsService ==
  ASSUME Faithful
  PROVE  Spec => ImplementsService
<1>1. InductiveInv /\ [Next]_vars => [Service!Next]_(Service!vars)
  BY Implementation
<1> QED BY <1>1, InitImplements, InductiveInvAlways, PTL
        DEF Spec, ImplementsService, Service!Spec

-----------------------------------------------------------------------------
(* How long a method runs, whatever the server and its other clients do. *)

(* The most steps that the method still takes: getAddress looks up twice   *)
(* at most, and the addresses of an account that was listed are requested  *)
(* once.                                                                   *)
StepsLeft ==
    CASE call.step = "none" -> 0
      [] call.step \in {"open_wallet", "create_wallet"} -> 2
      [] call.step = "look_up" -> IF IsCached(call.account) THEN 2 ELSE 4
      [] call.step = "fetch_account" -> 3
      [] call.step = "get_accounts" -> MaxAccounts + 2
      [] call.step = "get_address" ->
            IF call.method \in {"getAccounts", "getAccountsByTag"}
            THEN Cardinality(Unfetched) + 1 ELSE 2
      [] OTHER -> 1

LEMMA AccountsToFetch ==
  ASSUME NEW some \in SUBSET Accounts
  PROVE  IsFiniteSet(some) /\ Cardinality(some) \in 0..MaxAccounts
<1>1. IsFiniteSet(Accounts) /\ Cardinality(Accounts) = MaxAccounts
  BY ServerAssumption, FS_Interval DEF ServerAssumption, Accounts
<1>2. IsFiniteSet(some) /\ Cardinality(some) <= Cardinality(Accounts)
  BY <1>1, FS_Subset
<1>3. Cardinality(some) \in Nat
  BY <1>2, FS_CardinalityType
<1> QED BY <1>1, <1>2, <1>3, ServerAssumption DEF ServerAssumption

LEMMA StepsLeftType ==
  ASSUME TypeOK, StepFollowsMethod
  PROVE  /\ StepsLeft \in 0..(MaxAccounts + 3)
         /\ call.step # "none" => StepsLeft > 0
         /\ Cardinality(Unfetched) \in 0..MaxAccounts
         /\ call = NoCall <=> call.step = "none"
<1>1. Cardinality(Unfetched) \in 0..MaxAccounts
  BY AccountsToFetch DEF Unfetched, TypeOK, Calls
<1>2. MaxAccounts \in Nat \ {0}
  BY ServerAssumption DEF ServerAssumption
<1>3. StepsLeft \in 0..(MaxAccounts + 3) /\ (call.step # "none" => StepsLeft > 0)
  BY <1>1, <1>2 DEF StepsLeft
<1>4. call.method \in DOMAIN FirstStep => call.step # "none"
  BY FirstSteps DEF StepFollowsMethod
<1>5. call = NoCall <=> call.step = "none"
  BY <1>4, MethodOfStep, SessionAssumption DEF TypeOK, Calls, NoCall, SessionAssumption
<1> QED BY <1>1, <1>3, <1>5

(* What getSubaddresses fetches of an account is in the cache afterwards.  *)
LEMMA FetchCaches ==
  ASSUME TypeOK, NEW a \in Accounts, Fetch(a, AllOf(a))
  PROVE  IsCached(a)'
<1>1. 0 \in Indices /\ HasSubaddress(a, 0) /\ open \in Wallets
  BY Constants DEF Fetch, Answers, HasAccount, HasSubaddress, TypeOK, ServerTypeOK
<1>2. cache'[a][0] = ServerAddress(a, 0)
  BY <1>1, FetchEffect DEF AllOf
<1>3. ServerAddress(a, 0) \in Addresses
  BY <1>1 DEF ServerAddress, Addresses, TypeOK, ServerTypeOK
<1> QED BY <1>1, <1>2, <1>3, ServerAssumption DEF IsCached, ServerAssumption

LEMMA GetAddressCases ==
  ASSUME call \in Calls, GetAddress
  PROVE  call' = NoCall \/ call'.step = "get_balance"
<1> DEFINE a == call.account
           I == IF call.option = "one" THEN {call.index} ELSE AllOf(a)
           refused == ~HasAccount(a) \/ \E i \in I : ~HasSubaddress(a, i)
<1>1. \/ FetchFails(refused)
      \/ Return
      \/ call' = [call EXCEPT !.fetched = AddressesOf(a, I), !.step = "get_balance"]
  BY Zenon DEF GetAddress
<1> HIDE DEF a, I, refused
<1>2. CASE FetchFails(refused) \/ Return
  BY <1>2, Ends
<1>3. CASE call' = [call EXCEPT !.fetched = AddressesOf(a, I), !.step = "get_balance"]
  BY <1>3 DEF Calls
<1> QED BY <1>1, <1>2, <1>3

LEMMA GetAddressOfNextCases ==
  ASSUME TypeOK, GetAddressOfNext
  PROVE  \/ call' = NoCall
         \/ \E a \in Unfetched :
               /\ Fetch(a, AllOf(a))
               /\ call'.step \in {"get_balances", "get_address"}
               /\ call'.method = call.method /\ call'.listed = call.listed
               /\ call'.sizes = [call.sizes EXCEPT ![a] = book[open][a]]
<1>1. PICK a \in Unfetched :
         \/ FetchFails(~HasAccount(a))
         \/ /\ Fetch(a, AllOf(a))
            /\ \E step \in {"get_balances", "get_address"} :
                  call' = [call EXCEPT !.sizes[a] = book[open][a], !.step = step]
  BY Zenon DEF GetAddressOfNext
<1>2. CASE FetchFails(~HasAccount(a))
  BY <1>2, Ends
<1>3. ASSUME NEW step \in {"get_balances", "get_address"}, Fetch(a, AllOf(a)),
             call' = [call EXCEPT !.sizes[a] = book[open][a], !.step = step]
      PROVE  /\ Fetch(a, AllOf(a))
             /\ call'.step \in {"get_balances", "get_address"}
             /\ call'.method = call.method /\ call'.listed = call.listed
             /\ call'.sizes = [call.sizes EXCEPT ![a] = book[open][a]]
  BY <1>3 DEF TypeOK, Calls
<1> QED BY <1>1, <1>2, <1>3

LEMMA OneLess ==
  ASSUME NEW m \in Nat, NEW n, n = m - 1, m > 0, NEW left \in {1, n + 1}
  PROVE  left < m + 1
OBVIOUS

LEMMA StepsDecrease ==
  ASSUME TypeOK, StepFollowsMethod, Step
  PROVE  StepsLeft' < StepsLeft
<1> USE Ends
<1>t. call \in Calls /\ call.account \in Accounts /\ MaxAccounts \in Nat \ {0}
  BY ServerAssumption DEF TypeOK, Calls, ServerAssumption
<1>g. ASSUME NEW step, GoTo(step)
      PROVE  call'.step = step /\ call'.method = call.method /\ call'.account = call.account
  BY <1>t, <1>g DEF GoTo, Calls
<1>s. call.step # "none"
  <2>1. CASE OpenWallet \/ CreateWallet \/ SetDaemonConnection \/ Stop \/ Close
    BY <2>1 DEF OpenWallet, CreateWallet, SetDaemonConnection, Stop, Close, At
  <2>2. CASE LookUp \/ FetchAccount \/ FetchSubaddress \/ GetAccounts \/ GetAddress
    BY <2>2 DEF LookUp, FetchAccount, FetchSubaddress, GetAccounts, GetAddress, At
  <2>3. CASE GetBalance \/ GetBalances \/ CreateAccount \/ CreateSubaddress \/ MakeMultisig
    BY <2>3 DEF GetBalance, GetBalances, CreateAccount, CreateSubaddress, MakeMultisig, At
  <2>4. CASE GetAddressOfNext
    <3>1. At("get_address")
      BY <2>4 DEF GetAddressOfNext
    <3> QED BY <3>1 DEF At
  <2> QED BY <2>1, <2>2, <2>3, <2>4 DEF Step
<1>e. ASSUME call' = NoCall
      PROVE  StepsLeft' < StepsLeft
  <2>1. StepsLeft' = 0
    BY <1>e DEF StepsLeft, NoCall
  <2> QED BY <2>1, <1>s, StepsLeftType
<1>1. CASE OpenWallet \/ CreateWallet
  <2>1. StepsLeft = 2
    BY <1>1 DEF OpenWallet, CreateWallet, At, StepsLeft
  <2>2. CASE GoTo("set_daemon")
    BY <2>1, <2>2, <1>g DEF StepsLeft
  <2> QED BY <1>1, <1>e, <2>2 DEF OpenWallet, CreateWallet, StartSession
<1>2. CASE SetDaemonConnection \/ Stop \/ Close
  BY <1>2, <1>e DEF SetDaemonConnection, Stop, Close
<1>3. CASE LookUp
  <2>1. CASE ~IsCached(call.account) /\ GoTo("fetch_account")
    BY <1>3, <2>1, <1>g DEF LookUp, At, StepsLeft
  <2>2. CASE IsCached(call.account) /\ GoTo("fetch_subaddress")
    BY <1>3, <2>2, <1>g DEF LookUp, At, StepsLeft
  <2> QED BY <1>3, <1>e, <2>1, <2>2 DEF LookUp
<1>4. CASE FetchAccount
  <2>1. CASE Fetch(call.account, AllOf(call.account)) /\ GoTo("look_up")
    <3>1. IsCached(call.account)'
      <4> DEFINE a == call.account
      <4>1. \E i \in Indices : cache'[a][i] # NoAddress
        BY <1>t, <2>1, FetchCaches DEF IsCached
      <4> QED BY <4>1, <2>1, <1>g DEF IsCached
    <3> QED BY <1>4, <2>1, <3>1, <1>g DEF FetchAccount, At, StepsLeft
  <2> QED BY <1>4, <1>e, <2>1 DEF FetchAccount
<1>5. CASE FetchSubaddress
  BY <1>5, <1>e DEF FetchSubaddress
<1>6. CASE GetAccounts
  <2>1. StepsLeft = MaxAccounts + 2
    BY <1>6 DEF GetAccounts, At, StepsLeft
  <2>2. CASE call' = [call EXCEPT !.listed = ListedAccounts, !.step = "get_address"]
    <3>1. call'.step = "get_address" /\ call'.listed = ListedAccounts
      BY <1>t, <2>2 DEF Calls
    <3>2. Unfetched' \in SUBSET Accounts
      BY <3>1 DEF Unfetched, ListedAccounts
    <3>3. Cardinality(Unfetched') \in 0..MaxAccounts
      BY <3>2, AccountsToFetch
    <3>4. StepsLeft' \in {Cardinality(Unfetched') + 1, 2}
      BY <3>1 DEF StepsLeft
    <3> QED BY <1>t, <2>1, <3>3, <3>4
  <2> QED BY <1>6, <1>e, <2>2 DEF GetAccounts
<1>7. CASE GetAddress
  <2>1. StepsLeft = 2
    BY <1>7 DEF GetAddress, At, StepsLeft
  <2>2. CASE call'.step = "get_balance"
    <3>1. StepsLeft' = 1
      BY <2>2 DEF StepsLeft
    <3> QED BY <2>1, <3>1
  <2> QED BY <1>t, <1>7, <1>e, <2>2, GetAddressCases
<1>8. CASE GetBalance
  BY <1>8, <1>e DEF GetBalance
<1>9. CASE GetAddressOfNext
  <2>1. /\ call.step = "get_address" /\ call.method \in {"getAccounts", "getAccountsByTag"}
        /\ StepsLeft = Cardinality(Unfetched) + 1
    BY <1>9 DEF GetAddressOfNext, At, StepsLeft
  <2>2. ASSUME NEW a \in Unfetched, Fetch(a, AllOf(a)),
               call'.step \in {"get_balances", "get_address"},
               call'.method = call.method, call'.listed = call.listed,
               call'.sizes = [call.sizes EXCEPT ![a] = book[open][a]]
        PROVE  StepsLeft' < StepsLeft
    <3>1. a \in Accounts /\ call.sizes \in [Accounts -> 0..MaxSubaddresses]
      BY <1>t DEF Unfetched, Calls
    <3>2. book[open][a] > 0 /\ book[open][a] \in Nat
      <4>1. open \in Wallets /\ book[open][a] > 0
        BY <2>2 DEF Fetch, Answers, HasAccount, TypeOK, ServerTypeOK
      <4>2. book[open][a] \in 0..MaxSubaddresses
        BY <3>1, <4>1 DEF TypeOK, ServerTypeOK
      <4> QED BY <4>1, <4>2, ServerAssumption DEF ServerAssumption
    <3>3. Unfetched' = Unfetched \ {a}
      <4>1. call'.sizes[a] # 0
        BY <2>2, <3>1, <3>2
      <4>2. \A b \in Accounts \ {a} : call'.sizes[b] = call.sizes[b]
        BY <2>2, <3>1
      <4>3. call.listed \subseteq Accounts
        BY <1>t DEF Calls
      <4> QED BY <2>2, <4>1, <4>2, <4>3 DEF Unfetched
    <3>4. Unfetched \in SUBSET Accounts
      BY <1>t DEF Unfetched, Calls
    <3>5. Cardinality(Unfetched \ {a}) = Cardinality(Unfetched) - 1
      BY <2>2, <3>4, AccountsToFetch, FS_RemoveElement
    <3>6. Cardinality(Unfetched') = Cardinality(Unfetched) - 1
      BY <3>3, <3>5
    <3>7. Cardinality(Unfetched) \in Nat /\ Cardinality(Unfetched) > 0
      <4>1. IsFiniteSet(Unfetched) /\ Cardinality(Unfetched) \in Nat
        BY <3>4, AccountsToFetch
      <4>2. Cardinality(Unfetched) # 0
        BY <2>2, <4>1, FS_EmptySet
      <4> QED BY <4>1, <4>2
    <3>8. StepsLeft' \in {1, Cardinality(Unfetched') + 1}
      BY <2>1, <2>2 DEF StepsLeft
    <3> QED BY <2>1, <3>6, <3>7, <3>8, OneLess
  <2> QED BY <1>e, <1>9, <2>2, GetAddressOfNextCases
<1>10. CASE GetBalances
  BY <1>10, <1>e DEF GetBalances
<1>11. CASE CreateAccount \/ CreateSubaddress \/ MakeMultisig
  BY <1>11, <1>e DEF CreateAccount, CreateSubaddress, MakeMultisig
<1> QED BY <1>1, <1>2, <1>3, <1>4, <1>5, <1>6, <1>7, <1>8, <1>9, <1>10, <1>11 DEF Step

(* Each step of a method is one of those that are left to it, or is the    *)
(* server's or another client's.                                           *)
CallsAdvance ==
    /\ [](StepsLeft \in 0..(MaxAccounts + 3))
    /\ [][call # NoCall => \/ Step /\ StepsLeft' < StepsLeft
                           \/ (Crash \/ Restart \/ OtherClient) /\ StepsLeft' = StepsLeft]_vars

(* A method ends after a bounded number of steps, getAddress' recursion    *)
(* and getAccounts' loop included: each step brings it nearer to its end,  *)
(* and no crash, restart or other client sends it back.                    *)
THEOREM CallsAreBounded == Spec => CallsAdvance
<1> DEFINE Inv == TypeOK /\ StepFollowsMethod
<1>1. Init => Inv
  BY TypeInit, StepInit
<1>2. Inv /\ [Next]_vars => Inv'
  BY TypeNext, StepNext
<1>3. Inv => StepsLeft \in 0..(MaxAccounts + 3)
  BY StepsLeftType
<1>4. Inv /\ [Next]_vars =>
         [call # NoCall => \/ Step /\ StepsLeft' < StepsLeft
                           \/ (Crash \/ Restart \/ OtherClient) /\ StepsLeft' = StepsLeft]_vars
  <2> SUFFICES ASSUME Inv, Next, call # NoCall
               PROVE  \/ Step /\ StepsLeft' < StepsLeft
                      \/ (Crash \/ Restart \/ OtherClient) /\ StepsLeft' = StepsLeft
    OBVIOUS
  <2>1. CASE \E m \in Methods : Begin(m)
    BY <2>1 DEF Begin
  <2>2. CASE Step
    BY <2>2, StepsDecrease
  <2>3. CASE Crash \/ Restart \/ OtherClient
    <3>1. UNCHANGED <<cache, call>>
      BY <2>3 DEF Crash, Restart, OtherClient
    <3>2. StepsLeft' = StepsLeft
      BY <3>1 DEF StepsLeft, IsCached, Unfetched
    <3> QED BY <2>3, <3>2
  <2> QED BY <2>1, <2>2, <2>3 DEF Next
<1> QED BY <1>1, <1>2, <1>3, <1>4, PTL DEF Spec, CallsAdvance

=============================================================================
