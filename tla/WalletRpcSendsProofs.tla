------------------------ MODULE WalletRpcSendsProofs ------------------------
(***************************************************************************)
(* Proofs about WalletRpcSends: its inductive invariant, that the          *)
(* transactions of a method are compatible, that sweepUnlocked leaves      *)
(* nothing, and that the client implements SendService.                    *)
(***************************************************************************)
EXTENDS WalletRpcSends, TLAPS

(* Where an output is. *)
LEMMA HomeType ==
    \A o \in Outputs : Account(o) \in Accounts /\ Index(o) \in Indices
BY FundsAssumption DEF Account, Index

(* What relaying transactions does to the funds. *)
LEMMA RelaysFunds ==
    ASSUME FundsTypeOK, NEW T \in SUBSET Txs, Relays(T)
    PROVE  /\ FundsTypeOK'
           /\ Disjoint(relayed)'
           /\ T \subseteq relayed'
           /\ relayed \subseteq relayed'
           /\ Spent \subseteq Spent'
           /\ UNCHANGED <<kind, unlocked>>
BY DEF FundsTypeOK, Relays, Spent, Disjoint

(* The same of a request that relays only if it is asked to. *)
LEMMA CreatesFunds ==
    ASSUME FundsTypeOK, Disjoint(relayed), NEW T \in SUBSET Txs, Creates(T)
    PROVE  /\ FundsTypeOK'
           /\ Disjoint(relayed)'
           /\ Relaying => T \subseteq relayed'
           /\ relayed \subseteq relayed'
           /\ Spent \subseteq Spent'
           /\ UNCHANGED <<kind, unlocked>>
<1>1. CASE Relaying
  BY <1>1, RelaysFunds DEF Creates
<1>2. CASE ~Relaying
  BY <1>2 DEF Creates, funds, FundsTypeOK, Disjoint, Spent
<1> QED BY <1>1, <1>2

(* The funds after the steps of the environment. *)
LEMMA OthersFunds ==
    ASSUME FundsTypeOK, Disjoint(relayed), Unlocks \/ OthersSpend
    PROVE  /\ FundsTypeOK'
           /\ Disjoint(relayed)'
           /\ relayed \subseteq relayed'
           /\ Spent \subseteq Spent'
           /\ unlocked \subseteq unlocked'
           /\ kind' = kind
<1>1. CASE Unlocks
  BY <1>1 DEF Unlocks, FundsTypeOK, Disjoint, Spent
<1>2. CASE OthersSpend
  <2>1. PICK t \in (SUBSET Available) \ {{}} : Relays({t})
    BY <1>2 DEF OthersSpend
  <2>2. {t} \in SUBSET Txs
    BY DEF Available, Txs, FundsTypeOK
  <2> QED BY <2>1, <2>2, RelaysFunds
<1> QED BY <1>1, <1>2

(* No call is a call. *)
LEMMA NoCallType == NoCall \in Calls /\ NoAnswer \in Answers
<1>1. [a \in Accounts |-> {}] \in [Accounts -> SUBSET Indices]
  OBVIOUS
<1>2. {} \in SUBSET Txs /\ {} \in SUBSET Outputs
  OBVIOUS
<1>3. NoCall \in Calls
  BY <1>1, <1>2 DEF NoCall, Calls, Steps, Methods
<1>4. NoAnswer \in Answers
  BY DEF NoAnswer, Answers
<1> QED BY <1>3, <1>4

(* A method that ends keeps the invariant, whatever it made. *)
LEMMA EndKeeps ==
    ASSUME FundsTypeOK', Disjoint(relayed)', 
           NEW outcome \in {"returns", "unsigned", "throws"},
           NEW T \in SUBSET Txs, Disjoint(T), End(outcome, T)
    PROVE  InductiveInv'
<1>1. call' = NoCall /\ answer' = [outcome |-> outcome, txs |-> T]
  BY DEF End
<1>2. TypeOK'
  BY <1>1, NoCallType DEF TypeOK, Answers
<1>3. StepFollowsMethod'
  BY <1>1 DEF StepFollowsMethod, NoCall
<1>4. MadeInv'
  BY <1>1 DEF MadeInv, NoCall, Scope
<1>5. WantedInv'
  BY <1>1 DEF WantedInv, NoCall
<1>6. TxsCompatible'
  BY <1>1 DEF TxsCompatible, NoCall, Disjoint
<1> QED BY <1>2, <1>3, <1>4, <1>5, <1>6 DEF InductiveInv

LEMMA ThrowKeeps == ASSUME InductiveInv, Throw PROVE InductiveInv'
<1>1. FundsTypeOK' /\ Disjoint(relayed)'
  BY DEF InductiveInv, TypeOK, MadeInv, Throw, funds, FundsTypeOK, Disjoint
<1>2. End("throws", {}) /\ Disjoint({})
  BY DEF Throw, Disjoint
<1> QED BY <1>1, <1>2, EndKeeps

LEMMA UnsignedKeeps ==
    ASSUME InductiveInv, ReturnUnsigned, UNCHANGED funds PROVE InductiveInv'
<1>1. FundsTypeOK' /\ Disjoint(relayed)'
  BY DEF InductiveInv, TypeOK, MadeInv, funds, FundsTypeOK, Disjoint
<1>2. End("unsigned", {}) /\ Disjoint({})
  BY DEF ReturnUnsigned, Disjoint
<1> QED BY <1>1, <1>2, EndKeeps

LEMMA FailsKeeps ==
    ASSUME InductiveInv, NEW T \in SUBSET Txs, FailsAfter(T) PROVE InductiveInv'
<1>1. PICK U \in SUBSET T : Creates(U)
  BY DEF FailsAfter
<1>2. FundsTypeOK' /\ Disjoint(relayed)'
  BY <1>1, CreatesFunds DEF InductiveInv, TypeOK, MadeInv
<1>3. End("throws", {}) /\ Disjoint({})
  BY DEF FailsAfter, Disjoint
<1> QED BY <1>2, <1>3, EndKeeps

LEMMA ReturnKeeps ==
    ASSUME InductiveInv, NEW T \in SUBSET Txs, Creates(T),
           NEW R \in SUBSET Txs, Disjoint(R), Return(R)
    PROVE  InductiveInv'
<1>1. FundsTypeOK' /\ Disjoint(relayed)'
  BY CreatesFunds DEF InductiveInv, TypeOK, MadeInv
<1>2. End("returns", R)
  BY DEF Return
<1> QED BY <1>1, <1>2, EndKeeps

(* The transactions of a batch. *)
LEMMA BatchType ==
    ASSUME NEW T \in Batches PROVE T \in SUBSET Txs /\ Disjoint(T)
BY DEF Batches

-----------------------------------------------------------------------------
(* The initial state. *)
LEMMA InitInvariant == Init => InductiveInv
<1> SUFFICES ASSUME Init PROVE InductiveInv
  OBVIOUS
<1>1. call = NoCall /\ answer = NoAnswer /\ FundsInit
  BY DEF Init
<1>2. TypeOK
  BY <1>1, NoCallType DEF TypeOK, FundsInit, FundsTypeOK
<1>3. StepFollowsMethod
  BY <1>1 DEF StepFollowsMethod, NoCall
<1>4. MadeInv
  BY <1>1 DEF MadeInv, NoCall, Scope, FundsInit, Disjoint
<1>5. WantedInv
  BY <1>1 DEF WantedInv, NoCall
<1>6. TxsCompatible
  BY <1>1 DEF TxsCompatible, NoCall, NoAnswer, Disjoint
<1> QED BY <1>2, <1>3, <1>4, <1>5, <1>6 DEF InductiveInv

(* The calls. *)
Begun == \E c : Begin(c) /\ c.step # "none" /\ c.made = {}

LEMMA BeginKeeps ==
    ASSUME InductiveInv, NEW c, Begin(c), 
           c \in Calls, c.step # "none", c.made = {}, c.step = "relay_tx" => c.txs # {},
           StepFollowsMethod', WantedInv',
           c.step = "sweep_all" =>
             /\ c.left # {}
             /\ \A a \in c.left, o \in Outputs :
                  Account(o) = a /\ Index(o) \in c.queue[a] => o \in Scope'
    PROVE  InductiveInv' /\ Begun
<1>1. call' = c /\ answer' = NoAnswer /\ UNCHANGED funds
  BY DEF Begin
<1>2. FundsTypeOK' /\ Disjoint(relayed)'
  BY <1>1 DEF InductiveInv, TypeOK, MadeInv, funds, FundsTypeOK, Disjoint
<1>3. TypeOK'
  BY <1>1, <1>2, NoCallType DEF TypeOK
<1>4. MadeInv'
  <2>1. UNION c.made = {}
    OBVIOUS
  <2> QED BY <1>1, <1>2, <2>1 DEF MadeInv
<1>5. TxsCompatible'
  BY <1>1 DEF TxsCompatible, NoAnswer, Disjoint
<1>6. Begun
  BY DEF Begun
<1> QED BY <1>3, <1>4, <1>5, <1>6 DEF InductiveInv

(* A call that sweeps nothing yet. *)
LEMMA BeginOtherKeeps ==
    ASSUME InductiveInv, NEW c, Begin(c),
           c \in Calls, c.made = {}, c.wanted = {}, c.step = "relay_tx" => c.txs # {},
           c.step \notin {"none", "sweep_all"}, StepFollowsMethod'
    PROVE  InductiveInv' /\ Begun
<1>1. call' = c /\ UNCHANGED funds
  BY DEF Begin
<1>2. WantedInv'
  BY <1>1 DEF WantedInv
<1> QED BY <1>2, BeginKeeps

LEMMA BeginCreateTxsKeeps ==
    ASSUME InductiveInv, BeginCreateTxs PROVE InductiveInv' /\ Begun
<1>1. PICK relay, split \in BOOLEAN, a \in Accounts, I \in SUBSET Indices :
        Begin([NoCall EXCEPT !.method = "createTxs", !.relay = relay, !.split = split,
                             !.account = a, !.indices = I,
                             !.step = IF relay THEN "is_multisig" ELSE "transfer"])
  BY DEF BeginCreateTxs
<1> DEFINE step == IF relay THEN "is_multisig" ELSE "transfer"
           c == [NoCall EXCEPT !.method = "createTxs", !.relay = relay, !.split = split,
                               !.account = a, !.indices = I, !.step = step]
<1>2. step \in {"is_multisig", "transfer"}
  OBVIOUS
<1>3. c \in Calls /\ c.made = {} /\ c.wanted = {} /\ c.step = step /\ c.method = "createTxs"
  BY <1>2, NoCallType DEF NoCall, Calls, Methods, Steps
<1>4. Begin(c)
  BY <1>1
<1>5. StepFollowsMethod'
  BY <1>2, <1>3, <1>4 DEF Begin, StepFollowsMethod
<1> QED BY <1>2, <1>3, <1>4, <1>5, BeginOtherKeeps

LEMMA BeginSweepOutputKeeps ==
    ASSUME InductiveInv, BeginSweepOutput PROVE InductiveInv' /\ Begun
<1>1. PICK relay \in BOOLEAN, o \in unlocked :
        Begin([NoCall EXCEPT !.method = "sweepOutput", !.relay = relay,
                             !.txs = {{o}}, !.step = "sweep_single"])
  BY DEF BeginSweepOutput
<1> DEFINE c == [NoCall EXCEPT !.method = "sweepOutput", !.relay = relay,
                               !.txs = {{o}}, !.step = "sweep_single"]
<1>2. {{o}} \in SUBSET Txs
  <2>1. {o} \in SUBSET Outputs
    BY DEF InductiveInv, TypeOK, FundsTypeOK
  <2>2. {o} \in Txs
    BY <2>1 DEF Txs
  <2> QED BY <2>2
<1>3. /\ c \in Calls /\ c.made = {} /\ c.wanted = {} /\ c.step = "sweep_single"
      /\ c.method = "sweepOutput" /\ c.txs = {{o}}
  BY <1>2, NoCallType DEF NoCall, Calls, Methods, Steps
<1>4. Begin(c)
  BY <1>1
<1>5. StepFollowsMethod'
  BY <1>3, <1>4 DEF Begin, StepFollowsMethod, Disjoint
<1> QED BY <1>3, <1>4, <1>5, BeginOtherKeeps

LEMMA BeginSweepDustKeeps ==
    ASSUME InductiveInv, BeginSweepDust PROVE InductiveInv' /\ Begun
<1>1. PICK relay \in BOOLEAN :
        Begin([NoCall EXCEPT !.method = "sweepDust", !.relay = relay, !.step = "sweep_dust"])
  BY DEF BeginSweepDust
<1> DEFINE c == [NoCall EXCEPT !.method = "sweepDust", !.relay = relay, !.step = "sweep_dust"]
<1>2. c \in Calls /\ c.made = {} /\ c.wanted = {} /\ c.step = "sweep_dust" /\ c.method = "sweepDust"
  BY NoCallType DEF NoCall, Calls, Methods, Steps
<1>3. Begin(c)
  BY <1>1
<1>4. StepFollowsMethod'
  BY <1>2, <1>3 DEF Begin, StepFollowsMethod
<1> QED BY <1>2, <1>3, <1>4, BeginOtherKeeps

LEMMA BeginRelayKeeps ==
    ASSUME InductiveInv, BeginRelay PROVE InductiveInv' /\ Begun
<1> DEFINE relayTxs(T) == [NoCall EXCEPT !.method = "relayTxs", !.relay = TRUE, !.txs = T,
                                         !.step = "relay_tx"]
           submitTxs(T) == [NoCall EXCEPT !.method = "submitTxs", !.relay = TRUE, !.txs = T,
                                          !.step = "submit_transfer"]
<1>1. PICK T \in SUBSET {t \in Txs : t \subseteq unlocked} :
        T # {} /\ (Begin(relayTxs(T)) \/ Begin(submitTxs(T)))
  BY DEF BeginRelay
<1>2. T \in SUBSET Txs
  OBVIOUS
<1>3. CASE Begin(relayTxs(T))
  <2> DEFINE c == relayTxs(T)
  <2>1. c \in Calls /\ c.made = {} /\ c.wanted = {} /\ c.step = "relay_tx" /\ c.method = "relayTxs"
        /\ c.relay /\ c.txs = T
    BY <1>2, NoCallType DEF NoCall, Calls, Methods, Steps
  <2>2. StepFollowsMethod'
    BY <1>3, <2>1 DEF Begin, StepFollowsMethod
  <2> HIDE DEF relayTxs
  <2> QED BY <1>1, <1>3, <2>1, <2>2, BeginOtherKeeps
<1>4. CASE Begin(submitTxs(T))
  <2> DEFINE c == submitTxs(T)
  <2>1. c \in Calls /\ c.made = {} /\ c.wanted = {} /\ c.step = "submit_transfer"
        /\ c.method = "submitTxs" /\ c.relay
    BY <1>2, NoCallType DEF NoCall, Calls, Methods, Steps
  <2>2. StepFollowsMethod'
    BY <1>4, <2>1 DEF Begin, StepFollowsMethod
  <2> HIDE DEF submitTxs
  <2> QED BY <1>4, <2>1, <2>2, BeginOtherKeeps
<1> QED BY <1>1, <1>3, <1>4

(* A sweep begins with the outputs it wants all to be found. *)
LEMMA BeginSweepUnlockedKeeps ==
    ASSUME InductiveInv, BeginSweepUnlocked PROVE InductiveInv' /\ Begun
<1> DEFINE left(a) == {a} \ {NoAccount}
           queue(a, I) == [b \in Accounts |-> IF b = a THEN I ELSE {}]
           wanted(a, I) == Available \cap OutputsOf(a, I)
           step(a, I) == IF a = NoAccount THEN "get_accounts"
                         ELSE IF I = {} THEN "get_balance" ELSE "sweep_all"
           C(relay, a, I) == [NoCall EXCEPT
                !.method = "sweepUnlocked", !.relay = relay, !.account = a, !.indices = I,
                !.left = left(a), !.queue = queue(a, I), !.wanted = wanted(a, I),
                !.step = step(a, I)]
<1>1. PICK relay \in BOOLEAN, a \in Accounts \cup {NoAccount} :
      \E I \in IF a = NoAccount THEN {{}} ELSE SUBSET Indices : Begin(C(relay, a, I))
  BY DEF BeginSweepUnlocked
<1>2. PICK I \in IF a = NoAccount THEN {{}} ELSE SUBSET Indices : Begin(C(relay, a, I))
  BY <1>1
<1> DEFINE c == C(relay, a, I)
<1>3. I \in SUBSET Indices /\ (a = NoAccount => I = {})
  OBVIOUS
<1>4. /\ left(a) \in SUBSET Accounts
      /\ queue(a, I) \in [Accounts -> SUBSET Indices]
      /\ wanted(a, I) \in SUBSET Outputs
      /\ step(a, I) \in {"get_accounts", "get_balance", "sweep_all"}
  BY <1>3 DEF OutputsOf
<1>5. /\ c \in Calls /\ c.made = {} /\ c.method = "sweepUnlocked" /\ c.step = step(a, I)
      /\ c.left = left(a) /\ c.queue = queue(a, I) /\ c.wanted = wanted(a, I)
      /\ c.account = a /\ c.indices = I
  <2> HIDE DEF left, queue, wanted, step
  <2> QED BY <1>3, <1>4, NoCallType DEF NoCall, Calls, Methods, Steps
<1> HIDE DEF C
<1>6. call' = c /\ UNCHANGED funds
  BY <1>2 DEF Begin
<1>7. StepFollowsMethod'
  BY <1>4, <1>5, <1>6 DEF StepFollowsMethod
<1>8. Scope' = OutputsOf(a, I)
  BY <1>5, <1>6 DEF Scope
<1>9. WantedInv'
  <2>1. c.wanted \subseteq unlocked
    BY <1>5 DEF Available
  <2>2. ASSUME c.step = "get_balance", NEW o \in c.wanted PROVE Account(o) \in c.left
    BY <1>5, <2>2 DEF OutputsOf
  <2>3. ASSUME c.step = "sweep_all", NEW o \in c.wanted
        PROVE  Account(o) \in c.left /\ Index(o) \in c.queue[Account(o)]
    BY <1>5, <2>3 DEF OutputsOf
  <2> QED BY <1>6, <2>1, <2>2, <2>3 DEF WantedInv, funds
<1>10. ASSUME c.step = "sweep_all"
       PROVE  /\ c.left # {}
              /\ \A b \in c.left, o \in Outputs :
                   Account(o) = b /\ Index(o) \in c.queue[b] => o \in Scope'
  BY <1>5, <1>8, <1>10 DEF OutputsOf
<1>11. c.step \notin {"none", "relay_tx"}
  BY <1>4, <1>5
<1> QED BY <1>2, <1>5, <1>7, <1>9, <1>10, <1>11, BeginKeeps

-----------------------------------------------------------------------------
(* The requests. *)

LEMMA IsMultisigKeeps ==
    ASSUME InductiveInv, IsMultisig PROVE InductiveInv'
<1>1. CASE Throw
  BY <1>1, ThrowKeeps
<1>2. CASE GoTo("transfer") /\ UNCHANGED funds
  <2>1. call \in Calls /\ call.step = "is_multisig"
    BY DEF InductiveInv, TypeOK, IsMultisig, At
  <2>2. call.method = "createTxs" /\ call.made = {}
    BY <2>1 DEF InductiveInv, StepFollowsMethod
  <2>3. /\ call' \in Calls /\ call'.step = "transfer"
        /\ \A f \in DOMAIN call \ {"step"} : call'[f] = call[f]
        /\ call'.method = call.method /\ call'.made = call.made /\ call'.wanted = call.wanted
    BY <1>2, <2>1 DEF GoTo, Calls, Steps
  <2>4. TypeOK'
    BY <1>2, <2>3 DEF GoTo, InductiveInv, TypeOK, funds, FundsTypeOK
  <2>5. StepFollowsMethod'
    BY <2>2, <2>3 DEF StepFollowsMethod
  <2>6. MadeInv'
    BY <1>2, <2>2, <2>3 DEF InductiveInv, MadeInv, funds, Disjoint
  <2>7. WantedInv'
    BY <1>2, <2>3 DEF InductiveInv, WantedInv, funds
  <2>8. TxsCompatible'
    BY <1>2, <2>2, <2>3 DEF GoTo, InductiveInv, TxsCompatible, Disjoint
  <2> QED BY <2>4, <2>5, <2>6, <2>7, <2>8 DEF InductiveInv
<1> QED BY <1>1, <1>2 DEF IsMultisig

LEMMA TransferKeeps ==
    ASSUME InductiveInv, Transfer PROVE InductiveInv'
<1>1. CASE Throw
  BY <1>1, ThrowKeeps
<1>2. CASE ReturnUnsigned /\ UNCHANGED funds
  BY <1>2, UnsignedKeeps
<1>3. ASSUME NEW T \in TransfersOf(Available \cap Scope),
             FailsAfter(T) \/ (Creates(T) /\ Return(T))
      PROVE  InductiveInv'
  <2>1. T \in SUBSET Txs /\ Disjoint(T)
    BY BatchType DEF TransfersOf
  <2> QED BY <1>3, <2>1, FailsKeeps, ReturnKeeps
<1> QED BY <1>1, <1>2, <1>3 DEF Transfer

LEMMA SweepOutputKeeps ==
    ASSUME InductiveInv, SweepOutput PROVE InductiveInv'
<1>1. CASE Throw
  BY <1>1, ThrowKeeps
<1>2. CASE ReturnUnsigned /\ UNCHANGED funds
  BY <1>2, UnsignedKeeps
<1>3. CASE FailsAfter(call.txs) \/ (Creates(call.txs) /\ Return(call.txs))
  <2>1. call.txs \in SUBSET Txs
    BY DEF InductiveInv, TypeOK, Calls
  <2>2. Disjoint(call.txs)
    BY DEF InductiveInv, StepFollowsMethod, SweepOutput, At, Disjoint
  <2> QED BY <1>3, <2>1, <2>2, FailsKeeps, ReturnKeeps
<1> QED BY <1>1, <1>2, <1>3 DEF SweepOutput

LEMMA SweepDustKeeps ==
    ASSUME InductiveInv, SweepDust PROVE InductiveInv'
<1>1. CASE Throw
  BY <1>1, ThrowKeeps
<1>2. CASE ReturnUnsigned /\ UNCHANGED funds
  BY <1>2, UnsignedKeeps
<1>3. ASSUME NEW T \in SweepsOf(Available \cap Dust),
             FailsAfter(T) \/ (Creates(T) /\ Return(T))
      PROVE  InductiveInv'
  <2>1. T \in SUBSET Txs /\ Disjoint(T)
    BY BatchType DEF SweepsOf
  <2> QED BY <1>3, <2>1, FailsKeeps, ReturnKeeps
<1> QED BY <1>1, <1>2, <1>3 DEF SweepDust

(* Every account with an output that can be spent is listed. *)
LEMMA GetAccountsKeeps ==
    ASSUME InductiveInv, GetAccounts PROVE InductiveInv'
<1>1. CASE End("throws", {})
  BY <1>1, ThrowKeeps DEF GetAccounts, Throw
<1>2. CASE /\ call' = [call EXCEPT !.left = {Account(o) : o \in Available},
                                   !.step = "get_balance"]
           /\ UNCHANGED answer
  <2> DEFINE L == {Account(o) : o \in Available}
  <2>1. call \in Calls /\ call.step = "get_accounts" /\ UNCHANGED funds
    BY DEF InductiveInv, TypeOK, GetAccounts, At
  <2>2. call.method = "sweepUnlocked" /\ call.made = {}
    BY <2>1 DEF InductiveInv, StepFollowsMethod
  <2>3. L \in SUBSET Accounts
    BY HomeType DEF Available, InductiveInv, TypeOK, FundsTypeOK
  <2>4. /\ call' \in Calls /\ call'.step = "get_balance" /\ call'.left = L
        /\ call'.method = call.method /\ call'.made = call.made /\ call'.wanted = call.wanted
        /\ call'.account = call.account /\ call'.indices = call.indices
    <3>1. call' = [call EXCEPT !.left = L, !.step = "get_balance"]
      BY <1>2
    <3> HIDE DEF L
    <3> QED BY <2>1, <2>3, <3>1 DEF Calls, Steps
  <2>5. TypeOK'
    BY <1>2, <2>1, <2>4 DEF InductiveInv, TypeOK, funds, FundsTypeOK
  <2>6. StepFollowsMethod'
    BY <2>1, <2>2, <2>4 DEF InductiveInv, StepFollowsMethod
  <2>7. MadeInv'
    BY <2>1, <2>2, <2>4 DEF InductiveInv, MadeInv, funds, Disjoint
  <2>8. WantedInv'
    BY <2>1, <2>4 DEF InductiveInv, WantedInv, funds, Available, Spent
  <2>9. TxsCompatible'
    BY <1>2, <2>2, <2>4 DEF InductiveInv, TxsCompatible, Disjoint
  <2> QED BY <2>5, <2>6, <2>7, <2>8, <2>9 DEF InductiveInv
<1> QED BY <1>1, <1>2 DEF GetAccounts

(* Every subaddress of a listed account with an output that can be spent   *)
(* is listed. *)
LEMMA GetBalanceKeeps ==
    ASSUME InductiveInv, GetBalance PROVE InductiveInv'
<1>1. CASE End("throws", {})
  BY <1>1, ThrowKeeps DEF GetBalance, Throw
<1>2. CASE Return({})
  <2>1. FundsTypeOK' /\ Disjoint(relayed)' /\ Disjoint({})
    BY DEF GetBalance, InductiveInv, TypeOK, MadeInv, funds, FundsTypeOK, Disjoint
  <2> QED BY <1>2, <2>1, EndKeeps DEF Return
<1>3. CASE /\ call.left # {}
           /\ call' = [call EXCEPT
                 !.queue = [a \in Accounts |-> IF a \in call.left THEN Unlocked(a) ELSE {}],
                 !.step = "sweep_all"]
           /\ UNCHANGED answer
  <2> DEFINE Q == [a \in Accounts |-> IF a \in call.left THEN Unlocked(a) ELSE {}]
  <2>1. call \in Calls /\ call.step = "get_balance" /\ UNCHANGED funds
    BY DEF InductiveInv, TypeOK, GetBalance, At
  <2>2. call.method = "sweepUnlocked" /\ call.made = {}
    BY <2>1 DEF InductiveInv, StepFollowsMethod
  <2>3. Q \in [Accounts -> SUBSET Indices]
    BY HomeType DEF Unlocked, Available, InductiveInv, TypeOK, FundsTypeOK
  <2>4. /\ call' \in Calls /\ call'.step = "sweep_all" /\ call'.queue = Q
        /\ call'.left = call.left /\ call'.method = call.method /\ call'.made = call.made
        /\ call'.wanted = call.wanted /\ call'.account = call.account
        /\ call'.indices = call.indices
    <3>1. call' = [call EXCEPT !.queue = Q, !.step = "sweep_all"]
      BY <1>3
    <3> HIDE DEF Q
    <3> QED BY <2>1, <2>3, <3>1 DEF Calls, Steps
  <2>5. TypeOK'
    BY <1>3, <2>1, <2>4 DEF InductiveInv, TypeOK, funds, FundsTypeOK
  <2>6. StepFollowsMethod'
    BY <2>2, <2>4 DEF StepFollowsMethod
  <2>7. Scope' = Scope
    BY <2>2, <2>4 DEF Scope
  <2>8. ASSUME NEW a \in call.left, NEW o \in Outputs, Account(o) = a, Index(o) \in Q[a]
        PROVE  o \in Scope
    BY <2>1, <2>2, <2>8 DEF InductiveInv, StepFollowsMethod, Scope, OutputsOf
  <2>9. MadeInv'
    BY <1>3, <2>1, <2>2, <2>4, <2>7, <2>8 DEF InductiveInv, MadeInv, funds, Disjoint
  <2>10. WantedInv'
    <3>1. ASSUME NEW o \in call.wanted, o \notin Spent
          PROVE  Account(o) \in call.left /\ Index(o) \in Q[Account(o)]
      <4>1. Account(o) \in call.left /\ o \in Available
        BY <2>1, <3>1 DEF InductiveInv, WantedInv, Available
      <4> QED BY <2>1, <4>1 DEF Unlocked, Calls
    <3> QED BY <2>1, <2>4, <3>1 DEF InductiveInv, WantedInv, funds, Spent
  <2>11. TxsCompatible'
    BY <1>3, <2>2, <2>4 DEF InductiveInv, TxsCompatible, Disjoint
  <2> QED BY <2>5, <2>6, <2>9, <2>10, <2>11 DEF InductiveInv
<1> QED BY <1>1, <1>2, <1>3 DEF GetBalance

(* An account that was swept is done: the transactions made before are of  *)
(* other accounts, and what is left of it is spent or in the new ones. *)
LEMMA SweepAllKeeps ==
    ASSUME InductiveInv, SweepAll PROVE InductiveInv'
<1>1. CASE Throw
  BY <1>1, ThrowKeeps
<1>2. ASSUME NEW a \in call.left,
             NEW T \in SweepsOf({o \in Available : Account(o) = a /\ Index(o) \in call.queue[a]}),
             FailsAfter(T) \/ (Creates(T) /\ Swept(a, T))
      PROVE  InductiveInv'
  <2> DEFINE S == {o \in Available : Account(o) = a /\ Index(o) \in call.queue[a]}
             M == call.made \cup T
  <2>1. T \in SUBSET Txs /\ Disjoint(T) /\ UNION T = S
    BY BatchType DEF SweepsOf
  <2>2. /\ call \in Calls /\ call.step = "sweep_all" /\ call.method = "sweepUnlocked"
        /\ FundsTypeOK
    BY DEF SweepAll, At, InductiveInv, TypeOK, StepFollowsMethod
  <2>3. M \in SUBSET Txs
    BY <2>1, <2>2 DEF Calls
  <2>4. Disjoint(M)
    <3>1. ASSUME NEW t \in call.made, NEW u \in T PROVE t \cap u = {}
      BY <2>1, <2>2 DEF InductiveInv, MadeInv
    <3> QED BY <2>1, <3>1 DEF InductiveInv, TxsCompatible, Disjoint
  <2>5. CASE FailsAfter(T)
    BY <2>1, <2>5, FailsKeeps
  <2>6. CASE Creates(T) /\ Return(M)
    BY <2>1, <2>3, <2>4, <2>6, ReturnKeeps
  <2>7. CASE /\ Creates(T) /\ call.left # {a}
             /\ call' = [call EXCEPT !.left = @ \ {a}, !.made = @ \cup T]
             /\ UNCHANGED answer
    <3>1. /\ FundsTypeOK' /\ Disjoint(relayed)' /\ Spent \subseteq Spent'
          /\ relayed \subseteq relayed' /\ (Relaying => T \subseteq relayed')
          /\ UNCHANGED <<kind, unlocked>>
      BY <2>1, <2>2, <2>7, CreatesFunds DEF InductiveInv, MadeInv
    <3>2. call' = [call EXCEPT !.left = call.left \ {a}, !.made = M]
      BY <2>2, <2>7 DEF Calls
    <3>3. /\ call' \in Calls /\ call'.left = call.left \ {a} /\ call'.made = M
          /\ call'.step = "sweep_all" /\ call'.method = "sweepUnlocked"
          /\ call'.wanted = call.wanted /\ call'.queue = call.queue /\ call'.relay = call.relay
          /\ call'.account = call.account /\ call'.indices = call.indices
      <4> HIDE DEF M
      <4> QED BY <2>2, <2>3, <3>2 DEF Calls
    <3>4. TypeOK'
      BY <2>7, <3>1, <3>3 DEF InductiveInv, TypeOK
    <3>5. StepFollowsMethod'
      BY <3>3 DEF StepFollowsMethod
    <3>6. Scope' = Scope
      BY <2>2, <3>3 DEF Scope
    <3>7. S \subseteq Scope
      BY <2>2 DEF InductiveInv, MadeInv, Available, FundsTypeOK
    <3>8. MadeInv'
      <4>1. UNION M \subseteq Scope
        BY <2>1, <3>7 DEF InductiveInv, MadeInv
      <4>2. Relaying' => M \subseteq relayed'
        <5>1. Relaying' = Relaying
          BY <2>2, <3>1, <3>3 DEF Relaying
        <5> QED BY <3>1, <5>1 DEF InductiveInv, MadeInv
      <4>3. \A t \in M : \A o \in t : Account(o) \notin call.left \ {a}
        BY <2>1, <2>2 DEF InductiveInv, MadeInv
      <4>4. call.left \ {a} # {}
        BY <2>7
      <4>5. \A b \in call.left \ {a}, o \in Outputs :
              Account(o) = b /\ Index(o) \in call.queue[b] => o \in Scope
        BY <2>2 DEF InductiveInv, MadeInv
      <4> HIDE DEF M
      <4> QED BY <1>2, <3>1, <3>3, <3>6, <4>1, <4>2, <4>3, <4>4, <4>5 DEF MadeInv
    <3>9. WantedInv'
      <4>1. ASSUME NEW o \in call.wanted
            PROVE  \/ o \in Spent' \cup UNION M
                   \/ Account(o) \in call.left \ {a} /\ Index(o) \in call.queue[Account(o)]
        <5>1. CASE o \in Spent \cup UNION call.made
          BY <3>1, <5>1
        <5>2. CASE Account(o) = a /\ Index(o) \in call.queue[a]
          <6>1. o \in Spent \/ o \in S
            BY <5>2 DEF InductiveInv, WantedInv, Available
          <6> QED BY <2>1, <3>1, <6>1
        <5> QED BY <2>2, <5>1, <5>2 DEF InductiveInv, WantedInv
      <4>2. call.wanted \subseteq unlocked
        BY DEF InductiveInv, WantedInv
      <4> HIDE DEF M
      <4> QED BY <3>1, <3>3, <4>1, <4>2 DEF WantedInv
    <3>10. TxsCompatible'
      <4> HIDE DEF M
      <4> QED BY <2>4, <2>7, <3>3 DEF InductiveInv, TxsCompatible, Disjoint
    <3> QED BY <3>4, <3>5, <3>8, <3>9, <3>10 DEF InductiveInv
  <2> QED BY <1>2, <2>5, <2>6, <2>7 DEF Swept
<1> QED BY <1>1, <1>2 DEF SweepAll

(* A transaction that was relayed is compatible with those before. *)
LEMMA RelayTxKeeps ==
    ASSUME InductiveInv, RelayTx PROVE InductiveInv'
<1>1. PICK t \in call.txs \ call.made :
        \/ FailsAfter({t})
        \/ /\ Relays({t})
           /\ IF call.txs \subseteq call.made \cup {t} THEN Return(call.txs)
              ELSE call' = [call EXCEPT !.made = @ \cup {t}] /\ UNCHANGED answer
  BY DEF RelayTx
<1> DEFINE M == call.made \cup {t}
<1>2. /\ call \in Calls /\ call.step = "relay_tx" /\ call.method = "relayTxs"
      /\ call.relay /\ FundsTypeOK
  BY DEF RelayTx, At, InductiveInv, TypeOK, StepFollowsMethod
<1>3. {t} \in SUBSET Txs /\ call.txs \in SUBSET Txs /\ M \in SUBSET Txs
  BY <1>2 DEF Calls
<1>4. CASE FailsAfter({t})
  BY <1>3, <1>4, FailsKeeps
<1>5. ASSUME Relays({t})
      PROVE  /\ FundsTypeOK' /\ Disjoint(relayed)' /\ Spent \subseteq Spent'
             /\ M \subseteq relayed' /\ UNCHANGED <<kind, unlocked>> /\ Disjoint(M)
  <2>1. /\ FundsTypeOK' /\ Disjoint(relayed)' /\ Spent \subseteq Spent'
        /\ {t} \subseteq relayed' /\ relayed \subseteq relayed' /\ UNCHANGED <<kind, unlocked>>
    BY <1>2, <1>3, <1>5, RelaysFunds
  <2>2. M \subseteq relayed'
    BY <1>2, <2>1 DEF InductiveInv, MadeInv, Relaying
  <2> QED BY <2>1, <2>2 DEF Disjoint
<1>6. CASE Relays({t}) /\ Return(call.txs) /\ call.txs \subseteq M
  <2>1. Disjoint(call.txs)
    BY <1>5, <1>6 DEF Disjoint
  <2> QED BY <1>3, <1>5, <1>6, <2>1, EndKeeps DEF Return
<1>7. CASE /\ Relays({t}) /\ ~(call.txs \subseteq M)
           /\ call' = [call EXCEPT !.made = @ \cup {t}] /\ UNCHANGED answer
  <2>1. call' = [call EXCEPT !.made = M]
    BY <1>2, <1>7 DEF Calls
  <2>2. /\ call' \in Calls /\ call'.made = M /\ call'.step = "relay_tx"
        /\ call'.method = "relayTxs" /\ call'.relay /\ call'.txs = call.txs
        /\ call'.wanted = call.wanted
    <3> HIDE DEF M
    <3> QED BY <1>2, <1>3, <2>1 DEF Calls
  <2>3. TypeOK'
    BY <1>5, <1>7, <2>2 DEF InductiveInv, TypeOK
  <2>4. StepFollowsMethod'
    BY <2>2 DEF StepFollowsMethod
  <2>5. MadeInv'
    <3>1. M \subseteq call.txs /\ M # call.txs
      BY <1>2, <1>7 DEF InductiveInv, MadeInv
    <3>2. Scope' = UNION call.txs
      BY <2>2 DEF Scope
    <3> HIDE DEF M
    <3> QED BY <1>5, <1>7, <2>2, <3>1, <3>2 DEF MadeInv
  <2>6. WantedInv'
    BY <1>5, <1>7, <2>2 DEF InductiveInv, WantedInv
  <2>7. TxsCompatible'
    BY <1>5, <1>7, <2>2 DEF InductiveInv, TxsCompatible, Disjoint
  <2> QED BY <2>3, <2>4, <2>5, <2>6, <2>7 DEF InductiveInv
<1> QED BY <1>1, <1>4, <1>6, <1>7

LEMMA SubmitTransferKeeps ==
    ASSUME InductiveInv, SubmitTransfer PROVE InductiveInv'
<1>1. call.txs \in SUBSET Txs /\ FundsTypeOK
  BY DEF InductiveInv, TypeOK, Calls
<1>2. CASE FailsAfter(call.txs)
  BY <1>1, <1>2, FailsKeeps
<1>3. CASE Relays(call.txs) /\ Return(call.txs)
  <2>1. FundsTypeOK' /\ Disjoint(relayed)' /\ call.txs \subseteq relayed'
    BY <1>1, <1>3, RelaysFunds
  <2>2. Disjoint(call.txs)
    BY <2>1 DEF Disjoint
  <2> QED BY <1>1, <1>3, <2>1, <2>2, EndKeeps DEF Return
<1> QED BY <1>2, <1>3 DEF SubmitTransfer

-----------------------------------------------------------------------------
(* The environment. *)
LEMMA OthersKeep ==
    ASSUME InductiveInv, Others PROVE InductiveInv'
<1>1. UNCHANGED <<call, answer>>
  BY DEF Others
<1>2. /\ FundsTypeOK' /\ Disjoint(relayed)' /\ relayed \subseteq relayed'
      /\ Spent \subseteq Spent' /\ unlocked \subseteq unlocked' /\ kind' = kind
  BY OthersFunds DEF Others, InductiveInv, TypeOK, MadeInv
<1>3. TypeOK'
  BY <1>1, <1>2 DEF InductiveInv, TypeOK
<1>4. StepFollowsMethod'
  BY <1>1 DEF InductiveInv, StepFollowsMethod
<1>5. MadeInv'
  <2>1. Scope' = Scope /\ Relaying' = Relaying
    BY <1>1, <1>2 DEF Scope, Relaying
  <2> QED BY <1>1, <1>2, <2>1 DEF InductiveInv, MadeInv
<1>6. WantedInv'
  BY <1>1, <1>2 DEF InductiveInv, WantedInv
<1>7. TxsCompatible'
  BY <1>1 DEF InductiveInv, TxsCompatible, Disjoint
<1> QED BY <1>3, <1>4, <1>5, <1>6, <1>7 DEF InductiveInv

LEMMA StutterKeeps ==
    ASSUME InductiveInv, UNCHANGED vars PROVE InductiveInv'
BY DEF InductiveInv, vars, funds, TypeOK, FundsTypeOK, StepFollowsMethod, MadeInv, Scope, Relaying,
       WantedInv, TxsCompatible, Spent, Disjoint

(* Every step keeps the invariant. *)
LEMMA NextInvariant ==
    ASSUME InductiveInv, [Next]_vars PROVE InductiveInv'
<1>1. CASE Invoke
  BY <1>1, BeginCreateTxsKeeps, BeginSweepOutputKeeps, BeginSweepUnlockedKeeps,
     BeginSweepDustKeeps, BeginRelayKeeps DEF Invoke
<1>2. CASE Step
  BY <1>2, IsMultisigKeeps, TransferKeeps, SweepOutputKeeps, SweepDustKeeps, GetAccountsKeeps,
     GetBalanceKeeps, SweepAllKeeps, RelayTxKeeps, SubmitTransferKeeps DEF Step
<1>3. CASE Others
  BY <1>3, OthersKeep
<1>4. CASE UNCHANGED vars
  BY <1>4, StutterKeeps
<1> QED BY <1>1, <1>2, <1>3, <1>4 DEF Next

(* The inductive invariant, for any outputs, accounts and subaddresses. *)
THEOREM Invariant == Spec => []InductiveInv
<1>1. InductiveInv /\ [Next]_vars => InductiveInv'
  BY NextInvariant
<1> QED BY InitInvariant, <1>1, PTL DEF Spec

(* Every variable of WalletRpcSends has its type. *)
THEOREM TypeCorrect == Spec => []TypeOK
<1>1. InductiveInv => TypeOK
  BY DEF InductiveInv
<1> QED BY Invariant, <1>1, PTL

(* Whatever happens between the requests of createTxs, sweepUnlocked and   *)
(* relayTxs, no two transactions of one method spend the same output. *)
THEOREM Compatible == Spec => []TxsCompatible
<1>1. InductiveInv => TxsCompatible
  BY DEF InductiveInv
<1> QED BY Invariant, <1>1, PTL

-----------------------------------------------------------------------------
(* What sweepUnlocked has listed and not yet swept is the last account's   *)
(* when it returns. *)
LEMMA StepSweepsClean ==
    ASSUME InductiveInv, [Next]_vars, call.method = "sweepUnlocked",
           answer' # answer, answer'.outcome = "returns"
    PROVE  call.wanted \subseteq Spent' \cup UNION answer'.txs
<1>1. ASSUME NEW outcome, NEW T, End(outcome, T)
      PROVE  outcome = "returns" /\ answer'.txs = T
  BY <1>1 DEF End
<1>2. call \in Calls /\ FundsTypeOK /\ Disjoint(relayed)
      /\ call.step \in {"get_accounts", "get_balance", "sweep_all"}
  BY DEF InductiveInv, TypeOK, StepFollowsMethod, MadeInv
<1>3. CASE GetBalance
  <2>1. call.left = {} /\ Return({})
    BY <1>1, <1>3 DEF GetBalance
  <2>2. Spent' = Spent
    BY <1>3 DEF GetBalance, funds, Spent
  <2> QED BY <1>3, <2>1, <2>2 DEF GetBalance, At, InductiveInv, WantedInv
<1>4. CASE SweepAll
  <2>1. PICK a \in call.left :
          \E T \in SweepsOf({o \in Available : Account(o) = a /\ Index(o) \in call.queue[a]}) :
             Creates(T) /\ Swept(a, T)
    BY <1>1, <1>4 DEF SweepAll, Throw, FailsAfter
  <2>2. PICK T \in SweepsOf({o \in Available : Account(o) = a /\ Index(o) \in call.queue[a]}) :
             Creates(T) /\ Swept(a, T)
    BY <2>1
  <2>3. T \in SUBSET Txs
    BY BatchType DEF SweepsOf
  <2>4. Spent \subseteq Spent'
    BY <1>2, <2>2, <2>3, CreatesFunds
  <2>5. call.left = {a} /\ Return(call.made \cup T)
    BY <2>2 DEF Swept
  <2>6. answer'.txs = call.made \cup T
    BY <1>1, <2>5 DEF Return
  <2>7. ASSUME NEW o \in call.wanted PROVE o \in Spent' \cup UNION (call.made \cup T)
    <3>1. CASE o \in Spent \cup UNION call.made
      BY <2>4, <3>1
    <3>2. CASE Account(o) = a /\ Index(o) \in call.queue[a]
      <4>1. o \in Spent \/ o \in UNION T
        BY <3>2 DEF InductiveInv, WantedInv, Available, SweepsOf
      <4> QED BY <2>4, <4>1
    <3> QED BY <1>4, <2>5, <3>1, <3>2 DEF SweepAll, At, InductiveInv, WantedInv
  <2> QED BY <2>6, <2>7
<1>5. CASE GetAccounts
  BY <1>1, <1>5 DEF GetAccounts
<1>6. CASE Invoke
  <2>1. call = NoCall
    BY <1>6 DEF Invoke, Begin, BeginCreateTxs, BeginSweepOutput, BeginSweepUnlocked,
                BeginSweepDust, BeginRelay
  <2> QED BY <2>1 DEF NoCall
<1>7. CASE Others \/ UNCHANGED vars
  BY <1>7 DEF Others, vars
<1>8. CASE IsMultisig \/ Transfer \/ SweepOutput \/ SweepDust \/ RelayTx \/ SubmitTransfer
  BY <1>2, <1>8 DEF IsMultisig, Transfer, SweepOutput, SweepDust, RelayTx, SubmitTransfer, At
<1> QED BY <1>3, <1>4, <1>5, <1>6, <1>7, <1>8 DEF Next, Step

(* sweepUnlocked sweeps everything that could have been spent when it was  *)
(* called, although it lists accounts and balances in several requests and *)
(* sweeps one account after the other while the wallet changes. *)
THEOREM SweepsClean == Spec => SweptClean
<1>1. InductiveInv /\ [Next]_vars =>
        [call.method = "sweepUnlocked" /\ answer' # answer /\ answer'.outcome = "returns"
           => call.wanted \subseteq Spent' \cup UNION answer'.txs]_vars
  BY StepSweepsClean
<1> QED BY Invariant, <1>1, PTL DEF Spec, SweptClean

-----------------------------------------------------------------------------
(* The steps of the client are steps of SendService. *)


LEMMA RequestFields ==
    /\ Service!Running <=> call # NoCall
    /\ Service!Relaying <=> call # NoCall /\ Relaying
    /\ call # NoCall => (Request.task = "create" <=> call.method \notin {"relayTxs", "submitTxs"})
    /\ Request.relay = call.relay
    /\ call # NoCall => Request.scope = Scope
    /\ Request.made = call.made
<1>1. /\ Request.task = Task /\ Request.relay = call.relay /\ Request.made = call.made
      /\ call # NoCall => Request.scope = Scope
  BY DEF Request
<1>2. /\ Task = "none" <=> call = NoCall
      /\ Task = "submit" <=> call # NoCall /\ call.method \in {"relayTxs", "submitTxs"}
      /\ Task = "create" <=> call # NoCall /\ call.method \notin {"relayTxs", "submitTxs"}
  BY DEF Task
<1>3. Service!Relaying <=> call # NoCall /\ Relaying
  BY <1>1, <1>2 DEF Service!Relaying, Relaying, NoCall
<1> QED BY <1>1, <1>2, <1>3 DEF Service!Running

(* Nothing runs. *)
LEMMA NoCallMaps ==
    /\ call = NoCall => Request = Service!NoRequest
    /\ call' = NoCall => Request' = Service!NoRequest
    /\ NoAnswer = Service!NoAnswer
<1>1. NoCall.relay = FALSE /\ NoCall.made = {}
  BY DEF NoCall
<1>2. ASSUME call = NoCall PROVE Request = Service!NoRequest
  <2>1. Task = "none"
    BY <1>2 DEF Task
  <2> QED BY <1>1, <1>2, <2>1 DEF Request, Service!NoRequest
<1>3. ASSUME call' = NoCall PROVE Request' = Service!NoRequest
  <2>1. Task' = "none"
    BY <1>3 DEF Task
  <2> QED BY <1>1, <1>3, <2>1 DEF Request, Service!NoRequest
<1>4. NoAnswer = Service!NoAnswer
  BY DEF NoAnswer, Service!NoAnswer
<1> QED BY <1>2, <1>3, <1>4

LEMMA InitMaps == Init => Service!Init
BY NoCallMaps DEF Init, Service!Init, FundsInit, Service!FundsInit

(* Transactions that may be made are made by the service. *)
LEMMA MakesMaps ==
    ASSUME InductiveInv, call # NoCall, NEW T \in SUBSET Txs, Creates(T),
           UNION T \subseteq Scope,
           ~Relaying => UNION T \subseteq Available /\ Disjoint(call.made \cup T)
    PROVE  T \in Service!Batches /\ Service!Makes(T)
<1>1. Disjoint(call.made \cup T)
  <2>1. CASE Relaying
    <3>1. Disjoint(relayed \cup T) /\ call.made \subseteq relayed
      BY <2>1 DEF Creates, Relays, InductiveInv, MadeInv
    <3> QED BY <3>1 DEF Disjoint
  <2>2. CASE ~Relaying
    BY <2>2
  <2> QED BY <2>1, <2>2
<1>2. T \in Service!Batches
  BY <1>1 DEF Service!Batches, Service!Txs, Txs, Service!Disjoint, Disjoint
<1>3. UNION T \subseteq Request.scope /\ Service!Disjoint(Request.made \cup T)
  BY <1>1, RequestFields DEF Service!Disjoint, Disjoint
<1>4. CASE Relaying
  <2>1. Relays(T)
    BY <1>4 DEF Creates
  <2>2. Service!Relays(T)
    BY <2>1 DEF Service!Relays, Service!Disjoint, Disjoint, Relays
  <2>3. Service!Relaying
    BY <1>4, RequestFields
  <2> QED BY <1>2, <1>3, <2>2, <2>3 DEF Service!Makes
<1>5. CASE ~Relaying
  <2>1. UNCHANGED funds /\ UNION T \subseteq Available
    BY <1>5 DEF Creates
  <2>2. UNCHANGED Service!funds /\ UNION T \subseteq Service!Available
    BY <2>1 DEF funds, Service!funds, Service!Available, Service!Spent, Available, Spent
  <2>3. ~Service!Relaying
    BY <1>5, RequestFields
  <2> QED BY <1>2, <1>3, <2>2, <2>3 DEF Service!Makes
<1> QED BY <1>4, <1>5

LEMMA FailsMaps ==
    ASSUME InductiveInv, call # NoCall, NEW T \in SUBSET Txs, FailsAfter(T),
           UNION T \subseteq Scope,
           ~Relaying => UNION T \subseteq Available /\ Disjoint(call.made \cup T)
    PROVE  Service!Next
<1>1. PICK U \in SUBSET T : Creates(U)
  BY DEF FailsAfter
<1>2. U \in Service!Batches /\ Service!Makes(U)
  BY <1>1, MakesMaps DEF Disjoint
<1>3. Service!End("throws", {})
  BY NoCallMaps DEF FailsAfter, End, Service!End
<1> QED BY <1>2, <1>3, RequestFields DEF Service!Next, Service!Run

LEMMA ReturnMaps ==
    ASSUME InductiveInv, call # NoCall, NEW T \in SUBSET Txs, Creates(T),
           Return(call.made \cup T), UNION T \subseteq Scope,
           ~Relaying => UNION T \subseteq Available /\ Disjoint(call.made \cup T)
    PROVE  Service!Next
<1>1. T \in Service!Batches /\ Service!Makes(T)
  BY MakesMaps
<1>2. Service!End("returns", call.made \cup T)
  BY RequestFields, NoCallMaps DEF Return, End, Service!End
<1> QED BY <1>1, <1>2, RequestFields DEF Service!Next, Service!Run

(* A method that goes on after a reply. *)
LEMMA GoOnMaps ==
    ASSUME InductiveInv, call # NoCall, NEW T \in SUBSET Txs, Creates(T),
           UNION T \subseteq Scope,
           ~Relaying => UNION T \subseteq Available /\ Disjoint(call.made \cup T),
           call' # NoCall, call'.relay = call.relay, call'.method = call.method, Scope' = Scope,
           call'.made = call.made \cup T, answer' = answer
    PROVE  Service!Next
<1>1. T \in Service!Batches /\ Service!Makes(T)
  BY MakesMaps
<1>2. Request' = [Request EXCEPT !.made = call.made \cup T]
  <2>1. Task' = Task
    BY DEF Task
  <2>2. /\ Request = [task |-> Task, relay |-> call.relay, scope |-> Scope, made |-> call.made]
        /\ Request' = [task |-> Task, relay |-> call.relay, scope |-> Scope,
                       made |-> call.made \cup T]
    BY <2>1 DEF Request
  <2> QED BY <2>2
<1>3. Service!GoOn(T)
  BY <1>2, RequestFields DEF Service!GoOn
<1> QED BY <1>1, <1>3, RequestFields DEF Service!Next, Service!Run

(* Nothing is made. *)
LEMMA EmptyBatch ==
    ASSUME InductiveInv, UNCHANGED funds
    PROVE  /\ {} \in SUBSET Txs /\ UNION {} = {}
           /\ Creates({}) /\ Disjoint(call.made \cup {})
BY DEF InductiveInv, TxsCompatible, MadeInv, Disjoint, Creates, Relays, funds

LEMMA ThrowMaps == ASSUME InductiveInv, call # NoCall, Throw PROVE Service!Next
<1>1. FailsAfter({})
  BY EmptyBatch DEF Throw, FailsAfter
<1> QED BY <1>1, EmptyBatch, FailsMaps DEF Throw

LEMMA UnsignedMaps ==
    ASSUME InductiveInv, call # NoCall, call.made = {}, kind # "full",
           call.method \notin {"relayTxs", "submitTxs"},
           ReturnUnsigned, UNCHANGED funds
    PROVE  Service!Next
<1>1. Service!ReturnUnsigned
  BY RequestFields, NoCallMaps DEF ReturnUnsigned, End, Service!ReturnUnsigned, Service!End,
     funds, Service!funds
<1> QED BY <1>1 DEF Service!Next

(* A step that only reads and learns stutters. *)
LEMMA StutterMaps ==
    ASSUME call # NoCall, call' # NoCall, call'.relay = call.relay,
           call'.method = call.method, Scope' = Scope,
           call'.made = call.made, answer' = answer, UNCHANGED funds
    PROVE  UNCHANGED Service!vars
BY DEF Service!vars, Service!funds, funds, Request, Task

(* What the service knows of a call. *)
LEMMA InvokeMaps ==
    ASSUME InductiveInv, Invoke, InductiveInv' PROVE Service!Next
<1>1. PICK c : Begin(c) /\ c.step # "none" /\ c.made = {}
  BY BeginCreateTxsKeeps, BeginSweepOutputKeeps, BeginSweepUnlockedKeeps,
     BeginSweepDustKeeps, BeginRelayKeeps DEF Invoke, Begun
<1>2. /\ call = NoCall /\ call' = c /\ answer' = NoAnswer /\ UNCHANGED funds
      /\ call' # NoCall
  BY <1>1 DEF Begin, NoCall
<1>3. call' \in Calls /\ Scope' \subseteq Outputs
  <2>1. call' \in Calls
    BY DEF InductiveInv, TypeOK
  <2>2. UNION call'.txs \subseteq Outputs
    BY <2>1 DEF Calls, Txs
  <2> QED BY <2>1, <2>2, FundsAssumption DEF Scope, OutputsOf
<1>4. Request' \in [task: {"create", "submit"}, relay: BOOLEAN, scope: SUBSET Outputs, made: {{}}]
  <2>1. Task' \in {"create", "submit"} /\ call'.relay \in BOOLEAN /\ call'.made = {}
    BY <1>1, <1>2, <1>3 DEF Calls, Task
  <2>2. Request' = [task |-> Task', relay |-> call'.relay, scope |-> Scope', made |-> {}]
    BY <1>2, <2>1 DEF Request
  <2> QED BY <1>3, <2>1, <2>2
<1>5. ~Service!Running
  BY <1>2, RequestFields
<1>6. Service!Invoke
  BY <1>2, <1>4, <1>5, NoCallMaps DEF Service!Invoke, funds, Service!funds
<1> QED BY <1>6 DEF Service!Next

(* The requests. *)
LEMMA StepMaps ==
    ASSUME InductiveInv, Step PROVE Service!Next \/ UNCHANGED Service!vars
<1>1. /\ call \in Calls /\ call # NoCall /\ FundsTypeOK /\ call.step # "none"
      /\ (call.step \notin {"sweep_all", "relay_tx"} => call.made = {})
  BY DEF InductiveInv, TypeOK, StepFollowsMethod, NoCall, Step, IsMultisig, Transfer,
         SweepOutput, SweepDust, GetAccounts, GetBalance, SweepAll, RelayTx, SubmitTransfer, At
<1>2. CASE Throw
  BY <1>1, <1>2, ThrowMaps
<1>3. ASSUME call.made = {}, NEW T \in Batches, UNION T \subseteq Scope, UNION T \subseteq Available,
             FailsAfter(T) \/ (Creates(T) /\ Return(T))
      PROVE  Service!Next
  <2>1. T \in SUBSET Txs /\ Disjoint(call.made \cup T) /\ call.made \cup T = T
    BY <1>3, BatchType
  <2> QED BY <1>1, <1>3, <2>1, FailsMaps, ReturnMaps
<1>4. CASE IsMultisig
  <2>1. CASE GoTo("transfer") /\ UNCHANGED funds
    <3>1. call' = [call EXCEPT !.step = "transfer"] /\ answer' = answer
      BY <2>1 DEF GoTo
    <3>2. call'.step = "transfer" /\ call'.relay = call.relay /\ call'.made = call.made
          /\ call'.method = call.method /\ call'.account = call.account
          /\ call'.indices = call.indices /\ call'.txs = call.txs
      BY <1>1, <3>1 DEF Calls
    <3>3. call' # NoCall /\ Scope' = Scope
      BY <3>2 DEF NoCall, Scope
    <3> QED BY <1>1, <2>1, <3>1, <3>2, <3>3, StutterMaps
  <2> QED BY <1>2, <1>4, <2>1 DEF IsMultisig
<1>5. CASE Transfer
  <2>1. call.made = {} /\ call.method = "createTxs"
    BY <1>1, <1>5 DEF Transfer, At, InductiveInv, StepFollowsMethod
  <2>2. ASSUME NEW T \in TransfersOf(Available \cap Scope),
               FailsAfter(T) \/ (Creates(T) /\ Return(T))
        PROVE  Service!Next
    BY <1>3, <2>1, <2>2 DEF TransfersOf
  <2> QED BY <1>1, <1>2, <1>5, <2>1, <2>2, UnsignedMaps DEF Transfer
<1>6. CASE SweepOutput
  <2>1. call.made = {} /\ call.step = "sweep_single" /\ call.method = "sweepOutput"
    BY <1>1, <1>6 DEF SweepOutput, At, InductiveInv, StepFollowsMethod
  <2>2. call.txs \in Batches /\ UNION call.txs \subseteq Scope
    BY <1>1, <2>1 DEF InductiveInv, StepFollowsMethod, Batches, Calls, Scope
  <2> QED BY <1>1, <1>2, <1>3, <1>6, <2>1, <2>2, UnsignedMaps DEF SweepOutput
<1>7. CASE SweepDust
  <2>1. call.made = {} /\ call.method = "sweepDust"
    BY <1>1, <1>7 DEF SweepDust, At, InductiveInv, StepFollowsMethod
  <2>2. ASSUME NEW T \in SweepsOf(Available \cap Dust),
               FailsAfter(T) \/ (Creates(T) /\ Return(T))
        PROVE  Service!Next
    BY <1>3, <2>1, <2>2 DEF SweepsOf, Scope
  <2> QED BY <1>1, <1>2, <1>7, <2>1, <2>2, UnsignedMaps DEF SweepDust
<1>8. CASE GetAccounts
  <2>1. call.step = "get_accounts" /\ call.method = "sweepUnlocked" /\ UNCHANGED funds
    BY <1>8 DEF GetAccounts, At, InductiveInv, StepFollowsMethod
  <2>2. CASE call' = [call EXCEPT !.left = {Account(o) : o \in Available}, !.step = "get_balance"]
             /\ UNCHANGED answer
    <3>1. call'.step = "get_balance" /\ call'.relay = call.relay /\ call'.made = call.made
          /\ call'.method = call.method /\ call'.account = call.account
          /\ call'.indices = call.indices
      BY <1>1, <2>2 DEF Calls
    <3>2. call' # NoCall /\ Scope' = Scope
      BY <2>1, <3>1 DEF NoCall, Scope
    <3> QED BY <1>1, <2>1, <2>2, <3>1, <3>2, StutterMaps
  <2> QED BY <1>2, <1>8, <2>2 DEF GetAccounts, Throw
<1>9. CASE GetBalance
  <2>1. call.step = "get_balance" /\ call.method = "sweepUnlocked" /\ UNCHANGED funds
        /\ call.made = {}
    BY <1>1, <1>9 DEF GetBalance, At, InductiveInv, StepFollowsMethod
  <2>2. CASE Return({})
    <3>1. call.made \cup {} = {}
      BY <2>1
    <3> QED BY <1>1, <2>1, <2>2, <3>1, EmptyBatch, ReturnMaps
  <2>3. ASSUME NEW Q, call' = [call EXCEPT !.queue = Q, !.step = "sweep_all"], UNCHANGED answer
        PROVE  UNCHANGED Service!vars
    <3>1. call'.step = "sweep_all" /\ call'.relay = call.relay /\ call'.made = call.made
          /\ call'.method = call.method /\ call'.account = call.account
          /\ call'.indices = call.indices
      BY <1>1, <2>3 DEF Calls
    <3>2. call' # NoCall /\ Scope' = Scope
      BY <2>1, <3>1 DEF NoCall, Scope
    <3> QED BY <1>1, <2>1, <2>3, <3>1, <3>2, StutterMaps
  <2> QED BY <1>2, <1>9, <2>2, <2>3 DEF GetBalance, Throw
<1>10. CASE SweepAll
  <2>1. call.step = "sweep_all" /\ call.method = "sweepUnlocked"
    BY <1>10 DEF SweepAll, At, InductiveInv, StepFollowsMethod
  <2>2. ASSUME NEW a \in call.left,
               NEW T \in SweepsOf({o \in Available : Account(o) = a /\ Index(o) \in call.queue[a]}),
               FailsAfter(T) \/ (Creates(T) /\ Swept(a, T))
        PROVE  Service!Next
    <3>1. T \in SUBSET Txs /\ Disjoint(T) /\ UNION T \subseteq Available
      BY BatchType DEF SweepsOf
    <3>2. UNION T \subseteq Scope
      BY <1>1, <2>1 DEF SweepsOf, InductiveInv, MadeInv, Available, FundsTypeOK
    <3>3. Disjoint(call.made \cup T)
      <4>1. ASSUME NEW t \in call.made, NEW u \in T PROVE t \cap u = {}
        BY <2>1 DEF SweepsOf, InductiveInv, MadeInv
      <4> QED BY <3>1, <4>1 DEF InductiveInv, TxsCompatible, Disjoint
    <3>4. CASE FailsAfter(T)
      BY <1>1, <3>1, <3>2, <3>3, <3>4, FailsMaps
    <3>5. CASE Creates(T) /\ Return(call.made \cup T)
      BY <1>1, <3>1, <3>2, <3>3, <3>5, ReturnMaps
    <3>6. CASE /\ Creates(T) /\ UNCHANGED answer
               /\ call' = [call EXCEPT !.left = @ \ {a}, !.made = @ \cup T]
      <4>1. call'.step = "sweep_all" /\ call'.relay = call.relay
            /\ call'.made = call.made \cup T
            /\ call'.method = call.method /\ call'.account = call.account
            /\ call'.indices = call.indices
        BY <1>1, <2>1, <3>6 DEF Calls
      <4>2. call' # NoCall /\ Scope' = Scope
        BY <2>1, <4>1 DEF NoCall, Scope
      <4> QED BY <1>1, <3>1, <3>2, <3>3, <3>6, <4>1, <4>2, GoOnMaps
    <3> QED BY <2>2, <3>4, <3>5, <3>6 DEF Swept
  <2> QED BY <1>2, <1>10, <2>2 DEF SweepAll
<1>11. CASE RelayTx
  <2>1. call.step = "relay_tx" /\ call.method = "relayTxs" /\ call.relay
    BY <1>11 DEF RelayTx, At, InductiveInv, StepFollowsMethod
  <2>2. PICK t \in call.txs \ call.made :
          \/ FailsAfter({t})
          \/ /\ Relays({t})
             /\ IF call.txs \subseteq call.made \cup {t} THEN Return(call.txs)
                ELSE call' = [call EXCEPT !.made = @ \cup {t}] /\ UNCHANGED answer
    BY <1>11 DEF RelayTx
  <2>3. {t} \in SUBSET Txs /\ UNION {t} \subseteq Scope
    BY <1>1, <2>1 DEF Calls, Scope
  <2>4. Relaying /\ (Relays({t}) => Creates({t}))
    BY <2>1 DEF Creates, Relaying
  <2>5. CASE FailsAfter({t})
    BY <1>1, <2>1, <2>3, <2>4, <2>5, FailsMaps
  <2>6. CASE Relays({t}) /\ call.txs \subseteq call.made \cup {t} /\ Return(call.txs)
    <3>1. call.txs = call.made \cup {t}
      BY <2>1, <2>6 DEF InductiveInv, MadeInv
    <3> QED BY <1>1, <2>1, <2>3, <2>4, <2>6, <3>1, ReturnMaps
  <2>7. CASE Relays({t}) /\ call' = [call EXCEPT !.made = @ \cup {t}] /\ UNCHANGED answer
    <3>1. call'.step = "relay_tx" /\ call'.relay = call.relay
          /\ call'.made = call.made \cup {t}
          /\ call'.method = call.method /\ call'.txs = call.txs
      BY <1>1, <2>1, <2>7 DEF Calls
    <3>2. call' # NoCall /\ Scope' = Scope
      BY <2>1, <3>1 DEF NoCall, Scope
    <3> QED BY <1>1, <2>1, <2>3, <2>4, <2>7, <3>1, <3>2, GoOnMaps
  <2> QED BY <2>2, <2>5, <2>6, <2>7
<1>12. CASE SubmitTransfer
  <2>1. call.made = {} /\ call.method = "submitTxs" /\ call.relay
    BY <1>1, <1>12 DEF SubmitTransfer, At, InductiveInv, StepFollowsMethod
  <2>2. call.txs \in SUBSET Txs /\ UNION call.txs \subseteq Scope /\ call.made \cup call.txs = call.txs
    BY <1>1, <2>1 DEF Calls, Scope
  <2>3. Relaying
    BY <2>1 DEF Relaying
  <2>4. CASE FailsAfter(call.txs)
    BY <1>1, <2>1, <2>2, <2>4, <2>3, FailsMaps
  <2>5. CASE Relays(call.txs) /\ Return(call.txs)
    <3>1. Creates(call.txs)
      BY <2>1, <2>5, <2>3 DEF Creates
    <3> QED BY <1>1, <2>1, <2>2, <2>5, <2>3, <3>1, ReturnMaps
  <2> QED BY <1>12, <2>4, <2>5 DEF SubmitTransfer
<1> QED BY <1>4, <1>5, <1>6, <1>7, <1>8, <1>9, <1>10, <1>11, <1>12 DEF Step

LEMMA OthersMaps == ASSUME Others PROVE Service!Next
<1>1. Request' = Request
  BY DEF Others, Request, Task, Scope
<1>2. Service!Others
  BY <1>1 DEF Others, Service!Others, Unlocks, Service!Unlocks, OthersSpend, Service!OthersSpend,
     Relays, Service!Relays, Disjoint, Service!Disjoint, Available, Service!Available,
     Spent, Service!Spent
<1> QED BY <1>2 DEF Service!Next

(* MoneroWalletRpc's sends are what SendService promises: they spend what  *)
(* they were asked to, relay exactly if they were asked to and the wallet  *)
(* can sign, and a method that returns has told of all it made. *)
THEOREM Implements == Spec => ImplementsSends
<1>1. InductiveInv /\ InductiveInv' /\ [Next]_vars => [Service!Next]_Service!vars
  <2> SUFFICES ASSUME InductiveInv, InductiveInv', [Next]_vars
               PROVE  [Service!Next]_Service!vars
    OBVIOUS
  <2>1. CASE Invoke
    BY <2>1, InvokeMaps
  <2>2. CASE Step
    BY <2>2, StepMaps
  <2>3. CASE Others
    BY <2>3, OthersMaps
  <2>4. CASE UNCHANGED vars
    BY <2>4 DEF vars, funds, Service!vars, Service!funds, Request, Task, Scope
  <2> QED BY <2>1, <2>2, <2>3, <2>4 DEF Next
<1> QED BY Invariant, InitMaps, <1>1, PTL DEF Spec, ImplementsSends, Service!Spec
=============================================================================
