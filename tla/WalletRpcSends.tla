--------------------------- MODULE WalletRpcSends ---------------------------
(***************************************************************************)
(* The methods of MoneroWalletRpc that create or relay transactions.  One  *)
(* step is one request with the code from there to the next request.       *)
(* Requests that only read, and whose reply a later request of the method  *)
(* replaces, are left out.                                                 *)
(***************************************************************************)
EXTENDS WalletFunds

CONSTANT NoAccount  \* the account of a sweep of all accounts

VARIABLES
    call,    \* the method that runs, its configuration and its next request
    answer   \* how the last method ended

vars == <<funds, call, answer>>

Methods == {"createTxs", "sweepOutput", "sweepUnlocked", "sweepDust",
            "relayTxs", "submitTxs"}

ASSUME SendsAssumption == NoAccount \notin Accounts

(* left and queue are sweepUnlocked's indices: the accounts to be swept    *)
(* and their subaddresses; made are the transactions of earlier replies.   *)
(* wanted, which the code does not have, are the outputs that sweepUnlocked*)
(* finds in its scope when it is called.                                   *)
NoCall == [
    method |-> "none", step |-> "none", relay |-> FALSE, split |-> TRUE,
    account |-> NoAccount, indices |-> {}, txs |-> {},
    left |-> {}, queue |-> [a \in Accounts |-> {}],
    made |-> {}, wanted |-> {}]

NoAnswer == [outcome |-> "none", txs |-> {}]

Init == FundsInit /\ call = NoCall /\ answer = NoAnswer

-----------------------------------------------------------------------------
At(step) == call.step = step

GoTo(step) == call' = [call EXCEPT !.step = step] /\ UNCHANGED answer

End(outcome, txs) == call' = NoCall /\ answer' = [outcome |-> outcome, txs |-> txs]

Return(txs) == End("returns", txs)

(* A wallet that cannot sign alone may answer with the set to be signed    *)
(* and without transactions: null, or a transaction without contents.      *)
ReturnUnsigned == End("unsigned", {})

Throw == End("throws", {}) /\ UNCHANGED funds

(* The outputs of an account, or of all, and of some of its subaddresses,  *)
(* or of all.                                                              *)
OutputsOf(account, indices) ==
    {o \in Outputs : /\ account # NoAccount => Account(o) = account
                     /\ indices # {} => Index(o) \in indices}

(* What the method that runs may spend.                                    *)
Scope ==
    CASE call.method \in {"createTxs", "sweepUnlocked"} -> OutputsOf(call.account, call.indices)
      [] call.method = "sweepDust" -> Dust
      [] OTHER -> UNION call.txs

(* What relayTxs and submitTxs relay is signed.                            *)
Relaying == call.relay /\ (kind = "full" \/ call.method \in {"relayTxs", "submitTxs"})

(* mutation: do_not_relay is not sent. *)
CreatesAndRelays(T) == Relays(T)

(* The server makes the transactions of one request.                       *)
Creates(T) == IF Relaying THEN Relays(T) ELSE UNCHANGED funds

(* The request or its reply is lost, or refused, perhaps after some of the *)
(* transactions were relayed.                                              *)
FailsAfter(T) ==
    /\ \E U \in SUBSET T : Creates(U)
    /\ End("throws", {})

(* How the server may spend outputs S: all of them, or some.               *)
SweepsOf(S) == {T \in Batches : UNION T = S}
TransfersOf(S) == {T \in Batches : T # {} /\ UNION T \subseteq S}

-----------------------------------------------------------------------------
(* The application calls a method; configurations that the method refuses  *)
(* before its first request are left out.                                  *)

Begin(c) ==
    /\ call = NoCall
    /\ call' = c
    /\ answer' = NoAnswer
    /\ UNCHANGED funds

BeginCreateTxs ==
    \E relay, split \in BOOLEAN, a \in Accounts, I \in SUBSET Indices :
        Begin([NoCall EXCEPT !.method = "createTxs", !.relay = relay, !.split = split,
                             !.account = a, !.indices = I,
                             !.step = IF relay THEN "is_multisig" ELSE "transfer"])

BeginSweepOutput ==
    \E relay \in BOOLEAN, o \in unlocked :
        Begin([NoCall EXCEPT !.method = "sweepOutput", !.relay = relay,
                             !.txs = {{o}}, !.step = "sweep_single"])

(* mutation: subaddresses that were given are not passed on. *)
BeginSweepUnlockedOfAccount ==
    \E relay \in BOOLEAN, a \in Accounts \cup {NoAccount} :
    \E I \in IF a = NoAccount THEN {{}} ELSE SUBSET Indices :
        Begin([NoCall EXCEPT
            !.method = "sweepUnlocked", !.relay = relay, !.account = a, !.indices = I,
            !.left = {a} \ {NoAccount},
            !.wanted = Available \cap OutputsOf(a, I),
            !.step = IF a = NoAccount THEN "get_accounts" ELSE "get_balance"])

(* mutation: the account is put into the map before it is looked at. *)
BeginSweepUnlockedOfNull ==
    \E relay \in BOOLEAN, a \in Accounts \cup {NoAccount} :
    \E I \in IF a = NoAccount THEN {{}} ELSE SUBSET Indices :
        Begin([NoCall EXCEPT
            !.method = "sweepUnlocked", !.relay = relay, !.account = a, !.indices = I,
            !.left = {a},
            !.queue = [b \in Accounts |-> IF b = a THEN I ELSE {}],
            !.wanted = Available \cap OutputsOf(a, I),
            !.step = IF a = NoAccount THEN "get_accounts"
                     ELSE IF I = {} THEN "get_balance" ELSE "sweep_all"])

(* The indices to sweep: as given, of an account, or of the wallet.        *)
BeginSweepUnlocked ==
    \E relay \in BOOLEAN, a \in Accounts \cup {NoAccount} :
    \E I \in IF a = NoAccount THEN {{}} ELSE SUBSET Indices :
        Begin([NoCall EXCEPT
            !.method = "sweepUnlocked", !.relay = relay, !.account = a, !.indices = I,
            !.left = {a} \ {NoAccount},
            !.queue = [b \in Accounts |-> IF b = a THEN I ELSE {}],
            !.wanted = Available \cap OutputsOf(a, I),
            !.step = IF a = NoAccount THEN "get_accounts"
                     ELSE IF I = {} THEN "get_balance" ELSE "sweep_all"])

BeginSweepDust ==
    \E relay \in BOOLEAN :
        Begin([NoCall EXCEPT !.method = "sweepDust", !.relay = relay, !.step = "sweep_dust"])

(* What is relayed was made before; not necessarily in this session, nor   *)
(* by this wallet.                                                         *)
BeginRelay ==
    \E T \in SUBSET {t \in Txs : t \subseteq unlocked} : T # {} /\
        \/ Begin([NoCall EXCEPT !.method = "relayTxs", !.relay = TRUE, !.txs = T,
                                !.step = "relay_tx"])
        \/ Begin([NoCall EXCEPT !.method = "submitTxs", !.relay = TRUE, !.txs = T,
                                !.step = "submit_transfer"])

Invoke ==
    \/ BeginCreateTxs \/ BeginSweepOutput \/ BeginSweepUnlocked
    \/ BeginSweepDust \/ BeginRelay

-----------------------------------------------------------------------------
(* createTxs() and createTx(), which does not allow to split.              *)

IsMultisig ==
    /\ At("is_multisig")
    /\ \/ Throw
       \/ kind # "multisig" /\ GoTo("transfer") /\ UNCHANGED funds

Transfer ==
    /\ At("transfer")
    /\ \/ Throw
       \/ kind # "full" /\ ReturnUnsigned /\ UNCHANGED funds
       \/ \E T \in TransfersOf(Available \cap Scope) :
            /\ call.split \/ \E t \in T : T = {t}
            /\ FailsAfter(T) \/ (Creates(T) /\ Return(T))

-----------------------------------------------------------------------------
SweepOutput ==
    /\ At("sweep_single")
    /\ \/ Throw
       \/ kind # "full" /\ ReturnUnsigned /\ UNCHANGED funds
       \/ /\ UNION call.txs \subseteq Available
          /\ FailsAfter(call.txs) \/ (Creates(call.txs) /\ Return(call.txs))

(* There may be no dust.                                                   *)
SweepDust ==
    /\ At("sweep_dust")
    /\ \/ Throw
       \/ /\ Available \cap Dust # {}
          /\ \/ kind # "full" /\ ReturnUnsigned /\ UNCHANGED funds
             \/ \E T \in SweepsOf(Available \cap Dust) :
                  FailsAfter(T) \/ (Creates(T) /\ Return(T))

-----------------------------------------------------------------------------
(* sweepUnlocked(): list accounts and subaddresses with unlocked outputs,  *)
(* then sweep one account after the other.                                 *)

(* mutation: the first subaddress is skipped. *)
UnlockedFromOne(a) == {Index(o) : o \in {p \in Available : Account(p) = a /\ Index(p) > 0}}

Unlocked(a) == {Index(o) : o \in {p \in Available : Account(p) = a}}

GetAccounts ==
    /\ At("get_accounts")
    /\ UNCHANGED funds
    /\ \/ End("throws", {})
       \/ /\ call' = [call EXCEPT !.left = {Account(o) : o \in Available},
                                  !.step = "get_balance"]
          /\ UNCHANGED answer

(* Accounts without unlocked outputs were not listed.                      *)
GetBalance ==
    /\ At("get_balance")
    /\ UNCHANGED funds
    /\ \/ End("throws", {})
       \/ call.left = {} /\ Return({})
       \/ /\ call.left # {}
          /\ call' = [call EXCEPT
                !.queue = [a \in Accounts |-> IF a \in call.left THEN Unlocked(a) ELSE {}],
                !.step = "sweep_all"]
          /\ UNCHANGED answer

(* mutation: the account stays. *)
SweptAgain(a, T) ==
    IF call.left = {a} THEN Return(call.made \cup T)
    ELSE /\ call' = [call EXCEPT !.left = IF call.made = {} THEN @ ELSE @ \ {a},
                                 !.made = @ \cup T]
         /\ UNCHANGED answer

(* The account was swept.                                                  *)
Swept(a, T) ==
    IF call.left = {a} THEN Return(call.made \cup T)
    ELSE /\ call' = [call EXCEPT !.left = @ \ {a}, !.made = @ \cup T]
         /\ UNCHANGED answer

(* Outputs of subaddresses that were not listed stay.  An account none of  *)
(* whose subaddresses is listed, nothing to sweep, and a reply without     *)
(* transactions are errors.                                                *)
SweepAll ==
    /\ At("sweep_all")
    /\ \/ Throw
       \/ \E a \in call.left :
            /\ \A b \in call.left : a <= b
            /\ \E T \in SweepsOf({o \in Available : Account(o) = a /\ Index(o) \in call.queue[a]}) :
                 /\ T # {}
                 /\ FailsAfter(T) \/ (Creates(T) /\ Swept(a, T))

-----------------------------------------------------------------------------
(* relayTxs(): one request per transaction, in the order of the argument.  *)
RelayTx ==
    /\ At("relay_tx")
    /\ \E t \in call.txs \ call.made :
         \/ FailsAfter({t})
         \/ /\ Relays({t})
            /\ IF call.txs \subseteq call.made \cup {t} THEN Return(call.txs)
               ELSE call' = [call EXCEPT !.made = @ \cup {t}] /\ UNCHANGED answer

(* submitTxs() and submitMultisigTxHex().                                  *)
SubmitTransfer ==
    /\ At("submit_transfer")
    /\ FailsAfter(call.txs) \/ (Relays(call.txs) /\ Return(call.txs))

-----------------------------------------------------------------------------
Step ==
    \/ IsMultisig \/ Transfer \/ SweepOutput \/ SweepDust
    \/ GetAccounts \/ GetBalance \/ SweepAll \/ RelayTx \/ SubmitTransfer

Others == (Unlocks \/ OthersSpend) /\ UNCHANGED <<call, answer>>

Next == Invoke \/ Step \/ Others

Spec == Init /\ [][Next]_vars

-----------------------------------------------------------------------------
Steps == {"none", "is_multisig", "transfer", "sweep_single", "sweep_dust",
          "get_accounts", "get_balance", "sweep_all", "relay_tx", "submit_transfer"}

Calls == [method: Methods \cup {"none"}, step: Steps, relay: BOOLEAN, split: BOOLEAN,
          account: Accounts \cup {NoAccount}, indices: SUBSET Indices,
          txs: SUBSET Txs, left: SUBSET Accounts, queue: [Accounts -> SUBSET Indices],
          made: SUBSET Txs, wanted: SUBSET Outputs]
Answers == [outcome: {"none", "returns", "unsigned", "throws"}, txs: SUBSET Txs]

(* Every variable has its type.                                            *)
TypeOK == FundsTypeOK /\ call \in Calls /\ answer \in Answers

(* Which method is at which request, with which configuration.             *)
StepFollowsMethod ==
    LET IsAt(m, S) == call.method = m <=> call.step \in S
    IN /\ IsAt("none", {"none"}) /\ (call.method = "none" => call = NoCall)
       /\ IsAt("createTxs", {"is_multisig", "transfer"})
       /\ IsAt("sweepOutput", {"sweep_single"})
       /\ IsAt("sweepUnlocked", {"get_accounts", "get_balance", "sweep_all"})
       /\ IsAt("sweepDust", {"sweep_dust"})
       /\ IsAt("relayTxs", {"relay_tx"})
       /\ IsAt("submitTxs", {"submit_transfer"})
       /\ call.made # {} => call.step \in {"sweep_all", "relay_tx"}
       /\ call.method \in {"relayTxs", "submitTxs"} => call.relay
       /\ call.step = "sweep_single" => Disjoint(call.txs)
       /\ call.step \in {"get_accounts", "get_balance"} => call.indices = {}
       /\ call.step = "get_accounts" => call.account = NoAccount
       /\ call.step = "get_balance" => \/ call.account = NoAccount
                                      \/ call.left = {call.account}

(* Transactions that were made are of the method's scope; those of a sweep *)
(* are of accounts it has done.                                            *)
MadeInv ==
    /\ Disjoint(relayed)
    /\ UNION call.made \subseteq Scope
    /\ Relaying => call.made \subseteq relayed
    /\ call.step = "relay_tx" => call.made \subseteq call.txs /\ call.made # call.txs
    /\ call.step = "sweep_all" =>
         /\ call.left # {}
         /\ \A t \in call.made : \A o \in t : Account(o) \notin call.left
         /\ \A a \in call.left, o \in Outputs :
              Account(o) = a /\ Index(o) \in call.queue[a] => o \in Scope

(* What sweepUnlocked wanted is still to be found, is listed, or is done.  *)
WantedInv ==
    /\ call.wanted \subseteq unlocked
    /\ call.step = "get_balance" =>
         \A o \in call.wanted : o \in Spent \/ Account(o) \in call.left
    /\ call.step = "sweep_all" =>
         \A o \in call.wanted :
             \/ o \in Spent \cup UNION call.made
             \/ Account(o) \in call.left /\ Index(o) \in call.queue[Account(o)]

(* The transactions a method has made, or returns, can all be relayed: no  *)
(* two spend the same output, although they come from several requests     *)
(* between which the wallet changes.                                       *)
TxsCompatible == Disjoint(call.made) /\ Disjoint(answer.txs)

(* What the proofs rest on.                                                *)
InductiveInv == TypeOK /\ StepFollowsMethod /\ MadeInv /\ WantedInv /\ TxsCompatible

(* sweepUnlocked sweeps all it is asked to: of the outputs that could have *)
(* been spent when it was called, and were in its scope, every one is spent*)
(* by a transaction it returns, or was spent by somebody else.             *)
SweptClean ==
    [][call.method = "sweepUnlocked" /\ answer' # answer /\ answer'.outcome = "returns"
         => call.wanted \subseteq Spent' \cup UNION answer'.txs]_vars

(* What the service knows of the method that runs.                         *)
Task ==
    CASE call = NoCall -> "none"
      [] call # NoCall /\ call.method \in {"relayTxs", "submitTxs"} -> "submit"
      [] OTHER -> "create"

Request == [task |-> Task, relay |-> call.relay,
            scope |-> IF call = NoCall THEN {} ELSE Scope, made |-> call.made]

(* The methods spend what they were asked to, relay exactly if asked to    *)
(* and the wallet can sign, and tell of all they made: the client          *)
(* implements SendService.                                                 *)
Service == INSTANCE SendService WITH request <- Request

ImplementsSends == Service!Spec

=============================================================================
