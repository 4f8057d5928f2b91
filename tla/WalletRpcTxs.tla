---------------------------- MODULE WalletRpcTxs ----------------------------
(***************************************************************************)
(* getTxs, getTransfers and getOutputs of MoneroWalletRpc, request by      *)
(* request: the transfers of all accounts with one get_transfers, the      *)
(* outputs with one incoming_transfers for each account, merged by         *)
(* transaction and filtered by the query, while the server's wallet goes   *)
(* on.  A transaction is merged from parts that were true at different     *)
(* moments.                                                                *)
(*                                                                         *)
(* What the client does between two requests is one step with the response *)
(* before it: nobody sees the transactions that it builds.  The order of   *)
(* the answer is left out.                                                 *)
(***************************************************************************)
EXTENDS WalletLedger, SequencesExt

CONSTANTS
    TxsQueries,         \* the queries given to getTxs
    TransfersQueries,   \* those of the transactions of a query of getTransfers
    OutputsQueries,     \* those of the transactions of a query of getOutputs
    MaxChanges          \* bound: how often the wallet changes during a call

(* A query of transactions; Null is a criterion that is not given.  Its    *)
(* transfer query and its output query refer back to it.                   *)
Criterion == BOOLEAN \cup {Null}
TransferQueries == [isIncoming : Criterion, account : Accounts \cup {Null}]
OutputQueries == [isSpent : Criterion, account : Accounts \cup {Null}]
Queries ==
    [isConfirmed : Criterion, inTxPool : Criterion, isFailed : Criterion,
     isLocked : Criterion, isIncoming : Criterion, isOutgoing : Criterion,
     minHeight : Heights \cup {Null}, maxHeight : Heights \cup {Null},
     hashes : (SUBSET Txs) \cup {Null}, includeOutputs : BOOLEAN,
     transfer : TransferQueries \cup {Null}, output : OutputQueries \cup {Null}]

ASSUME QueriesAssumption ==
    /\ TxsQueries \cup TransfersQueries \cup OutputsQueries \subseteq Queries
    /\ \A q \in TransfersQueries : q.transfer # Null
    /\ \A q \in OutputsQueries : q.output # Null
    /\ MaxChanges \in Nat

VARIABLES
    stage,       \* the next request of the call; "idle" without a call
    method,      \* the method that was called
    query,       \* its query
    collects,    \* whether a collection for missing hashes was given
    connected,   \* isConnected, as it was last answered
    txs,         \* by hash, the transactions built from transfers, then the answer
    outputTxs,   \* by hash, the transactions built from outputs
    blocks,      \* the block objects of outputTxs
    pending,     \* the accounts whose outputs are still to be requested
    outcome,     \* how the call ended
    missing      \* the hashes that it did not find

call == <<method, query>>
clientVars == <<stage, call, collects, connected, txs, outputTxs, blocks, pending,
                outcome, missing>>

VARIABLES
    always,         \* history: what met the query in all states of the call, and why
    ever,           \* history: what met the query in some states of the call
    during          \* history: how the wallet changed during the call

history == <<always, ever, during>>
vars == <<ledger, clientVars, history>>

Stages == {"idle", "inPool", "connect", "transfers", "accounts", "outputs"}
Errors == {"irreconcilable", "stackOverflow"}
Outcomes == {"none", "returned", "failed", "notConnected", "missing"} \cup Errors
Methods == {"getTxs", "getTransfers", "getOutputs"}

(* A transaction as the client builds it; inTxPool, confirmations and      *)
(* height may be unset.  A block object has the transactions that refer to *)
(* it, built from transfers or from outputs, and the heights by which      *)
(* blockMap knows it.                                                      *)
TxRecords ==
    [isConfirmed : BOOLEAN, inTxPool : Criterion, isFailed : BOOLEAN, isLocked : BOOLEAN,
     confirmations : 0..MaxTop \cup {Null}, height : Heights \cup {Null},
     incoming : SUBSET Accounts, outgoing : Accounts \cup {Null},
     outputs : SUBSET [output : Outputs, isSpent : BOOLEAN]]

Blocks == [height : Heights, txs : SUBSET Txs, outputTxs : SUBSET Txs, keys : SUBSET Heights]

Transfers == [tx : Txs, isIncoming : BOOLEAN, account : Accounts]
TransfersOf(t, tx) ==
    {[tx |-> t, isIncoming |-> TRUE, account |-> a] : a \in tx.incoming} \cup
    {[tx |-> t, isIncoming |-> FALSE, account |-> a] : a \in {tx.outgoing} \ {Null}}

(* meetsCriteria of the three queries, without those they refer to. *)
Allows(criterion, value) == criterion \in {Null, value}

TxMeets(q, t, tx) ==
    /\ Allows(q.isConfirmed, tx.isConfirmed)
    /\ Allows(q.inTxPool, tx.inTxPool)
    /\ Allows(q.isFailed, tx.isFailed)
    /\ Allows(q.isLocked, tx.isLocked)
    /\ Allows(q.isIncoming, tx.incoming # {})
    /\ Allows(q.isOutgoing, tx.outgoing # Null)
    /\ q.hashes # Null => t \in q.hashes
    /\ q.minHeight # Null => tx.height # Null /\ tx.height >= q.minHeight
    /\ q.maxHeight # Null => tx.height # Null /\ tx.height <= q.maxHeight

TransferMeets(q, transfer) ==
    q # Null => Allows(q.isIncoming, transfer.isIncoming) /\ Allows(q.account, transfer.account)

OutputMeets(q, o) ==
    q # Null => Allows(q.isSpent, o.isSpent) /\ Allows(q.account, AccountOf[o.output])

\* The outputs for which a transaction meets a query of outputs.
Reasons(q, tx) ==
    IF q.output = Null THEN {Null}
    ELSE {o.output : o \in {o \in tx.outputs : OutputMeets(q.output, o)}}

(* A transaction meets a query if it does, and if one of its transfers and *)
(* one of its outputs do.                                                  *)
Meets(q, t, tx) ==
    /\ TxMeets(q, t, tx)
    /\ q.transfer # Null => \E transfer \in TransfersOf(t, tx) : TransferMeets(q.transfer, transfer)
    /\ Reasons(q, tx) # {}

(* getTxs collects all transfers and outputs of the transactions: it asks  *)
(* for them with a query that only mentions what each of them knows.       *)
Decontextualize(q) ==
    [q EXCEPT !.isIncoming = Null, !.isOutgoing = Null, !.transfer = Null, !.output = Null]

IsContextual(m, q) ==
    \/ q.isIncoming # Null
    \/ q.isOutgoing # Null
    \/ m = "getTransfers" /\ q.output # Null
    \/ m = "getOutputs" /\ q.transfer # Null

BuildsTxs == method = "getTxs" \/ IsContextual(method, query)
AuxQuery == IF BuildsTxs THEN Decontextualize(query) ELSE query
NeedsOutputs == query.includeOutputs \/ query.output # Null

(* What a method returns of a transaction. *)
ItemsOf(m, q, t, tx) ==
    CASE ~Meets(q, t, tx) -> {}
      [] Meets(q, t, tx) /\ m = "getTxs" -> {t}
      [] Meets(q, t, tx) /\ m = "getTransfers" ->
            {transfer \in TransfersOf(t, tx) : TransferMeets(q.transfer, transfer)}
      [] Meets(q, t, tx) /\ m = "getOutputs" -> Reasons(q, tx)

Items(m, q, built) == UNION {ItemsOf(m, q, t, built[t]) : t \in DOMAIN built}

\* What a method returns, with each output that lets it in.
Matches(m, q, built) ==
    UNION {ItemsOf(m, q, t, built[t]) \X Reasons(q, built[t]) : t \in DOMAIN built}

(***************************************************************************)
(* The server's answers: all of one response is true at one moment.        *)
(***************************************************************************)

ServerOutputs(t) ==
    {[output |-> o, isSpent |-> IsSpent(o)] : o \in {o \in Outputs : TxOf[o] = t}}

\* The transaction, with what is known of it, as its transfers describe it.
ServerTx(t) ==
    [isConfirmed |-> place[t] = "mined", inTxPool |-> place[t] = "pool",
     isFailed |-> place[t] = "failed", isLocked |-> IsLocked(t),
     confirmations |-> Confirmations(t),
     height |-> IF place[t] = "mined" THEN mined[t] ELSE Null,
     incoming |-> IF place[t] = "failed" THEN {} ELSE Incoming[t],
     outgoing |-> Outgoing[t],
     outputs |-> IF place[t] = "mined" THEN ServerOutputs(t) ELSE {}]

Truth == [t \in {t \in Txs : place[t] # "none"} |-> ServerTx(t)]

(* The parameters of get_transfers. *)
CanBeConfirmed == query.isConfirmed # FALSE /\ query.inTxPool # TRUE /\ query.isFailed # TRUE
CanBeInTxPool ==
    /\ connected
    /\ query.isConfirmed # TRUE /\ query.inTxPool # FALSE /\ query.isFailed # TRUE
    /\ query.minHeight = Null /\ query.maxHeight = Null
CanBeFailed == query.isFailed # FALSE /\ query.isConfirmed # TRUE /\ query.inTxPool # TRUE

TransferQuery == IF BuildsTxs THEN Null ELSE query.transfer

\* mutation: the lower bound is passed as it is
WithinHeightsAsGiven(height) ==
    /\ query.minHeight # Null => height > query.minHeight
    /\ query.maxHeight # Null => height <= query.maxHeight

\* get_transfers takes an exclusive lower bound: the client subtracts one.
WithinHeights(height) ==
    /\ query.minHeight # Null => height > query.minHeight - 1
    /\ query.maxHeight # Null => height <= query.maxHeight

Served(t) ==
    \/ place[t] = "mined" /\ CanBeConfirmed /\ WithinHeights(mined[t])
    \/ place[t] = "pool" /\ CanBeInTxPool
    \/ place[t] = "failed" /\ CanBeFailed

\* The transactions of the response, without the transfers that the query
\* of transfers excludes.
TxFromTransfers(t) ==
    LET kept == {transfer \in TransfersOf(t, ServerTx(t)) : TransferMeets(TransferQuery, transfer)}
    IN  [ServerTx(t) EXCEPT
           !.incoming = {transfer.account : transfer \in {k \in kept : k.isIncoming}},
           !.outgoing = IF \E k \in kept : ~k.isIncoming THEN @ ELSE Null,
           !.outputs = {}]

TxsFromTransfers ==
    LET built == [t \in {t \in Txs : Served(t)} |-> TxFromTransfers(t)]
    IN  Restrict(built, {t \in DOMAIN built :
                           /\ TransfersOf(t, built[t]) # {}
                           /\ TxMeets(AuxQuery, t, built[t])})

(* incoming_transfers of an account; its transfer_type asks for the spent  *)
(* or for the unspent ones.                                                *)
\* mutation: the output query is not disabled while the outputs are collected
OutputQueryKept == query.output

OutputQuery == IF BuildsTxs THEN Null ELSE query.output
AsksFor(isSpent) == OutputQuery # Null => Allows(OutputQuery.isSpent, isSpent)

TxFromOutputs(t, outputs) ==
    [isConfirmed |-> TRUE, inTxPool |-> Null, isFailed |-> FALSE, isLocked |-> IsLocked(t),
     confirmations |-> Null, height |-> mined[t], incoming |-> {}, outgoing |-> Null,
     outputs |-> outputs]

\* Transactions by height and, in a block, in the order in which they came:
\* by their first account and, of one account, as the server gave them.
FirstAccount(tx) == Min({AccountOf[o.output] : o \in tx.outputs})

InBlockOrder(entries) ==
    {seq \in SetToSeqs(entries) :
       \A i, j \in DOMAIN seq :
           LET a == seq[i].built
               b == seq[j].built
           IN  i < j => \/ a.height < b.height
                        \/ a.height = b.height /\ FirstAccount(a) <= FirstAccount(b)}

\* The response as converted: one transaction for each output.
TxsOfOutputs(account) ==
    LET served == {o \in Outputs : /\ AccountOf[o] = account
                                   /\ place[TxOf[o]] = "mined"
                                   /\ AsksFor(IsSpent(o))}
        entry(o) == [tx |-> TxOf[o],
                     built |-> TxFromOutputs(TxOf[o], {[output |-> o, isSpent |-> IsSpent(o)]})]
    IN  {entry(o) : o \in served}

(***************************************************************************)
(* Merging.  Two transactions that differ in a field that cannot change    *)
(* are irreconcilable.  A transaction refers to its block and the block    *)
(* lists its transactions: to merge either is to merge the other, in the   *)
(* code by recursion, here in one step that gives its result or says that  *)
(* it overflows the stack.  TxObjects has the recursion itself.            *)
(***************************************************************************)

\* mutation: isFailed is not reconciled
ReconcilableOnLock(a, b) == a.isLocked = b.isLocked

Reconcilable(a, b) == a.isLocked = b.isLocked /\ a.isFailed = b.isFailed

\* The greatest of two values that may be unset.
Latest(x, y) == IF x = Null THEN y ELSE IF y = Null THEN x ELSE IF x < y THEN y ELSE x

MergedTx(a, b) ==
    [isConfirmed |-> a.isConfirmed \/ b.isConfirmed,
     inTxPool |-> FALSE,   \* for a transaction with an output is confirmed
     isFailed |-> a.isFailed,
     isLocked |-> a.isLocked,
     confirmations |-> Latest(a.confirmations, b.confirmations),
     height |-> Latest(a.height, b.height),
     incoming |-> a.incoming \cup b.incoming,
     outgoing |-> IF a.outgoing = Null THEN b.outgoing ELSE a.outgoing,
     outputs |-> a.outputs \cup b.outputs]

\* Merging blocks leaves one, with the transactions of all; its height is
\* the greatest.
MergedBlock(some) ==
    [height |-> Max({b.height : b \in some}), txs |-> UNION {b.txs : b \in some},
     outputTxs |-> UNION {b.outputTxs : b \in some}, keys |-> UNION {b.keys : b \in some}]

\* mutation: the result is merged with a block of another height
MergeBlocksOfAnyHeight(all, some) ==
    LET known  == {b \in all : b.keys # {}}
        result == MergedBlock(some \cup known)
    IN  (all \ (some \cup known)) \cup
            {[result EXCEPT !.keys = @ \cup {result.height}]}

\* mergeTx's treatment of blocks: those of the two transactions are merged,
\* and the result with the one that is known by its height.
MergeBlocks(all, some) ==
    LET merged == MergedBlock(some)
        known  == {b \in all : merged.height \in b.keys}
        result == MergedBlock({merged} \cup known)
    IN  (all \ (some \cup known)) \cup
            {[result EXCEPT !.keys = @ \cup {merged.height}]}

\* mutation: a height that is not known is 0
HeightInOrZero(all, t) ==
    LET own == {b \in all : t \in b.txs}
    IN  IF own = {} THEN 0 ELSE (CHOOSE b \in own : TRUE).height

HeightIn(all, t) ==
    LET own == {b \in all : t \in b.txs}
    IN  IF own = {} THEN Null ELSE (CHOOSE b \in own : TRUE).height

WithHeights(built, all) ==
    [t \in DOMAIN built |-> [built[t] EXCEPT !.height = HeightIn(all, t)]]

\* Where the merging of blocks does not end: the block that is known by the
\* height of the merged one has the transaction as built from outputs and
\* the merged one has it as built from transfers.  The two then belong to
\* different blocks; to merge them is to merge their blocks, in which they
\* are found again, each in the other's block.
Recurses(all, some, t) ==
    \E b \in all : t \in b.outputTxs \ b.txs /\ MergedBlock(some).height \in b.keys

\* mergeTx of a transaction with outputs, unless it is absent and skipped.
\* Of the errors it is the first that is thrown.
MergeTx(skipIfAbsent, acc, entry) ==
    LET t     == entry.tx
        known == t \in DOMAIN acc.txs
        added == IF skipIfAbsent /\ ~known THEN {} ELSE {t}
        own   == [height |-> entry.built.height, txs |-> added, outputTxs |-> {}, keys |-> {}]
        some  == {own} \cup {b \in acc.blocks : t \in b.txs \cup b.outputTxs}
    IN  [txs |-> [u \in DOMAIN acc.txs \cup added |->
                    IF u # t THEN acc.txs[u]
                    ELSE IF known THEN MergedTx(acc.txs[t], entry.built)
                    ELSE entry.built],
         blocks |-> MergeBlocks(acc.blocks, some),
         error |-> CASE acc.error # "none" -> acc.error
                     [] acc.error = "none" /\ known /\ ~Reconcilable(acc.txs[t], entry.built) ->
                           "irreconcilable"
                     [] acc.error = "none" /\ known /\ Reconcilable(acc.txs[t], entry.built)
                        /\ Recurses(acc.blocks, some, t) -> "stackOverflow"
                     [] OTHER -> "none"]

MergeAll(skipIfAbsent, built, all, entries) ==
    FoldLeft(LAMBDA acc, entry : MergeTx(skipIfAbsent, acc, entry),
             [txs |-> built, blocks |-> all, error |-> "none"], entries)

\* The block objects of the transactions built from transfers are known by
\* their heights, those of the transactions built from outputs are not yet.
BlocksOf(built) ==
    {[height |-> h, txs |-> {t \in DOMAIN built : built[t].height = h}, outputTxs |-> {},
      keys |-> {h}] : h \in {built[t].height : t \in DOMAIN built} \ {Null}}

\* getTxs merges the transactions with outputs into those with transfers.
EntriesOf(with) == {[tx |-> t, built |-> with[t]] : t \in DOMAIN with}

MergeOutputTxs(built, with, withBlocks, entries) ==
    LET theirs == {[b EXCEPT !.txs = {}, !.outputTxs = b.txs \cap DOMAIN with, !.keys = {}] :
                     b \in {b \in withBlocks : b.txs \cap DOMAIN with # {}}}
        merged == MergeAll(TRUE, built, BlocksOf(built) \cup theirs, entries)
    IN  [txs |-> WithHeights(merged.txs, merged.blocks), error |-> merged.error]

(***************************************************************************)
(* The calls.                                                              *)
(***************************************************************************)

\* What the call returns; in place of each missing hash, if they are
\* collected, a null.
Answer == Items(method, query, txs) \cup IF missing = {} THEN {} ELSE {Null}

Init ==
    /\ LedgerInit
    /\ stage = "idle" /\ method = "getTxs" /\ query = Null /\ collects = FALSE
    /\ connected = FALSE
    /\ txs = <<>> /\ outputTxs = <<>> /\ blocks = {} /\ pending = {}
    /\ outcome = "none" /\ missing = {}
    /\ always = {} /\ ever = {} /\ during = <<>>

\* Where getTransfersAux starts.
TransfersStage(q) == IF q.inTxPool = TRUE THEN "inPool" ELSE "connect"

Call ==
    /\ stage = "idle" /\ outcome = "none"
    /\ \E m \in Methods :
          \E q \in CASE m = "getTxs" -> TxsQueries
                     [] m = "getTransfers" -> TransfersQueries
                     [] m = "getOutputs" -> OutputsQueries :
             /\ method' = m /\ query' = q
             /\ collects' \in IF m = "getTxs" /\ q.hashes # Null THEN BOOLEAN ELSE {FALSE}
             /\ IF m = "getOutputs" /\ ~IsContextual(m, q)
                THEN IF q.output.account = Null
                     THEN stage' = "accounts" /\ UNCHANGED pending
                     ELSE stage' = "outputs" /\ pending' = {q.output.account}
                ELSE stage' = TransfersStage(q) /\ UNCHANGED pending
             /\ always' = Matches(m, q, Truth) /\ ever' = Items(m, q, Truth)
    /\ UNCHANGED <<ledger, connected, txs, outputTxs, blocks, outcome, missing, during>>

Return(built, notFound) ==
    /\ stage' = "idle" /\ outcome' = "returned"
    /\ txs' = built /\ missing' = notFound
    /\ outputTxs' = <<>> /\ blocks' = {} /\ pending' = {}

Throw(error, notFound) ==
    /\ stage' = "idle" /\ outcome' = error
    /\ txs' = <<>> /\ missing' = notFound
    /\ outputTxs' = <<>> /\ blocks' = {} /\ pending' = {}

\* mutation: hashes that are not found are fetched again
FinishWhenFound(built) ==
    LET found == {t \in DOMAIN built : Meets(query, t, built[t])}
        lost  == IF query.hashes = Null THEN {} ELSE query.hashes \ found
    IN  IF lost # {}
        THEN /\ stage' = TransfersStage(query)
             /\ txs' = <<>> /\ outputTxs' = <<>> /\ blocks' = {}
             /\ UNCHANGED <<collects, pending, outcome, missing>>
        ELSE Return(Restrict(built, found), lost) /\ UNCHANGED collects

\* The end of getTxs: it filters, accounts for the hashes, and starts again
\* if it sees a confirmed transaction without a block.
Finish(built) ==
    LET found == {t \in DOMAIN built : Meets(query, t, built[t])}
        lost  == IF query.hashes = Null THEN {} ELSE query.hashes \ found
    IN  IF lost # {} /\ ~collects THEN Throw("missing", lost) /\ UNCHANGED collects
        ELSE IF \E t \in found : built[t].isConfirmed /\ built[t].height = Null
        THEN /\ stage' = TransfersStage(query) /\ collects' = FALSE
             /\ txs' = <<>> /\ outputTxs' = <<>> /\ blocks' = {} /\ missing' = lost
             /\ UNCHANGED <<pending, outcome>>
        ELSE Return(Restrict(built, found), lost) /\ UNCHANGED collects

\* isConnected asks the server to refresh: any error means that it is not.
CheckPool ==
    /\ stage = "inPool"
    /\ \/ stage' = "connect" /\ UNCHANGED <<txs, outputTxs, blocks, pending, outcome, missing>>
       \/ Throw("notConnected", {})
    /\ UNCHANGED <<ledger, call, collects, connected, history>>

Connect ==
    /\ stage = "connect"
    /\ stage' = "transfers"
    /\ connected' \in BOOLEAN
    /\ UNCHANGED <<ledger, call, collects, txs, outputTxs, blocks, pending, outcome,
                   missing, history>>

GetTransfers ==
    /\ stage = "transfers"
    /\ IF ~BuildsTxs THEN Return(TxsFromTransfers, {}) /\ UNCHANGED collects
       ELSE IF NeedsOutputs
       THEN /\ stage' = "accounts" /\ txs' = TxsFromTransfers
            /\ UNCHANGED <<collects, outputTxs, blocks, pending, outcome, missing>>
       ELSE Finish(TxsFromTransfers)
    /\ UNCHANGED <<ledger, call, connected, history>>

GetAccountIndices ==
    /\ stage = "accounts"
    /\ stage' = "outputs" /\ pending' = Accounts
    /\ UNCHANGED <<ledger, call, collects, connected, txs, outputTxs, blocks, outcome,
                   missing, history>>

\* The transactions built from outputs that meet the query.
Included(built) ==
    Restrict(built, {t \in DOMAIN built : TxMeets(AuxQuery, t, built[t])})

\* After the last response, getTxs merges and the others return.
Combine(with, withBlocks) ==
    \E entries \in InBlockOrder(EntriesOf(with)) :
        LET merged == MergeOutputTxs(txs, with, withBlocks, entries)
        IN  IF merged.error # "none" THEN Throw(merged.error, {}) /\ UNCHANGED collects
            ELSE Finish(merged.txs)

GetOutputs ==
    /\ stage = "outputs"
    /\ LET account == Min(pending)
       IN  \E entries \in SetToSeqs(TxsOfOutputs(account)) :
              LET merged == MergeAll(FALSE, outputTxs, blocks, entries)
                  all    == WithHeights(merged.txs, merged.blocks)
              IN  IF merged.error # "none"
                  THEN Throw(merged.error, {}) /\ UNCHANGED collects
                  ELSE IF pending # {account}
                  THEN /\ pending' = pending \ {account}
                       /\ outputTxs' = merged.txs /\ blocks' = merged.blocks
                       /\ UNCHANGED <<stage, collects, txs, outcome, missing>>
                  ELSE IF ~BuildsTxs THEN Return(Included(all), {}) /\ UNCHANGED collects
                  ELSE Combine(Included(all), merged.blocks)
    /\ UNCHANGED <<ledger, call, connected, history>>

\* A request gets no answer, or an error.
RequestFails ==
    /\ stage \in {"transfers", "accounts", "outputs"}
    /\ Throw("failed", {})
    /\ UNCHANGED <<ledger, call, collects, connected, history>>

\* The caller goes on.
Forget ==
    /\ outcome # "none"
    /\ outcome' = "none" /\ method' = "getTxs" /\ query' = Null
    /\ collects' = FALSE /\ connected' = FALSE /\ txs' = <<>> /\ missing' = {}
    /\ always' = {} /\ ever' = {} /\ during' = <<>>
    /\ UNCHANGED <<ledger, stage, outputTxs, blocks, pending>>

Watch(what) ==
    IF stage = "idle" THEN UNCHANGED history
    ELSE /\ always' = always \cap Matches(method, query, Truth)'
         /\ ever' = ever \cup Items(method, query, Truth)'
         /\ during' = Append(during, what)

\* The wallet changes during a call, or before it.  To change it before
\* get_accounts, which reads nothing that changes, is to change it after.
Change ==
    /\ outcome = "none" /\ Len(during) < MaxChanges
    /\ stage # "accounts"
    /\ UNCHANGED clientVars
    /\ \/ Mine /\ Watch("change")
       \/ \E t \in Txs : (Arrive(t) \/ Drop(t)) /\ Watch("change")
       \/ Reorganize /\ Watch("reorg")

Step == RequestFails \/ CheckPool \/ Connect \/ GetTransfers \/ GetAccountIndices \/ GetOutputs
Next == Call \/ Step \/ Forget \/ Change

Spec == Init /\ [][Next]_vars

\* Each request is answered, or it fails.
FairSpec == Spec /\ WF_vars(Step)

(***************************************************************************)
(* Properties                                                              *)
(***************************************************************************)

Records(built) == DOMAIN built \subseteq Txs /\ built \in [DOMAIN built -> TxRecords]

\* Every variable has its type.
TypeOK ==
    /\ LedgerTypeOK
    /\ stage \in Stages
    /\ method \in Methods
    /\ query \in {Null} \cup TxsQueries \cup TransfersQueries \cup OutputsQueries
    /\ {collects, connected} \subseteq BOOLEAN
    /\ Records(txs) /\ Records(outputTxs)
    /\ blocks \subseteq Blocks
    /\ pending \subseteq Accounts
    /\ outcome \in Outcomes
    /\ missing \subseteq Txs
    /\ ToSet(during) \subseteq {"change", "reorg"} /\ Len(during) <= MaxChanges

Reorganized == "reorg" \in ToSet(during)
UsesTransfers == method # "getOutputs" \/ BuildsTxs

\* What met the query throughout the call, for the same output if it is for
\* an output.
Lasting == {match[1] : match \in always}

TxOfItem(item) ==
    CASE method = "getTxs" -> item
      [] method = "getTransfers" -> item.tx
      [] method = "getOutputs" -> TxOf[item]

\* Transactions built from outputs do not say that they are not in the pool:
\* a query that asks for it loses them.
KeepsOutputs == NeedsOutputs => query.inTxPool # FALSE

\* A method that returns, as it does unless a request fails, two responses
\* contradict each other or merging overflows the stack, gives everything
\* that met its query throughout the call and nothing that never met it,
\* although no two of its requests were answered at the same moment; and it
\* reports no hash as missing if the transaction or a part of it met the query
\* throughout.  Only without a connection the pool is left out.
AnswerIsCurrent ==
    (UsesTransfers => connected) /\ KeepsOutputs /\ ~Reorganized =>
        /\ outcome = "returned" => Lasting \subseteq Answer /\ Answer \ {Null} \subseteq ever
        /\ outcome = "missing" => \A item \in Lasting : TxOfItem(item) \notin missing

\* If the wallet does not change during a call, getTxs returns its
\* transactions as they are: merged from the parts of several responses,
\* each has all its transfers and outputs and its own height.
QuietAnswerIsExact ==
    outcome = "returned" /\ during = <<>> /\ BuildsTxs /\ KeepsOutputs =>
        \A t \in DOMAIN txs :
            txs[t] = [Truth[t] EXCEPT !.outputs = IF NeedsOutputs THEN @ ELSE {}]

\* Where merging transactions and their blocks ends, it moves none to another
\* height: as long as the chain does not reorganize, a confirmed transaction
\* that is returned has the height of its block, although those mined during
\* the call got their blocks from objects that had none.
HeightsAreTrue ==
    outcome = "returned" /\ ~Reorganized =>
        \A t \in DOMAIN txs : txs[t].isConfirmed => txs[t].height = mined[t]

\* Two responses contradict each other, or make blocks that merge into each
\* other without end, only if the wallet changed between them; and then the
\* call throws rather than to return a mixture.
ContradictionMeansChange ==
    /\ outcome \in Errors => during # <<>>
    /\ outcome = "returned" =>
          \A t \in DOMAIN txs : txs[t].isFailed => ~txs[t].isConfirmed /\ txs[t].outputs = {}

\* Every call ends, if with an overflow of the stack, however often the
\* wallet changes: the transactions are not fetched again and again.
CallsReturn == (stage # "idle") ~> (stage = "idle")

\* A confirmed transaction that is returned has confirmations.
ConfirmedHasConfirmations ==
    outcome = "returned" /\ BuildsTxs =>
        \A t \in DOMAIN txs : txs[t].isConfirmed => txs[t].confirmations > 0

=============================================================================
