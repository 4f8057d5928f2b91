------------------------- MODULE WalletRpcTxsProofs -------------------------
(***************************************************************************)
(* What is proved of WalletRpcTxs.                                         *)
(***************************************************************************)
EXTENDS TxMergingProofs

(***************************************************************************)
(* What the server answers.                                                *)
(***************************************************************************)

\* Mined transactions are in a block of the chain; those that fail are the
\* wallet's own.
LedgerInv ==
    \A t \in Txs :
        /\ place[t] = "mined" => mined[t] \in 1..(top - 1)
        /\ place[t] # "mined" => mined[t] = 0
        /\ place[t] = "failed" => Outgoing[t] # Null

LEMMA MinedInHeights ==
    ASSUME LedgerTypeOK, LedgerInv, NEW t \in Txs, place[t] = "mined"
    PROVE  mined[t] \in Heights /\ mined[t] \in Nat /\ mined[t] # Null
BY LedgerAssumption DEF LedgerTypeOK, LedgerInv, Heights

LEMMA ServerTxType ==
    ASSUME LedgerTypeOK, LedgerInv, NEW t \in Txs
    PROVE  ServerTx(t) \in TxRecords
<1>1. /\ IsLocked(t) \in BOOLEAN /\ (place[t] = "mined") \in BOOLEAN
      /\ (place[t] = "pool") \in BOOLEAN /\ (place[t] = "failed") \in BOOLEAN
  BY DEF IsLocked
<1>2. Confirmations(t) \in 0..MaxTop
  BY LedgerAssumption DEF Confirmations, LedgerTypeOK, LedgerInv
<1>3. (IF place[t] = "mined" THEN mined[t] ELSE Null) \in Heights \cup {Null}
  BY MinedInHeights
<1>4. /\ Incoming[t] \in SUBSET Accounts /\ {} \in SUBSET Accounts
      /\ Outgoing[t] \in Accounts \cup {Null}
  BY LedgerAssumption
<1>5. ServerOutputs(t) \in SUBSET [output : Outputs, isSpent : BOOLEAN]
  <2> SUFFICES ASSUME NEW r \in ServerOutputs(t)
               PROVE  r \in [output : Outputs, isSpent : BOOLEAN]
    OBVIOUS
  <2>1. PICK o \in Outputs : r = [output |-> o, isSpent |-> IsSpent(o)]
    BY DEF ServerOutputs
  <2>2. IsSpent(o) \in BOOLEAN
    BY DEF IsSpent
  <2> QED BY <2>1, <2>2
<1>6. (place[t] = "pool") \in Criterion
  BY <1>1 DEF Criterion
<1> QED BY <1>1, <1>2, <1>3, <1>4, <1>5, <1>6 DEF ServerTx, TxRecords

LEMMA ServerTxFields ==
    ASSUME NEW t
    PROVE  /\ ServerTx(t).isConfirmed <=> place[t] = "mined"
           /\ ServerTx(t).inTxPool = (place[t] = "pool")
           /\ ServerTx(t).isFailed <=> place[t] = "failed"
           /\ ServerTx(t).isLocked = IsLocked(t)
           /\ ServerTx(t).confirmations = Confirmations(t)
           /\ ServerTx(t).height = IF place[t] = "mined" THEN mined[t] ELSE Null
           /\ ServerTx(t).incoming = IF place[t] = "failed" THEN {} ELSE Incoming[t]
           /\ ServerTx(t).outgoing = Outgoing[t]
           /\ ServerTx(t).outputs = IF place[t] = "mined" THEN ServerOutputs(t) ELSE {}
BY DEF ServerTx


(***************************************************************************)
(* The query, and the transactions that are built from transfers.          *)
(***************************************************************************)

QueriesOf(m) ==
    CASE m = "getTxs" -> TxsQueries
      [] m = "getTransfers" -> TransfersQueries
      [] m = "getOutputs" -> OutputsQueries

LEMMA QueryType ==
    ASSUME method \in Methods, query \in QueriesOf(method)
    PROVE  /\ query \in Queries
           /\ method = "getTransfers" => query.transfer # Null
           /\ method = "getOutputs" => query.output # Null
BY QueriesAssumption DEF QueriesOf, Methods

LEMMA AuxQueryFields ==
    ASSUME query \in Queries
    PROVE  /\ AuxQuery \in Queries
           /\ AuxQuery.isConfirmed = query.isConfirmed
           /\ AuxQuery.inTxPool = query.inTxPool
           /\ AuxQuery.isFailed = query.isFailed
           /\ AuxQuery.isLocked = query.isLocked
           /\ AuxQuery.minHeight = query.minHeight
           /\ AuxQuery.maxHeight = query.maxHeight
           /\ AuxQuery.hashes = query.hashes
           /\ AuxQuery.isIncoming = Null
           /\ AuxQuery.isOutgoing = Null
<1>1. CASE BuildsTxs
  BY <1>1 DEF AuxQuery, Decontextualize, Queries, Criterion
<1>2. CASE ~BuildsTxs
  BY <1>2 DEF AuxQuery, BuildsTxs, IsContextual
<1> QED BY <1>1, <1>2

LEMMA TransfersOfMember ==
    ASSUME NEW t, NEW tx, NEW x
    PROVE  x \in TransfersOf(t, tx) <=>
              \/ \E a \in tx.incoming : x = [tx |-> t, isIncoming |-> TRUE, account |-> a]
              \/ /\ tx.outgoing # Null
                 /\ x = [tx |-> t, isIncoming |-> FALSE, account |-> tx.outgoing]
BY DEF TransfersOf

(* The fields of a transaction in the answer to get_transfers.             *)
LEMMA TxFromTransfersFields ==
    ASSUME NEW t
    PROVE  /\ TxFromTransfers(t).isConfirmed = ServerTx(t).isConfirmed
           /\ TxFromTransfers(t).inTxPool = ServerTx(t).inTxPool
           /\ TxFromTransfers(t).isFailed = ServerTx(t).isFailed
           /\ TxFromTransfers(t).isLocked = ServerTx(t).isLocked
           /\ TxFromTransfers(t).confirmations = ServerTx(t).confirmations
           /\ TxFromTransfers(t).height = ServerTx(t).height
           /\ TxFromTransfers(t).outputs = {}
BY DEF TxFromTransfers, ServerTx

LEMMA TxFromTransfersTransfers ==
    ASSUME NEW t
    PROVE  /\ \A a : a \in TxFromTransfers(t).incoming <=>
                 /\ a \in ServerTx(t).incoming
                 /\ TransferMeets(TransferQuery, [tx |-> t, isIncoming |-> TRUE, account |-> a])
           /\ TxFromTransfers(t).outgoing =
                 IF /\ ServerTx(t).outgoing # Null
                    /\ TransferMeets(TransferQuery, [tx |-> t, isIncoming |-> FALSE,
                                                     account |-> ServerTx(t).outgoing])
                 THEN ServerTx(t).outgoing ELSE Null
<1> DEFINE Kept == {x \in TransfersOf(t, ServerTx(t)) : TransferMeets(TransferQuery, x)}
           In == {x.account : x \in {k \in Kept : k.isIncoming}}
<1>1. /\ TxFromTransfers(t).incoming = In
      /\ TxFromTransfers(t).outgoing =
            IF \E k \in Kept : ~k.isIncoming THEN ServerTx(t).outgoing ELSE Null
  BY DEF TxFromTransfers, ServerTx
<1>2. \A x : x \in Kept <=> /\ TransferMeets(TransferQuery, x)
                            /\ \/ \E a \in ServerTx(t).incoming :
                                     x = [tx |-> t, isIncoming |-> TRUE, account |-> a]
                               \/ /\ ServerTx(t).outgoing # Null
                                  /\ x = [tx |-> t, isIncoming |-> FALSE,
                                          account |-> ServerTx(t).outgoing]
  BY TransfersOfMember
<1> HIDE DEF Kept
<1>3. ASSUME NEW a
      PROVE  a \in In <=>
                 /\ a \in ServerTx(t).incoming
                 /\ TransferMeets(TransferQuery, [tx |-> t, isIncoming |-> TRUE, account |-> a])
  <2>1. ASSUME a \in In PROVE a \in ServerTx(t).incoming
                 /\ TransferMeets(TransferQuery, [tx |-> t, isIncoming |-> TRUE, account |-> a])
    <3>1. PICK x \in Kept : x.isIncoming /\ x.account = a
      BY <2>1
    <3>2. CASE \E b \in ServerTx(t).incoming : x = [tx |-> t, isIncoming |-> TRUE, account |-> b]
      BY <3>1, <3>2, <1>2
    <3>3. CASE x = [tx |-> t, isIncoming |-> FALSE, account |-> ServerTx(t).outgoing]
      <4>1. x.isIncoming = FALSE
        BY <3>3
      <4> QED BY <3>1, <4>1
    <3> QED BY <3>1, <3>2, <3>3, <1>2
  <2>2. ASSUME a \in ServerTx(t).incoming,
               TransferMeets(TransferQuery, [tx |-> t, isIncoming |-> TRUE, account |-> a])
        PROVE  a \in In
    <3> DEFINE x == [tx |-> t, isIncoming |-> TRUE, account |-> a]
    <3>1. x \in Kept
      BY <2>2, <1>2
    <3>2. x.isIncoming /\ x.account = a
      OBVIOUS
    <3> QED BY <3>1, <3>2
  <2> QED BY <2>1, <2>2
<1>4. (\E k \in Kept : ~k.isIncoming) <=>
         /\ ServerTx(t).outgoing # Null
         /\ TransferMeets(TransferQuery, [tx |-> t, isIncoming |-> FALSE,
                                          account |-> ServerTx(t).outgoing])
  <2> DEFINE x == [tx |-> t, isIncoming |-> FALSE, account |-> ServerTx(t).outgoing]
  <2>1. ~x.isIncoming
    OBVIOUS
  <2>2. ASSUME NEW k \in Kept, ~k.isIncoming
        PROVE  ServerTx(t).outgoing # Null /\ TransferMeets(TransferQuery, x)
    <3>1. CASE \E b \in ServerTx(t).incoming : k = [tx |-> t, isIncoming |-> TRUE, account |-> b]
      <4>1. k.isIncoming = TRUE
        BY <3>1
      <4> QED BY <2>2, <4>1
    <3>2. CASE k = x /\ ServerTx(t).outgoing # Null
      BY <3>2, <1>2
    <3> QED BY <3>1, <3>2, <1>2
  <2>3. ASSUME ServerTx(t).outgoing # Null, TransferMeets(TransferQuery, x)
        PROVE  x \in Kept
    BY <2>3, <1>2
  <2> QED BY <2>1, <2>2, <2>3
<1> QED BY <1>1, <1>3, <1>4

(* Those that are built to be returned have all transfers.                 *)
LEMMA TxFromTransfersWhole ==
    ASSUME NEW t, TransferQuery = Null, LedgerTypeOK, LedgerInv, t \in Txs
    PROVE  TxFromTransfers(t) = [ServerTx(t) EXCEPT !.outputs = {}]
<1>1. TxFromTransfers(t).outgoing = ServerTx(t).outgoing
  BY TxFromTransfersTransfers DEF TransferMeets
<1>2. \A a : a \in TxFromTransfers(t).incoming <=> a \in ServerTx(t).incoming
  BY TxFromTransfersTransfers DEF TransferMeets
<1>3. TxFromTransfers(t).incoming = ServerTx(t).incoming
  BY <1>2
<1> DEFINE In == TxFromTransfers(t).incoming
           Out == TxFromTransfers(t).outgoing
<1>4. TxFromTransfers(t) = [ServerTx(t) EXCEPT !.incoming = In, !.outgoing = Out, !.outputs = {}]
  BY DEF TxFromTransfers, ServerTx
<1> HIDE DEF In, Out
<1>5. [ServerTx(t) EXCEPT !.incoming = In, !.outgoing = Out, !.outputs = {}] =
         [ServerTx(t) EXCEPT !.outputs = {}]
  BY <1>1, <1>3 DEF In, Out, ServerTx
<1> QED BY <1>4, <1>5

LEMMA TxFromTransfersType ==
    ASSUME NEW t \in Txs, LedgerTypeOK, LedgerInv
    PROVE  TxFromTransfers(t) \in TxRecords
<1>1. ServerTx(t) \in TxRecords
  BY ServerTxType
<1>2. \A a : a \in TxFromTransfers(t).incoming => a \in ServerTx(t).incoming
  BY TxFromTransfersTransfers
<1>3. TxFromTransfers(t).incoming \in SUBSET Accounts
  BY <1>1, <1>2 DEF TxRecords
<1>4. TxFromTransfers(t).outgoing \in Accounts \cup {Null}
  BY <1>1, TxFromTransfersTransfers DEF TxRecords
<1> DEFINE In == TxFromTransfers(t).incoming
           Out == TxFromTransfers(t).outgoing
<1>5. TxFromTransfers(t) = [ServerTx(t) EXCEPT !.incoming = In, !.outgoing = Out, !.outputs = {}]
  BY DEF TxFromTransfers, ServerTx
<1> HIDE DEF In, Out
<1> QED BY <1>1, <1>3, <1>4, <1>5 DEF TxRecords, In, Out

LEMMA TxsFromTransfersMember ==
    /\ \A t : t \in DOMAIN TxsFromTransfers <=>
          /\ t \in Txs /\ Served(t)
          /\ TransfersOf(t, TxFromTransfers(t)) # {}
          /\ TxMeets(AuxQuery, t, TxFromTransfers(t))
    /\ \A t \in DOMAIN TxsFromTransfers : TxsFromTransfers[t] = TxFromTransfers(t)
<1> DEFINE built == [t \in {t \in Txs : Served(t)} |-> TxFromTransfers(t)]
           kept == {t \in DOMAIN built : /\ TransfersOf(t, built[t]) # {}
                                         /\ TxMeets(AuxQuery, t, built[t])}
<1>1. TxsFromTransfers = [t \in kept |-> built[t]]
  BY DEF TxsFromTransfers, Restrict
<1>2. \A t \in {t \in Txs : Served(t)} : built[t] = TxFromTransfers(t)
  OBVIOUS
<1>3. DOMAIN built = {t \in Txs : Served(t)}
  OBVIOUS
<1> HIDE DEF built
<1>4. \A t \in kept : built[t] = TxFromTransfers(t)
  BY <1>2, <1>3
<1>5. \A t : t \in kept <=> /\ t \in Txs /\ Served(t)
                            /\ TransfersOf(t, TxFromTransfers(t)) # {}
                            /\ TxMeets(AuxQuery, t, TxFromTransfers(t))
  BY <1>2, <1>3
<1> QED BY <1>1, <1>4, <1>5

LEMMA TxsFromTransfersType ==
    ASSUME LedgerTypeOK, LedgerInv
    PROVE  Records(TxsFromTransfers)
<1>1. TxsFromTransfers = [t \in DOMAIN TxsFromTransfers |-> TxsFromTransfers[t]]
  BY DEF TxsFromTransfers, Restrict
<1>2. \A t \in DOMAIN TxsFromTransfers : t \in Txs /\ TxsFromTransfers[t] \in TxRecords
  BY TxsFromTransfersMember, TxFromTransfersType
<1> HIDE DEF TxsFromTransfers
<1> QED BY <1>1, <1>2 DEF Records
-----------------------------------------------------------------------------
(***************************************************************************)
(* The transactions that are built from the outputs of an account.         *)
(***************************************************************************)

EntryOf(o) ==
    [tx |-> TxOf[o], built |-> TxFromOutputs(TxOf[o], {[output |-> o, isSpent |-> IsSpent(o)]})]

ServedOutputs(account) ==
    {o \in Outputs : AccountOf[o] = account /\ place[TxOf[o]] = "mined" /\ AsksFor(IsSpent(o))}

EntriesOfAccount(account) == {EntryOf(o) : o \in ServedOutputs(account)}

LEMMA TxsOfOutputsEntries ==
    ASSUME NEW account
    PROVE  TxsOfOutputs(account) = EntriesOfAccount(account)
BY DEF TxsOfOutputs, EntriesOfAccount, EntryOf, ServedOutputs

\* The responses that the server may give, by the order of their entries.
Responses(account) == SetToSeqs(EntriesOfAccount(account))

LEMMA EntryType ==
    ASSUME LedgerTypeOK, LedgerInv, NEW o \in Outputs, place[TxOf[o]] = "mined"
    PROVE  /\ IsEntry(EntryOf(o)) /\ IsOutputTx(EntryOf(o).built)
           /\ EntryOf(o).tx = TxOf[o]
           /\ mined[TxOf[o]] = EntryOf(o).built.height
           /\ EntryOf(o).built.isLocked = IsLocked(TxOf[o])
           /\ EntryOf(o).built.isFailed = FALSE
           /\ EntryOf(o).built.outputs = {[output |-> o, isSpent |-> IsSpent(o)]}
<1>1. TxOf[o] \in Txs
  BY LedgerAssumption
<1>2. mined[TxOf[o]] \in Heights
  BY <1>1, MinedInHeights
<1>3. IsLocked(TxOf[o]) \in BOOLEAN /\ IsSpent(o) \in BOOLEAN
  BY DEF IsLocked, IsSpent
<1>4. EntryOf(o).built \in TxRecords
  BY <1>2, <1>3 DEF EntryOf, TxFromOutputs, TxRecords, Criterion
<1> QED BY <1>1, <1>2, <1>4 DEF EntryOf, TxFromOutputs, IsEntry, IsOutputTx

LEMMA EntriesType ==
    ASSUME LedgerTypeOK, LedgerInv, NEW account
    PROVE  /\ IsFiniteSet(EntriesOfAccount(account))
           /\ OutputEntries(EntriesOfAccount(account))
           /\ \A e \in EntriesOfAccount(account) :
                 /\ IsEntry(e)
                 /\ place[e.tx] = "mined" /\ mined[e.tx] = e.built.height
                 /\ e.built.isLocked = IsLocked(e.tx) /\ e.built.isFailed = FALSE
<1>1. IsFiniteSet(ServedOutputs(account))
  BY LedgerAssumption, FS_Subset DEF ServedOutputs
<1>2. IsFiniteSet(EntriesOfAccount(account))
  <2> DEFINE f == [o \in ServedOutputs(account) |-> EntryOf(o)]
  <2>1. f \in Surjection(ServedOutputs(account), EntriesOfAccount(account))
    BY DEF Surjection, EntriesOfAccount
  <2> HIDE DEF f
  <2> QED BY <1>1, <2>1, FS_Surjection
<1>3. ASSUME NEW e \in EntriesOfAccount(account)
      PROVE  /\ IsEntry(e) /\ IsOutputTx(e.built)
             /\ place[e.tx] = "mined" /\ mined[e.tx] = e.built.height
             /\ e.built.isLocked = IsLocked(e.tx) /\ e.built.isFailed = FALSE
  <2>1. PICK o \in ServedOutputs(account) : e = EntryOf(o)
    BY DEF EntriesOfAccount
  <2>2. o \in Outputs /\ place[TxOf[o]] = "mined"
    BY DEF ServedOutputs
  <2> QED BY <2>1, <2>2, EntryType
<1> QED BY <1>2, <1>3 DEF OutputEntries

\* What the entries say of outputs is what the server says of them.
LEMMA EntriesOutputs ==
    ASSUME LedgerTypeOK, LedgerInv, NEW account, NEW t, NEW r
    PROVE  (\E e \in EntriesOfAccount(account) : e.tx = t /\ r \in e.built.outputs) <=>
              /\ place[t] = "mined" /\ r \in ServerOutputs(t)
              /\ AccountOf[r.output] = account /\ AsksFor(r.isSpent)
<1>1. ASSUME NEW e \in EntriesOfAccount(account), e.tx = t, r \in e.built.outputs
      PROVE  /\ place[t] = "mined" /\ r \in ServerOutputs(t)
             /\ AccountOf[r.output] = account /\ AsksFor(r.isSpent)
  <2>1. PICK o \in ServedOutputs(account) : e = EntryOf(o)
    BY DEF EntriesOfAccount
  <2>2. o \in Outputs /\ place[TxOf[o]] = "mined" /\ AccountOf[o] = account /\ AsksFor(IsSpent(o))
    BY DEF ServedOutputs
  <2>3. TxOf[o] = t /\ r = [output |-> o, isSpent |-> IsSpent(o)]
    BY <1>1, <2>1, <2>2, EntryType
  <2>4. r \in ServerOutputs(t)
    BY <2>2, <2>3 DEF ServerOutputs
  <2>5. r.output = o /\ r.isSpent = IsSpent(o)
    BY <2>3
  <2> QED BY <2>2, <2>3, <2>4, <2>5
<1>2. ASSUME place[t] = "mined", r \in ServerOutputs(t),
             AccountOf[r.output] = account, AsksFor(r.isSpent)
      PROVE  \E e \in EntriesOfAccount(account) : e.tx = t /\ r \in e.built.outputs
  <2>1. PICK o \in Outputs : TxOf[o] = t /\ r = [output |-> o, isSpent |-> IsSpent(o)]
    BY <1>2 DEF ServerOutputs
  <2>2. r.output = o /\ r.isSpent = IsSpent(o)
    BY <2>1
  <2>3. o \in ServedOutputs(account)
    BY <1>2, <2>1, <2>2 DEF ServedOutputs
  <2>4. EntryOf(o) \in EntriesOfAccount(account)
    BY <2>3 DEF EntriesOfAccount
  <2>5. EntryOf(o).tx = t /\ r \in EntryOf(o).built.outputs
    BY <1>2, <2>1, EntryType
  <2> QED BY <2>4, <2>5
<1> QED BY <1>1, <1>2

\* The transactions built from outputs, with those of another account.
Merged(seq) == MergeAll(FALSE, outputTxs, blocks, seq)

HaveBlocks(built, all) == \A t \in DOMAIN built : HasBlock(t, all)

LEMMA MergedAccount ==
    ASSUME LedgerTypeOK, LedgerInv, OutputTxs(outputTxs), blocks \in SUBSET Blocks,
           HaveBlocks(outputTxs, blocks), NEW account, NEW seq \in Responses(account)
    PROVE  /\ IsAcc(Merged(seq))
           /\ AreMerged(outputTxs, EntriesOfAccount(account), Merged(seq).txs)
           /\ HaveBlocks(Merged(seq).txs, Merged(seq).blocks)
           /\ BlocksAreTrue(blocks) => BlocksAreTrue(Merged(seq).blocks)
           /\ OfTransfersOnly(blocks) => OfTransfersOnly(Merged(seq).blocks)
<1> DEFINE set == EntriesOfAccount(account)
<1>1. /\ IsFiniteSet(set) /\ OutputEntries(set)
      /\ \A e \in set : IsEntry(e) /\ place[e.tx] = "mined" /\ mined[e.tx] = e.built.height
  BY EntriesType
<1>2. Merged(seq) = MergeAll(FALSE, outputTxs, blocks, seq) /\ seq \in SetToSeqs(set)
  BY DEF Merged, Responses
<1>3. Records(outputTxs)
  BY DEF OutputTxs
<1> HIDE DEF set
<1>4. IsAcc(Merged(seq))
  BY <1>1, <1>2, <1>3, MergeAllType
<1>5. AreMerged(outputTxs, set, Merged(seq).txs)
  BY <1>1, <1>2, MergedOutputs
<1>6. BlocksAreTrue(blocks) => BlocksAreTrue(Merged(seq).blocks)
  BY <1>1, <1>2, <1>3, MergeAllTrue
<1>7. PICK skip \in BOOLEAN : skip = FALSE
  OBVIOUS
<1>8. /\ \A u : HasBlock(u, blocks) => HasBlock(u, Merged(seq).blocks)
      /\ \A e \in set : HasBlock(e.tx, Merged(seq).blocks)
  BY <1>1, <1>2, <1>7, MergeAllCovers
<1>9. ASSUME NEW t \in DOMAIN Merged(seq).txs
      PROVE  HasBlock(t, Merged(seq).blocks)
  <2>1. t \in DOMAIN outputTxs \/ \E e \in set : e.tx = t
    BY <1>5 DEF AreMerged
  <2> QED BY <2>1, <1>8 DEF HaveBlocks
<1>10. HaveBlocks(Merged(seq).txs, Merged(seq).blocks)
  BY <1>9 DEF HaveBlocks
<1>11. OfTransfersOnly(blocks) => OfTransfersOnly(Merged(seq).blocks)
  BY <1>1, <1>2, MergeAllOfTransfersOnly
<1> QED BY <1>4, <1>5, <1>6, <1>10, <1>11 DEF set
-----------------------------------------------------------------------------
(***************************************************************************)
(* The end of a call: all outputs are read, and those transactions that    *)
(* meet the query are merged into the transactions built from transfers.   *)
(***************************************************************************)

Final(seq) == WithHeights(Merged(seq).txs, Merged(seq).blocks)
With(seq) == Included(Final(seq))

LEMMA WithHeightsFields ==
    ASSUME NEW built, Records(built), NEW all \in SUBSET Blocks
    PROVE  /\ Records(WithHeights(built, all))
           /\ DOMAIN WithHeights(built, all) = DOMAIN built
           /\ \A t \in DOMAIN built :
                 WithHeights(built, all)[t] = [built[t] EXCEPT !.height = HeightIn(all, t)]
<1>1. ASSUME NEW t \in DOMAIN built
      PROVE  [built[t] EXCEPT !.height = HeightIn(all, t)] \in TxRecords
  <2>1. HeightIn(all, t) \in Heights \cup {Null}
    BY HeightInType
  <2>2. built[t] \in TxRecords
    BY DEF Records
  <2> QED BY <2>1, <2>2 DEF TxRecords
<1> QED BY <1>1 DEF WithHeights, Records

LEMMA FinalType ==
    ASSUME LedgerTypeOK, LedgerInv, OutputTxs(outputTxs), blocks \in SUBSET Blocks,
           HaveBlocks(outputTxs, blocks), NEW account, NEW seq \in Responses(account)
    PROVE  /\ Records(Final(seq)) /\ DOMAIN Final(seq) = DOMAIN Merged(seq).txs
           /\ \A t \in DOMAIN Final(seq) :
                 /\ Final(seq)[t].height \in Heights
                 /\ IsOutputTx(Final(seq)[t])
                 /\ Final(seq)[t].outputs = Merged(seq).txs[t].outputs
                 /\ Final(seq)[t].isLocked = Merged(seq).txs[t].isLocked
                 /\ BlocksAreTrue(blocks) =>
                       place[t] = "mined" /\ Final(seq)[t].height = mined[t]
<1>1. /\ Records(Merged(seq).txs) /\ Merged(seq).blocks \in SUBSET Blocks
      /\ AreMerged(outputTxs, EntriesOfAccount(account), Merged(seq).txs)
      /\ HaveBlocks(Merged(seq).txs, Merged(seq).blocks)
      /\ BlocksAreTrue(blocks) => BlocksAreTrue(Merged(seq).blocks)
  BY MergedAccount DEF IsAcc
<1>2. /\ Records(Final(seq)) /\ DOMAIN Final(seq) = DOMAIN Merged(seq).txs
      /\ \A t \in DOMAIN Merged(seq).txs :
            Final(seq)[t] =
               [Merged(seq).txs[t] EXCEPT !.height = HeightIn(Merged(seq).blocks, t)]
  BY <1>1, WithHeightsFields DEF Final
<1>3. ASSUME NEW t \in DOMAIN Final(seq)
      PROVE  /\ Final(seq)[t].height \in Heights
             /\ IsOutputTx(Final(seq)[t])
             /\ Final(seq)[t].outputs = Merged(seq).txs[t].outputs
             /\ Final(seq)[t].isLocked = Merged(seq).txs[t].isLocked
             /\ BlocksAreTrue(blocks) =>
                   place[t] = "mined" /\ Final(seq)[t].height = mined[t]
  <2>1. HasBlock(t, Merged(seq).blocks)
    BY <1>1, <1>2 DEF HaveBlocks
  <2>2. HeightIn(Merged(seq).blocks, t) \in Heights
    BY <1>1, <2>1, HeightInType
  <2>3. BlocksAreTrue(blocks) =>
           place[t] = "mined" /\ HeightIn(Merged(seq).blocks, t) = mined[t]
    BY <1>1, <2>1, HeightIsTrue
  <2>4. IsOutputTx(Merged(seq).txs[t]) /\ Merged(seq).txs[t] \in TxRecords
    BY <1>1, <1>2 DEF AreMerged, Records
  <2> DEFINE h == HeightIn(Merged(seq).blocks, t)
             tx == Merged(seq).txs[t]
  <2>5. Final(seq)[t] = [tx EXCEPT !.height = h]
    BY <1>2
  <2>6. h \in Heights /\ (BlocksAreTrue(blocks) => place[t] = "mined" /\ h = mined[t])
    BY <2>2, <2>3
  <2>7. IsOutputTx(tx) /\ tx \in TxRecords
    BY <2>4
  <2> HIDE DEF h, tx
  <2>8. /\ Final(seq)[t].height = h
        /\ IsOutputTx(Final(seq)[t])
        /\ Final(seq)[t].outputs = tx.outputs
        /\ Final(seq)[t].isLocked = tx.isLocked
    BY <2>5, <2>7 DEF IsOutputTx, TxRecords
  <2> QED BY <2>6, <2>8 DEF tx
<1> QED BY <1>2, <1>3

LEMMA WithMember ==
    ASSUME NEW seq
    PROVE  /\ \A t : t \in DOMAIN With(seq) <=>
                        /\ t \in DOMAIN Final(seq)
                        /\ TxMeets(AuxQuery, t, Final(seq)[t])
           /\ \A t \in DOMAIN With(seq) : With(seq)[t] = Final(seq)[t]
           /\ Records(Final(seq)) => Records(With(seq))
BY DEF With, Included, Restrict, Records

-----------------------------------------------------------------------------
(* Merging the transactions of two sources.                                *)

\* What a transaction has before outputs are merged into it.
HasTransfersOnly(tx) ==
    /\ tx.isConfirmed <=> tx.height # Null
    /\ tx.isFailed => ~tx.isConfirmed
    /\ tx.outputs = {}

\* A transaction with its transfers and one with its outputs, as one.
Combined(a, b, h) ==
    [a EXCEPT !.isConfirmed = TRUE, !.inTxPool = FALSE, !.height = h, !.outputs = b.outputs]

LEMMA TxEquality ==
    ASSUME NEW a \in TxRecords, NEW b \in TxRecords,
           a.isConfirmed = b.isConfirmed, a.inTxPool = b.inTxPool, a.isFailed = b.isFailed,
           a.isLocked = b.isLocked, a.confirmations = b.confirmations, a.height = b.height,
           a.incoming = b.incoming, a.outgoing = b.outgoing, a.outputs = b.outputs
    PROVE  a = b
BY DEF TxRecords

LEMMA WithHeightFields ==
    ASSUME NEW a \in TxRecords, NEW h \in Heights \cup {Null},
           NEW b, b = [a EXCEPT !.height = h]
    PROVE  /\ b \in TxRecords
           /\ b.isConfirmed = a.isConfirmed /\ b.inTxPool = a.inTxPool
           /\ b.isFailed = a.isFailed /\ b.isLocked = a.isLocked
           /\ b.confirmations = a.confirmations /\ b.height = h
           /\ b.incoming = a.incoming /\ b.outgoing = a.outgoing /\ b.outputs = a.outputs
BY DEF TxRecords

LEMMA WithoutOutputsFields ==
    ASSUME NEW a \in TxRecords, NEW b, b = [a EXCEPT !.outputs = {}]
    PROVE  /\ b \in TxRecords
           /\ b.isConfirmed = a.isConfirmed /\ b.inTxPool = a.inTxPool
           /\ b.isFailed = a.isFailed /\ b.isLocked = a.isLocked
           /\ b.confirmations = a.confirmations /\ b.height = a.height
           /\ b.incoming = a.incoming /\ b.outgoing = a.outgoing /\ b.outputs = {}
BY DEF TxRecords

LEMMA CombinedFields ==
    ASSUME NEW a \in TxRecords, NEW b \in TxRecords, NEW h \in Heights \cup {Null},
           NEW c, c = Combined(a, b, h)
    PROVE  /\ c \in TxRecords
           /\ c.isConfirmed = TRUE /\ c.inTxPool = FALSE
           /\ c.isFailed = a.isFailed /\ c.isLocked = a.isLocked
           /\ c.confirmations = a.confirmations /\ c.height = h
           /\ c.incoming = a.incoming /\ c.outgoing = a.outgoing /\ c.outputs = b.outputs
BY DEF TxRecords, Combined, Criterion

LEMMA MergedTxCombined ==
    ASSUME NEW a \in TxRecords, HasTransfersOnly(a), NEW b \in TxRecords, IsOutputTx(b),
           NEW h \in Heights \cup {Null}
    PROVE  [MergedTx(a, b) EXCEPT !.height = h] = Combined(a, b, h)
<1> DEFINE m == MergedTx(a, b)
           n == [m EXCEPT !.height = h]
<1>1. m \in TxRecords
  BY MergedTxType
<1>2. /\ m.isConfirmed = TRUE /\ m.inTxPool = FALSE
      /\ m.isFailed = a.isFailed /\ m.isLocked = a.isLocked
      /\ m.confirmations = a.confirmations
      /\ m.incoming = a.incoming /\ m.outgoing = a.outgoing /\ m.outputs = b.outputs
  BY DEF MergedTx, Latest, IsOutputTx, HasTransfersOnly, TxRecords
<1> HIDE DEF m
<1>3. /\ n \in TxRecords
      /\ n.isConfirmed = m.isConfirmed /\ n.inTxPool = m.inTxPool
      /\ n.isFailed = m.isFailed /\ n.isLocked = m.isLocked
      /\ n.confirmations = m.confirmations /\ n.height = h
      /\ n.incoming = m.incoming /\ n.outgoing = m.outgoing /\ n.outputs = m.outputs
  BY <1>1, WithHeightFields
<1> HIDE DEF n
<1> SUFFICES ASSUME NEW c, c = Combined(a, b, h)
             PROVE  n = c
  BY DEF n, m
<1>4. /\ c \in TxRecords
      /\ c.isConfirmed = TRUE /\ c.inTxPool = FALSE
      /\ c.isFailed = a.isFailed /\ c.isLocked = a.isLocked
      /\ c.confirmations = a.confirmations /\ c.height = h
      /\ c.incoming = a.incoming /\ c.outgoing = a.outgoing /\ c.outputs = b.outputs
  BY DEF TxRecords, Combined, Criterion
<1>5. n.isConfirmed = c.isConfirmed /\ n.inTxPool = c.inTxPool
  BY <1>2, <1>3, <1>4 DEF TxRecords, Criterion
<1> QED BY <1>2, <1>3, <1>4, <1>5, TxEquality

LEMMA BlocksOfType ==
    ASSUME NEW built, Records(built)
    PROVE  /\ BlocksOf(built) \in SUBSET Blocks
           /\ \A t \in DOMAIN built : built[t].height # Null => HasBlock(t, BlocksOf(built))
           /\ \A t : HasBlock(t, BlocksOf(built)) =>
                        t \in DOMAIN built /\ built[t].height # Null
<1> DEFINE B(h) == [height |-> h, txs |-> {t \in DOMAIN built : built[t].height = h},
                    outputTxs |-> {}, keys |-> {h}]
           Hs == {built[t].height : t \in DOMAIN built} \ {Null}
<1>1. BlocksOf(built) = {B(h) : h \in Hs}
  BY DEF BlocksOf
<1>2. Hs \subseteq Heights
  BY DEF Records, TxRecords
<1>3. \A h \in Hs : B(h) \in Blocks
  BY <1>2 DEF Blocks, Records
<1>4. ASSUME NEW t \in DOMAIN built, built[t].height # Null
      PROVE  HasBlock(t, BlocksOf(built))
  <2>1. built[t].height \in Hs /\ t \in B(built[t].height).txs
    BY <1>4
  <2> QED BY <1>1, <2>1 DEF HasBlock
<1>5. ASSUME NEW t, HasBlock(t, BlocksOf(built))
      PROVE  t \in DOMAIN built /\ built[t].height # Null
  BY <1>1, <1>5 DEF HasBlock
<1> QED BY <1>1, <1>3, <1>4, <1>5

LEMMA BlocksOfTrue ==
    ASSUME NEW built, Records(built),
           \A t \in DOMAIN built :
              built[t].height # Null => place[t] = "mined" /\ built[t].height = mined[t]
    PROVE  BlocksAreTrue(BlocksOf(built))
BY DEF BlocksOf, BlocksAreTrue

\* The blocks of the transactions with outputs, as MergeOutputTxs takes them.
TheirBlocks(with, withBlocks) ==
    {[b EXCEPT !.txs = {}, !.outputTxs = b.txs \cap DOMAIN with, !.keys = {}] :
       b \in {b \in withBlocks : b.txs \cap DOMAIN with # {}}}

LEMMA TheirBlocksType ==
    ASSUME NEW with, NEW withBlocks \in SUBSET Blocks
    PROVE  /\ TheirBlocks(with, withBlocks) \in SUBSET Blocks
           /\ \A t : ~HasBlock(t, TheirBlocks(with, withBlocks))
           /\ BlocksAreTrue(withBlocks) => BlocksAreTrue(TheirBlocks(with, withBlocks))
<1>1. ASSUME NEW c \in TheirBlocks(with, withBlocks)
      PROVE  /\ c \in Blocks /\ c.txs = {} /\ c.keys = {}
             /\ \E b \in withBlocks : c.height = b.height /\ c.outputTxs \subseteq b.txs
  <2>1. PICK b \in withBlocks :
           c = [b EXCEPT !.txs = {}, !.outputTxs = b.txs \cap DOMAIN with, !.keys = {}]
    BY DEF TheirBlocks
  <2>2. b \in Blocks
    OBVIOUS
  <2> QED BY <2>1, <2>2 DEF Blocks
<1>2. BlocksAreTrue(withBlocks) => BlocksAreTrue(TheirBlocks(with, withBlocks))
  BY <1>1 DEF BlocksAreTrue
<1>3. \A t : ~HasBlock(t, TheirBlocks(with, withBlocks))
  BY <1>1 DEF HasBlock
<1> QED BY <1>1, <1>2, <1>3

(* The transactions of getTxs: those with transfers, each once, together   *)
(* with its outputs.                                                       *)
LEMMA MergeOutputTxsSteps ==
    ASSUME NEW built, NEW with, NEW withBlocks, NEW order
    PROVE  MergeOutputTxs(built, with, withBlocks, order).txs =
              LET m == MergeAll(TRUE, built, BlocksOf(built) \cup TheirBlocks(with, withBlocks),
                                order)
              IN  WithHeights(m.txs, m.blocks)
BY DEF MergeOutputTxs, TheirBlocks

LEMMA MergeOutputTxsError ==
    ASSUME NEW built, NEW with, NEW withBlocks, NEW order
    PROVE  MergeOutputTxs(built, with, withBlocks, order).error =
              MergeAll(TRUE, built, BlocksOf(built) \cup TheirBlocks(with, withBlocks),
                       order).error
BY DEF MergeOutputTxs, TheirBlocks

\* Merging that ends well has found the two to agree.
LEMMA MergedWithAgrees ==
    ASSUME NEW built, NEW with, Records(with), \A t \in DOMAIN with : with[t].height \in Heights,
           NEW all, NEW order \in SetToSeqs(EntriesOf(with)),
           MergeAll(TRUE, built, all, order).error = "none"
    PROVE  \A t \in DOMAIN built \cap DOMAIN with : Reconcilable(built[t], with[t])
<1>1. IsFiniteSet(EntriesOf(with))
  BY EntriesOfType
<1>2. \A e \in EntriesOf(with) : e.tx \in DOMAIN built => Reconcilable(built[e.tx], e.built)
  BY <1>1, MergeAllAgrees
<1>3. /\ \A e \in EntriesOf(with) : e.tx \in DOMAIN with /\ e.built = with[e.tx]
      /\ \A t \in DOMAIN with : \E e \in EntriesOf(with) : e.tx = t
  BY EntriesOfType
<1> QED BY <1>2, <1>3

\* The transactions of MergeOutputTxs.
AreCombined(built, with, new) ==
    /\ Records(new) /\ DOMAIN new = DOMAIN built
    /\ \A u \in DOMAIN built : \E h \in Heights \cup {Null} :
          /\ u \in DOMAIN with => new[u] = Combined(built[u], with[u], h)
          /\ u \notin DOMAIN with => new[u] = [built[u] EXCEPT !.height = h]

\* In blocks that are true each is in its own.
AreCombinedInPlace(built, with, new) ==
    \A u \in DOMAIN built :
       /\ u \in DOMAIN with => new[u] = Combined(built[u], with[u], mined[u])
       /\ u \notin DOMAIN with => new[u] = built[u]

\* No block of a confirmed transaction is unknown.
ConfirmedHaveHeights(built) ==
    \A t \in DOMAIN built : built[t].isConfirmed => built[t].height # Null

LEMMA MergeOutputTxsResult ==
    ASSUME NEW built, Records(built), \A t \in DOMAIN built : HasTransfersOnly(built[t]),
           NEW with, Records(with),
           \A t \in DOMAIN with : IsOutputTx(with[t]) /\ with[t].height \in Heights,
           NEW withBlocks \in SUBSET Blocks, NEW order \in SetToSeqs(EntriesOf(with))
    PROVE  /\ AreCombined(built, with, MergeOutputTxs(built, with, withBlocks, order).txs)
           /\ /\ BlocksAreTrue(withBlocks)
              /\ \A t \in DOMAIN built :
                    built[t].isConfirmed => place[t] = "mined" /\ built[t].height = mined[t]
              /\ \A t \in DOMAIN with : place[t] = "mined" /\ with[t].height = mined[t]
              => AreCombinedInPlace(built, with,
                                    MergeOutputTxs(built, with, withBlocks, order).txs)
           /\ ConfirmedHaveHeights(MergeOutputTxs(built, with, withBlocks, order).txs)
           /\ MergeOutputTxs(built, with, withBlocks, order).error \in {"none"} \cup Errors
           /\ MergeOutputTxs(built, with, withBlocks, order).error = "none" =>
                 \A t \in DOMAIN built \cap DOMAIN with : Reconcilable(built[t], with[t])
<1> DEFINE all == BlocksOf(built) \cup TheirBlocks(with, withBlocks)
           set == EntriesOf(with)
           m == MergeAll(TRUE, built, all, order)
           new == MergeOutputTxs(built, with, withBlocks, order).txs
           H(u) == HeightIn(m.blocks, u)
<1>1. new = WithHeights(m.txs, m.blocks)
  BY MergeOutputTxsSteps
<1>2. MergeOutputTxs(built, with, withBlocks, order).error = m.error
  BY MergeOutputTxsError
<1>3. /\ IsFiniteSet(set) /\ order \in SetToSeqs(set)
      /\ \A e \in set : IsEntry(e) /\ e.tx \in DOMAIN with /\ e.built = with[e.tx]
      /\ \A t \in DOMAIN with : \E e \in set : e.tx = t
  BY EntriesOfType
<1>4. all \in SUBSET Blocks
  BY BlocksOfType, TheirBlocksType
<1>5. /\ \A u : u \in DOMAIN m.txs <=> u \in DOMAIN built
      /\ \A u \in DOMAIN built :
            /\ u \in DOMAIN with => m.txs[u] = MergedTx(built[u], with[u])
            /\ u \notin DOMAIN with => m.txs[u] = built[u]
  <2> HIDE DEF all
  <2>1. \A t \in DOMAIN with : with[t].height \in Heights
    OBVIOUS
  <2>2. IsMergedWith(built, with, m.txs)
    BY <2>1, MergedWith
  <2> QED BY <2>2 DEF IsMergedWith
<1> HIDE DEF all, set
<1>6. IsAcc(m)
  BY <1>3, <1>4, MergeAllType
<1>7. Records(m.txs) /\ m.blocks \in SUBSET Blocks /\ m.error \in {"none"} \cup Errors
  BY <1>6 DEF IsAcc
<1>8. PICK skip \in BOOLEAN : skip = TRUE
  OBVIOUS
<1>9. /\ \A u : HasBlock(u, all) => HasBlock(u, m.blocks)
      /\ \A e \in set : e.tx \in DOMAIN built => HasBlock(e.tx, m.blocks)
  BY <1>3, <1>8, MergeAllCovers
<1>10. \A u : u \notin DOMAIN with /\ ~HasBlock(u, all) => ~HasBlock(u, m.blocks)
  BY <1>3, MergeAllOnly
<1>11. BlocksAreTrue(all) /\ (\A e \in set : place[e.tx] = "mined" /\ mined[e.tx] = e.built.height)
          => BlocksAreTrue(m.blocks)
  BY <1>3, <1>4, MergeAllTrue
<1>12. m.error = "none" => \A t \in DOMAIN built \cap DOMAIN with : Reconcilable(built[t], with[t])
  <2>1. \A t \in DOMAIN with : with[t].height \in Heights
    OBVIOUS
  <2> QED BY <2>1, MergedWithAgrees
<1> HIDE DEF m
<1>13. DOMAIN m.txs = DOMAIN built
  BY <1>5
<1>14. /\ Records(new) /\ DOMAIN new = DOMAIN built
       /\ \A u \in DOMAIN built : new[u] = [m.txs[u] EXCEPT !.height = H(u)]
  BY <1>1, <1>7, <1>13, WithHeightsFields
<1>15. \A u : H(u) \in Heights \cup {Null}
  BY <1>7, HeightInType
<1> HIDE DEF new
<1>16. ASSUME NEW u \in DOMAIN built
       PROVE  /\ u \in DOMAIN with => new[u] = Combined(built[u], with[u], H(u))
              /\ u \notin DOMAIN with => new[u] = [built[u] EXCEPT !.height = H(u)]
  <2>1. CASE u \in DOMAIN with
    <3>1. m.txs[u] = MergedTx(built[u], with[u])
      BY <2>1, <1>5
    <3>2. new[u] = [MergedTx(built[u], with[u]) EXCEPT !.height = H(u)]
      BY <3>1, <1>14
    <3>3. /\ built[u] \in TxRecords /\ with[u] \in TxRecords
          /\ HasTransfersOnly(built[u]) /\ IsOutputTx(with[u])
      BY <2>1 DEF Records
    <3> HIDE DEF H
    <3>4. H(u) \in Heights \cup {Null}
      BY <1>15
    <3>5. [MergedTx(built[u], with[u]) EXCEPT !.height = H(u)] = Combined(built[u], with[u], H(u))
      BY <3>3, <3>4, MergedTxCombined
    <3> QED BY <2>1, <3>2, <3>5
  <2>2. CASE u \notin DOMAIN with
    <3>1. m.txs[u] = built[u]
      BY <2>2, <1>5
    <3> QED BY <2>2, <3>1, <1>14
  <2> QED BY <2>1, <2>2
<1>17. AreCombined(built, with, new)
  BY <1>14, <1>15, <1>16 DEF AreCombined
<1>18. ASSUME BlocksAreTrue(withBlocks),
              \A t \in DOMAIN built :
                 built[t].isConfirmed => place[t] = "mined" /\ built[t].height = mined[t],
              \A t \in DOMAIN with : place[t] = "mined" /\ with[t].height = mined[t],
              NEW u \in DOMAIN built
       PROVE  /\ u \in DOMAIN with => new[u] = Combined(built[u], with[u], mined[u])
              /\ u \notin DOMAIN with => new[u] = built[u]
  <2>1. \A t \in DOMAIN built : HasTransfersOnly(built[t])
    OBVIOUS
  <2>2. \A t \in DOMAIN built :
           built[t].height # Null => place[t] = "mined" /\ built[t].height = mined[t]
    BY <1>18, <2>1 DEF HasTransfersOnly
  <2>3. BlocksAreTrue(BlocksOf(built)) /\ BlocksAreTrue(TheirBlocks(with, withBlocks))
    BY <1>18, <2>2, BlocksOfTrue, TheirBlocksType
  <2>4. BlocksAreTrue(all)
    BY <2>3 DEF BlocksAreTrue, all
  <2>5. BlocksAreTrue(m.blocks)
    BY <1>3, <1>11, <1>18, <2>4
  <2>6. CASE u \in DOMAIN with
    <3>1. HasBlock(u, m.blocks)
      BY <2>6, <1>3, <1>9
    <3>2. H(u) = mined[u]
      BY <2>5, <3>1, HeightIsTrue
    <3> QED BY <2>6, <3>2, <1>16
  <2>7. CASE u \notin DOMAIN with
    <3>1. built[u].height # Null => HasBlock(u, m.blocks)
      BY <1>9, BlocksOfType DEF all, HasBlock
    <3>2. built[u].height = Null => ~HasBlock(u, m.blocks)
      <4>1. ~HasBlock(u, TheirBlocks(with, withBlocks))
        BY TheirBlocksType
      <4>2. built[u].height = Null => ~HasBlock(u, all)
        BY <4>1, BlocksOfType DEF all, HasBlock
      <4> QED BY <2>7, <4>2, <1>10
    <3>3. H(u) = built[u].height
      <4>1. CASE built[u].height # Null
        BY <3>1, <4>1, <2>2, <2>5, HeightIsTrue
      <4>2. CASE built[u].height = Null
        BY <3>2, <4>2, <1>7, HeightInType
      <4> QED BY <4>1, <4>2
    <3>4. built[u] \in TxRecords
      BY DEF Records
    <3>5. [built[u] EXCEPT !.height = H(u)] = built[u]
      <4> HIDE DEF H
      <4> QED BY <3>3, <3>4 DEF TxRecords
    <3> QED BY <2>7, <3>5, <1>16
  <2> QED BY <2>6, <2>7
<1>19. /\ BlocksAreTrue(withBlocks)
       /\ \A t \in DOMAIN built :
             built[t].isConfirmed => place[t] = "mined" /\ built[t].height = mined[t]
       /\ \A t \in DOMAIN with : place[t] = "mined" /\ with[t].height = mined[t]
       => AreCombinedInPlace(built, with, new)
  BY <1>18 DEF AreCombinedInPlace
<1>20. ASSUME NEW u \in DOMAIN built, new[u].isConfirmed
       PROVE  new[u].height # Null
  <2>1. m.txs[u] \in TxRecords /\ built[u] \in TxRecords
    BY <1>7, <1>13 DEF Records
  <2> HIDE DEF H
  <2>2. new[u].isConfirmed = m.txs[u].isConfirmed /\ new[u].height = H(u)
    <3>1. new[u] = [m.txs[u] EXCEPT !.height = H(u)] /\ H(u) \in Heights \cup {Null}
      BY <1>14, <1>15
    <3> QED BY <2>1, <3>1, WithHeightFields
  <2>3. HasBlock(u, m.blocks)
    <3>1. CASE u \in DOMAIN with
      BY <3>1, <1>3, <1>9
    <3>2. CASE u \notin DOMAIN with
      <4>1. built[u].isConfirmed
        BY <3>2, <2>2, <1>5, <1>20
      <4>2. built[u].height # Null
        BY <4>1 DEF HasTransfersOnly
      <4> QED BY <4>2, <1>9, BlocksOfType DEF all, HasBlock
    <3> QED BY <3>1, <3>2
  <2>4. H(u) \in Heights
    BY <2>3, <1>7, HeightInType DEF H
  <2> QED BY <2>2, <2>4, LedgerAssumption DEF Heights
<1>21. ConfirmedHaveHeights(new)
  BY <1>14, <1>20 DEF ConfirmedHaveHeights
<1> QED BY <1>7, <1>17, <1>19, <1>21, <1>12, <1>2 DEF new
-----------------------------------------------------------------------------
(***************************************************************************)
(* The types, by an invariant of what a call has at each of its stages.    *)
(***************************************************************************)

StageInv ==
    /\ outcome # "none" => stage = "idle"
    /\ stage # "idle" \/ outcome # "none" => query \in QueriesOf(method)
    /\ stage = "outputs" => pending # {}
    /\ stage # "outputs" => outputTxs = <<>> /\ blocks = {}
    /\ stage \in {"inPool", "connect", "transfers"} => UsesTransfers /\ txs = <<>>
    /\ stage \in {"accounts", "outputs"} =>
          IF BuildsTxs THEN NeedsOutputs ELSE method = "getOutputs" /\ txs = <<>>
    /\ stage = "idle" /\ outcome # "returned" => txs = <<>>

ShapeInv ==
    /\ stage \in {"accounts", "outputs"} =>
          \A t \in DOMAIN txs : HasTransfersOnly(txs[t]) /\ TxMeets(AuxQuery, t, txs[t])
    /\ \A t \in DOMAIN outputTxs : IsOutputTx(outputTxs[t])
    /\ HaveBlocks(outputTxs, blocks)
    /\ OfTransfersOnly(blocks)

DuringInv == during \in Seq({"change", "reorg"})

TypeInv == TypeOK /\ LedgerInv /\ StageInv /\ ShapeInv /\ DuringInv

(* The ledger.                                                             *)
LEMMA LedgerKeeps ==
    ASSUME LedgerTypeOK, LedgerInv,
           Mine \/ (\E t \in Txs : Arrive(t) \/ Drop(t)) \/ Reorganize
    PROVE  LedgerTypeOK' /\ LedgerInv'
<1>1. MaxTop \in Nat /\ top \in Nat /\ top \in 1..MaxTop
  BY LedgerAssumption DEF LedgerTypeOK
<1>2. CASE Mine
  <2>1. PICK block \in SUBSET {t \in Txs : place[t] = "pool"} :
           /\ place' = [t \in Txs |-> IF t \in block THEN "mined" ELSE place[t]]
           /\ mined' = [t \in Txs |-> IF t \in block THEN top ELSE mined[t]]
    BY <1>2 DEF Mine
  <2>2. top < MaxTop /\ top' = top + 1
    BY <1>2 DEF Mine
  <2> QED BY <1>1, <2>1, <2>2 DEF LedgerTypeOK, LedgerInv
<1>3. CASE \E t \in Txs : Arrive(t) \/ Drop(t)
  BY <1>1, <1>3 DEF LedgerTypeOK, LedgerInv, Arrive, Drop
<1>4. CASE Reorganize
  <2>1. PICK kept \in 1..(top - 1) :
           LET moved == {t \in Txs : mined[t] >= kept}
           IN  \E height \in [moved -> {0} \cup kept..(top - 1)] :
                 /\ mined' = [t \in Txs |-> IF t \in moved THEN height[t] ELSE mined[t]]
                 /\ place' = [t \in Txs |->
                                IF t \in moved /\ height[t] = 0 THEN "pool" ELSE place[t]]
    BY <1>4 DEF Reorganize
  <2> DEFINE moved == {t \in Txs : mined[t] >= kept}
  <2>2. PICK height \in [moved -> {0} \cup kept..(top - 1)] :
           /\ mined' = [t \in Txs |-> IF t \in moved THEN height[t] ELSE mined[t]]
           /\ place' = [t \in Txs |-> IF t \in moved /\ height[t] = 0 THEN "pool" ELSE place[t]]
    BY <2>1
  <2>3. top' = top /\ Consistent'
    BY <1>4 DEF Reorganize
  <2>4. \A t \in Txs : /\ place'[t] \in {place[t], "pool"}
                      /\ place'[t] \in {"none", "pool", "failed", "mined"}
    BY <2>2 DEF LedgerTypeOK
  <2>5. \A t \in Txs : mined'[t] \in 0..(MaxTop - 1)
    <3> SUFFICES ASSUME NEW t \in Txs PROVE mined'[t] \in 0..(MaxTop - 1)
      OBVIOUS
    <3>1. CASE t \in moved
      <4>1. mined'[t] = height[t] /\ height[t] \in {0} \cup kept..(top - 1)
        BY <2>2, <3>1
      <4> QED BY <1>1, <4>1
    <3>2. CASE t \notin moved
      <4>1. mined'[t] = mined[t]
        BY <2>2, <3>2
      <4> QED BY <4>1 DEF LedgerTypeOK
    <3> QED BY <3>1, <3>2
  <2>6. LedgerTypeOK'
    BY <1>1, <2>2, <2>3, <2>4, <2>5 DEF LedgerTypeOK
  <2>7. LedgerInv'
    BY <2>3, <2>4 DEF LedgerInv, Consistent
  <2> QED BY <2>6, <2>7
<1> QED BY <1>2, <1>3, <1>4

LEMMA SameCall ==
    ASSUME UNCHANGED call
    PROVE  /\ method' = method /\ query' = query
           /\ BuildsTxs' <=> BuildsTxs
           /\ NeedsOutputs' <=> NeedsOutputs
           /\ UsesTransfers' <=> UsesTransfers
           /\ AuxQuery' = AuxQuery
BY DEF call, BuildsTxs, NeedsOutputs, UsesTransfers, AuxQuery

LEMMA SameLedger ==
    ASSUME UNCHANGED ledger
    PROVE  /\ top' = top /\ place' = place /\ mined' = mined
           /\ LedgerTypeOK => LedgerTypeOK'
           /\ LedgerInv => LedgerInv'
BY DEF ledger, LedgerTypeOK, LedgerInv

LEMMA SameHistory ==
    ASSUME UNCHANGED history
    PROVE  always' = always /\ ever' = ever /\ during' = during
BY DEF history

LEMMA Empty ==
    /\ Records(<<>>) /\ DOMAIN <<>> = {}
    /\ \A all : HaveBlocks(<<>>, all)
    /\ OfTransfersOnly({})
BY DEF Records, HaveBlocks, OfTransfersOnly

(* The call ends: with an error, or with a result.                         *)
LEMMA EndKeeps ==
    ASSUME TypeInv, stage # "idle", UNCHANGED <<ledger, call, connected, history>>,
           stage' = "idle", outcome' \in Outcomes, outcome' # "none",
           collects' \in BOOLEAN, missing' \in SUBSET Txs,
           Records(txs'), outcome' # "returned" => txs' = <<>>,
           outputTxs' = <<>>, blocks' = {}, pending' = {}
    PROVE  TypeInv'
<1>1. UNCHANGED ledger /\ UNCHANGED call /\ UNCHANGED history /\ connected' = connected
  OBVIOUS
<1>2. TypeOK'
  BY <1>1, SameLedger, SameCall, SameHistory, Empty DEF TypeInv, TypeOK, Stages, Records
<1>3. LedgerInv' /\ DuringInv'
  BY <1>1, SameLedger, SameHistory DEF TypeInv, DuringInv
<1>4. StageInv'
  BY <1>1, SameCall DEF TypeInv, StageInv, QueriesOf
<1>5. ShapeInv'
  BY Empty DEF ShapeInv, HaveBlocks
<1> QED BY <1>2, <1>3, <1>4, <1>5 DEF TypeInv

LEMMA ThrowKeeps ==
    ASSUME TypeInv, stage # "idle", UNCHANGED <<ledger, call, connected, history>>,
           NEW error \in Outcomes \ {"none", "returned"}, NEW notFound \in SUBSET Txs,
           Throw(error, notFound), collects' \in BOOLEAN
    PROVE  TypeInv'
BY EndKeeps, Empty DEF Throw

LEMMA ReturnKeeps ==
    ASSUME TypeInv, stage # "idle", UNCHANGED <<ledger, call, connected, history>>,
           NEW built, Records(built), NEW notFound \in SUBSET Txs,
           Return(built, notFound), collects' \in BOOLEAN
    PROVE  TypeInv'
BY EndKeeps DEF Return, Outcomes

LEMMA CallQuery ==
    ASSUME TypeInv, stage # "idle" \/ outcome # "none"
    PROVE  /\ method \in Methods /\ query \in QueriesOf(method) /\ query \in Queries
           /\ method = "getTransfers" => query.transfer # Null
           /\ method = "getOutputs" => query.output # Null
BY QueryType DEF TypeInv, StageInv, TypeOK

\* What Finish does: it throws, starts again, or returns what meets the query.
Found(built) == {t \in DOMAIN built : Meets(query, t, built[t])}
Lost(built) == IF query.hashes = Null THEN {} ELSE query.hashes \ Found(built)

LEMMA FinishCases ==
    ASSUME NEW built, Finish(built)
    PROVE  \/ Throw("missing", Lost(built)) /\ UNCHANGED collects
           \/ /\ stage' = TransfersStage(query) /\ collects' = FALSE
              /\ txs' = <<>> /\ outputTxs' = <<>> /\ blocks' = {} /\ missing' = Lost(built)
              /\ UNCHANGED <<pending, outcome>>
           \/ Return(Restrict(built, Found(built)), Lost(built)) /\ UNCHANGED collects
BY DEF Finish, Found, Lost

LEMMA LostType ==
    ASSUME query \in Queries, NEW built
    PROVE  Lost(built) \in SUBSET Txs
BY DEF Lost, Queries

LEMMA FoundType ==
    ASSUME NEW built, Records(built)
    PROVE  Records(Restrict(built, Found(built)))
BY DEF Found, Records, Restrict

LEMMA FinishKeeps ==
    ASSUME TypeInv, stage # "idle", UNCHANGED <<ledger, call, connected, history>>,
           BuildsTxs, NEW built, Records(built), Finish(built)
    PROVE  TypeInv'
<1>1. query \in Queries /\ collects \in BOOLEAN
  BY CallQuery DEF TypeInv, TypeOK
<1>2. Lost(built) \in SUBSET Txs
  BY <1>1, LostType
<1>3. CASE Throw("missing", Lost(built)) /\ UNCHANGED collects
  BY <1>1, <1>2, <1>3, ThrowKeeps DEF Outcomes
<1>4. CASE Return(Restrict(built, Found(built)), Lost(built)) /\ UNCHANGED collects
  <2>1. Records(Restrict(built, Found(built)))
    BY FoundType
  <2> QED BY <1>1, <1>2, <1>4, <2>1, ReturnKeeps
<1>5. CASE /\ stage' = TransfersStage(query) /\ collects' = FALSE
           /\ txs' = <<>> /\ outputTxs' = <<>> /\ blocks' = {} /\ missing' = Lost(built)
           /\ UNCHANGED <<pending, outcome>>
  <2>1. UNCHANGED ledger /\ UNCHANGED call /\ UNCHANGED history /\ connected' = connected
    OBVIOUS
  <2>2. stage' \in {"inPool", "connect"} /\ outcome = "none"
    BY <1>5 DEF TransfersStage, TypeInv, StageInv
  <2>3. TypeOK'
    BY <1>2, <1>5, <2>1, <2>2, SameLedger, SameCall, SameHistory, Empty
       DEF TypeInv, TypeOK, Stages, Records
  <2>4. LedgerInv' /\ DuringInv'
    BY <2>1, SameLedger, SameHistory DEF TypeInv, DuringInv
  <2>5. UsesTransfers'
    BY <2>1, SameCall DEF UsesTransfers
  <2>6. StageInv'
    BY <1>5, <2>1, <2>2, <2>5, SameCall DEF TypeInv, StageInv, QueriesOf
  <2>7. ShapeInv'
    BY <1>5, <2>2, Empty DEF ShapeInv, HaveBlocks
  <2> QED BY <2>3, <2>4, <2>6, <2>7 DEF TypeInv
<1> QED BY <1>3, <1>4, <1>5, FinishCases

(* A transaction built from transfers has its height if it is confirmed.   *)
LEMMA TransfersShape ==
    ASSUME LedgerTypeOK, LedgerInv, NEW t \in DOMAIN TxsFromTransfers
    PROVE  /\ t \in Txs
           /\ HasTransfersOnly(TxsFromTransfers[t]) /\ TxMeets(AuxQuery, t, TxsFromTransfers[t])
<1>1. /\ t \in Txs /\ TxsFromTransfers[t] = TxFromTransfers(t)
      /\ TxMeets(AuxQuery, t, TxFromTransfers(t))
  BY TxsFromTransfersMember
<1>2. place[t] = "mined" <=> ServerTx(t).height # Null
  BY <1>1, ServerTxFields, MinedInHeights
<1>3. HasTransfersOnly(TxFromTransfers(t))
  BY <1>2, TxFromTransfersFields, ServerTxFields DEF HasTransfersOnly
<1> QED BY <1>1, <1>3

(* The steps.                                                              *)
LEMMA InitTyped == ASSUME Init PROVE TypeInv
<1>1. TypeOK
  <2>1. LedgerTypeOK
    BY LedgerAssumption DEF Init, LedgerInit, LedgerTypeOK
  <2>2. ToSet(during) = {} /\ Len(during) = 0
    BY DEF Init, ToSet
  <2>3. ToSet(during) \subseteq {"change", "reorg"} /\ Len(during) <= MaxChanges
    BY <2>2, QueriesAssumption
  <2>4. Records(txs) /\ Records(outputTxs) /\ blocks \subseteq Blocks
    BY Empty DEF Init
  <2> QED BY <2>1, <2>3, <2>4 DEF Init, TypeOK, Stages, Methods, Outcomes
<1>2. LedgerInv
  BY DEF Init, LedgerInit, LedgerInv
<1>3. StageInv /\ ShapeInv /\ DuringInv
  BY Empty DEF Init, StageInv, ShapeInv, DuringInv
<1> QED BY <1>1, <1>2, <1>3 DEF TypeInv

LEMMA CallTyped == ASSUME TypeInv, Call PROVE TypeInv'
<1>1. PICK m \in Methods :
         \E q \in QueriesOf(m) :
             /\ method' = m /\ query' = q
             /\ collects' \in IF m = "getTxs" /\ q.hashes # Null THEN BOOLEAN ELSE {FALSE}
             /\ IF m = "getOutputs" /\ ~IsContextual(m, q)
                THEN IF q.output.account = Null
                     THEN stage' = "accounts" /\ UNCHANGED pending
                     ELSE stage' = "outputs" /\ pending' = {q.output.account}
                ELSE stage' = TransfersStage(q) /\ UNCHANGED pending
  BY DEF Call, QueriesOf
<1>2. PICK q \in QueriesOf(m) :
             /\ method' = m /\ query' = q
             /\ collects' \in IF m = "getTxs" /\ q.hashes # Null THEN BOOLEAN ELSE {FALSE}
             /\ IF m = "getOutputs" /\ ~IsContextual(m, q)
                THEN IF q.output.account = Null
                     THEN stage' = "accounts" /\ UNCHANGED pending
                     ELSE stage' = "outputs" /\ pending' = {q.output.account}
                ELSE stage' = TransfersStage(q) /\ UNCHANGED pending
  BY <1>1
<1>3. /\ stage = "idle" /\ outcome = "none"
      /\ UNCHANGED <<ledger, connected, txs, outputTxs, blocks, outcome, missing, during>>
  BY DEF Call
<1>4. UNCHANGED ledger
  BY <1>3
<1>5. txs = <<>> /\ outputTxs = <<>> /\ blocks = {}
  BY <1>3 DEF TypeInv, StageInv
<1>6. /\ q \in TxsQueries \cup TransfersQueries \cup OutputsQueries /\ q \in Queries
      /\ m = "getOutputs" => q.output # Null
  BY QueriesAssumption DEF QueriesOf, Methods
<1>7. stage' \in {"inPool", "connect", "accounts", "outputs"}
  BY <1>2 DEF TransfersStage
<1>8. stage' \in {"inPool", "connect"} <=> ~(m = "getOutputs" /\ ~IsContextual(m, q))
  BY <1>2 DEF TransfersStage
<1>9. pending' \in SUBSET Accounts /\ (stage' = "outputs" => pending' # {})
  <2>1. stage' = "outputs" =>
           pending' = {q.output.account} /\ q.output.account # Null /\ q.output # Null
    BY <1>2, <1>6, <1>8 DEF TransfersStage
  <2>2. stage' # "outputs" => pending' = pending
    BY <1>2
  <2>3. q.output # Null => q.output.account \in Accounts \cup {Null}
    BY <1>6 DEF Queries, OutputQueries
  <2>4. pending \in SUBSET Accounts
    BY DEF TypeInv, TypeOK
  <2> QED BY <2>1, <2>2, <2>3, <2>4
<1>10. collects' \in BOOLEAN
  BY <1>2
<1>11. TypeOK'
  BY <1>2, <1>3, <1>4, <1>6, <1>7, <1>9, <1>10, SameLedger DEF TypeInv, TypeOK, Stages, Records
<1>12. LedgerInv' /\ DuringInv'
  BY <1>3, <1>4, SameLedger DEF TypeInv, DuringInv
<1>13. UsesTransfers' <=> ~(m = "getOutputs" /\ ~IsContextual(m, q))
  BY <1>2 DEF UsesTransfers, BuildsTxs
<1>14. stage' \in {"accounts", "outputs"} => ~BuildsTxs' /\ method' = "getOutputs"
  BY <1>2, <1>7, <1>8 DEF BuildsTxs
<1>15. StageInv'
  <2>1. outcome' = "none" /\ stage' # "idle" /\ query' \in QueriesOf(method')
    BY <1>2, <1>3, <1>7
  <2>2. txs' = <<>> /\ outputTxs' = <<>> /\ blocks' = {}
    BY <1>3, <1>5
  <2>3. stage' \in {"inPool", "connect", "transfers"} => UsesTransfers'
    BY <1>7, <1>8, <1>13
  <2>4. (query \in QueriesOf(method))'
    BY <2>1 DEF QueriesOf
  <2> QED BY <1>9, <1>14, <2>1, <2>2, <2>3, <2>4 DEF StageInv
<1>16. ShapeInv'
  BY <1>3, <1>5, Empty DEF ShapeInv, HaveBlocks
<1> QED BY <1>11, <1>12, <1>15, <1>16 DEF TypeInv

LEMMA CheckPoolTyped == ASSUME TypeInv, CheckPool PROVE TypeInv'
<1>1. /\ stage = "inPool" /\ UNCHANGED collects
      /\ UNCHANGED ledger /\ UNCHANGED call /\ UNCHANGED history /\ connected' = connected
  BY DEF CheckPool
<1>2. CASE stage' = "connect" /\ UNCHANGED <<txs, outputTxs, blocks, pending, outcome, missing>>
  <2>1. TypeOK'
    BY <1>1, <1>2, SameLedger, SameCall, SameHistory DEF TypeInv, TypeOK, Stages, Records
  <2>2. LedgerInv' /\ DuringInv'
    BY <1>1, SameLedger, SameHistory DEF TypeInv, DuringInv
  <2>3. StageInv'
    BY <1>1, <1>2, SameCall DEF TypeInv, StageInv, QueriesOf
  <2>4. ShapeInv'
    BY <1>1, <1>2 DEF TypeInv, ShapeInv, HaveBlocks, HasBlock
  <2> QED BY <2>1, <2>2, <2>3, <2>4 DEF TypeInv
<1>3. CASE Throw("notConnected", {})
  <2>1. collects' \in BOOLEAN /\ {} \in SUBSET Txs
    BY <1>1 DEF TypeInv, TypeOK
  <2> QED BY <1>1, <1>3, <2>1, ThrowKeeps DEF Outcomes
<1> QED BY <1>2, <1>3 DEF CheckPool

LEMMA ConnectTyped == ASSUME TypeInv, Connect PROVE TypeInv'
<1>1. /\ stage = "connect" /\ stage' = "transfers" /\ connected' \in BOOLEAN
      /\ UNCHANGED ledger /\ UNCHANGED call /\ UNCHANGED history
      /\ UNCHANGED <<collects, txs, outputTxs, blocks, pending, outcome, missing>>
  BY DEF Connect
<1>2. TypeOK'
  BY <1>1, SameLedger, SameCall, SameHistory DEF TypeInv, TypeOK, Stages, Records
<1>3. LedgerInv' /\ DuringInv'
  BY <1>1, SameLedger, SameHistory DEF TypeInv, DuringInv
<1>4. StageInv'
  BY <1>1, SameCall DEF TypeInv, StageInv, QueriesOf
<1>5. ShapeInv'
  BY <1>1 DEF TypeInv, ShapeInv, HaveBlocks, HasBlock
<1> QED BY <1>2, <1>3, <1>4, <1>5 DEF TypeInv

LEMMA GetTransfersTyped == ASSUME TypeInv, GetTransfers PROVE TypeInv'
<1>1. /\ stage = "transfers"
      /\ UNCHANGED ledger /\ UNCHANGED call /\ UNCHANGED history /\ connected' = connected
  BY DEF GetTransfers
<1>2. LedgerTypeOK /\ LedgerInv /\ collects \in BOOLEAN
  BY DEF TypeInv, TypeOK
<1>3. Records(TxsFromTransfers)
  BY <1>2, TxsFromTransfersType
<1>4. CASE ~BuildsTxs /\ Return(TxsFromTransfers, {}) /\ UNCHANGED collects
  <2>1. {} \in SUBSET Txs /\ collects' \in BOOLEAN
    BY <1>2, <1>4
  <2> QED BY <1>1, <1>3, <1>4, <2>1, ReturnKeeps
<1>5. CASE /\ BuildsTxs /\ NeedsOutputs
           /\ stage' = "accounts" /\ txs' = TxsFromTransfers
           /\ UNCHANGED <<collects, outputTxs, blocks, pending, outcome, missing>>
  <2>1. TypeOK'
    BY <1>1, <1>3, <1>5, SameLedger, SameCall, SameHistory DEF TypeInv, TypeOK, Stages, Records
  <2>2. LedgerInv' /\ DuringInv'
    BY <1>1, SameLedger, SameHistory DEF TypeInv, DuringInv
  <2>3. StageInv'
    BY <1>1, <1>5, SameCall DEF TypeInv, StageInv, QueriesOf
  <2>4. ShapeInv'
    <3>1. \A t \in DOMAIN txs' : HasTransfersOnly(txs'[t]) /\ TxMeets(AuxQuery', t, txs'[t])
      BY <1>1, <1>2, <1>5, TransfersShape, SameCall
    <3> QED BY <1>1, <1>5, <3>1 DEF TypeInv, ShapeInv, HaveBlocks, HasBlock
  <2> QED BY <2>1, <2>2, <2>3, <2>4 DEF TypeInv
<1>6. CASE BuildsTxs /\ Finish(TxsFromTransfers)
  BY <1>1, <1>3, <1>6, FinishKeeps
<1> QED BY <1>4, <1>5, <1>6 DEF GetTransfers

LEMMA GetAccountIndicesTyped == ASSUME TypeInv, GetAccountIndices PROVE TypeInv'
<1>1. /\ stage = "accounts" /\ stage' = "outputs" /\ pending' = Accounts
      /\ UNCHANGED ledger /\ UNCHANGED call /\ UNCHANGED history
      /\ UNCHANGED <<collects, connected, txs, outputTxs, blocks, outcome, missing>>
  BY DEF GetAccountIndices
<1>2. TypeOK'
  BY <1>1, SameLedger, SameCall, SameHistory DEF TypeInv, TypeOK, Stages, Records
<1>3. LedgerInv' /\ DuringInv'
  BY <1>1, SameLedger, SameHistory DEF TypeInv, DuringInv
<1>4. StageInv'
  BY <1>1, LedgerAssumption, SameCall DEF TypeInv, StageInv, QueriesOf
<1>5. ShapeInv'
  <2>1. \A t \in DOMAIN txs' : HasTransfersOnly(txs'[t]) /\ TxMeets(AuxQuery', t, txs'[t])
    BY <1>1, SameCall DEF TypeInv, ShapeInv
  <2> QED BY <1>1, <2>1 DEF TypeInv, ShapeInv, HaveBlocks, HasBlock
<1> QED BY <1>2, <1>3, <1>4, <1>5 DEF TypeInv

\* What GetOutputs does: merging the entries of the account fails, it goes on
\* to the next account, or it was the last.
Conflicts(account) ==
    \E e \in EntriesOfAccount(account) :
        e.tx \in DOMAIN outputTxs /\ ~Reconcilable(outputTxs[e.tx], e.built)

Disagrees(seq) ==
    \E t \in DOMAIN txs \cap DOMAIN With(seq) : ~Reconcilable(txs[t], With(seq)[t])

\* The end of getTxs, by the order in which transactions are merged.
Orders(seq) == SetToSeqs(EntriesOf(With(seq)))
Combination(seq, order) == MergeOutputTxs(txs, With(seq), Merged(seq).blocks, order)
All(seq, order) == Combination(seq, order).txs

Fails(error) == error # "none" /\ Throw(error, {}) /\ UNCHANGED collects

GoesOn(seq) ==
    /\ pending # {Min(pending)} /\ pending' = pending \ {Min(pending)}
    /\ outputTxs' = Merged(seq).txs /\ blocks' = Merged(seq).blocks
    /\ UNCHANGED <<stage, collects, txs, outcome, missing>>

LEMMA GetOutputsCases ==
    ASSUME GetOutputs
    PROVE  /\ stage = "outputs" /\ UNCHANGED <<ledger, call, connected, history>>
           /\ \E seq \in Responses(Min(pending)) :
                 \/ Fails(Merged(seq).error)
                 \/ /\ Merged(seq).error = "none"
                    /\ \/ GoesOn(seq)
                       \/ /\ pending = {Min(pending)} /\ ~BuildsTxs
                          /\ Return(With(seq), {}) /\ UNCHANGED collects
                       \/ /\ pending = {Min(pending)} /\ BuildsTxs
                          /\ \E order \in Orders(seq) :
                                \/ Fails(Combination(seq, order).error)
                                \/ /\ Combination(seq, order).error = "none"
                                   /\ Finish(All(seq, order))
<1>1. PICK seq \in SetToSeqs(TxsOfOutputs(Min(pending))) :
         IF Merged(seq).error # "none" THEN Throw(Merged(seq).error, {}) /\ UNCHANGED collects
         ELSE IF pending # {Min(pending)} THEN GoesOn(seq)
         ELSE IF ~BuildsTxs THEN Return(With(seq), {}) /\ UNCHANGED collects
         ELSE Combine(With(seq), Merged(seq).blocks)
  BY DEF GetOutputs, With, Final, Merged, GoesOn
<1>2. seq \in Responses(Min(pending))
  BY TxsOfOutputsEntries DEF Responses
<1>3. ASSUME Combine(With(seq), Merged(seq).blocks)
      PROVE  \E order \in Orders(seq) :
                \/ Fails(Combination(seq, order).error)
                \/ Combination(seq, order).error = "none" /\ Finish(All(seq, order))
  BY <1>3 DEF Combine, Combination, All, Orders, InBlockOrder, Fails
<1>4. stage = "outputs" /\ UNCHANGED <<ledger, call, connected, history>>
  BY DEF GetOutputs
<1>5. ASSUME Merged(seq).error # "none"
      PROVE  Fails(Merged(seq).error)
  BY <1>1, <1>5 DEF Fails
<1>6. ASSUME Merged(seq).error = "none", pending # {Min(pending)}
      PROVE  GoesOn(seq)
  BY <1>1, <1>6
<1>7. ASSUME Merged(seq).error = "none", pending = {Min(pending)}
      PROVE  IF ~BuildsTxs THEN Return(With(seq), {}) /\ UNCHANGED collects
             ELSE Combine(With(seq), Merged(seq).blocks)
  BY <1>1, <1>7
<1> HIDE DEF Merged, With, Combine, Return, Finish, Fails, GoesOn, Combination, All, Orders
<1> QED BY <1>2, <1>3, <1>4, <1>5, <1>6, <1>7, Zenon

\* The account whose outputs are read next.
LEMMA NextAccount ==
    ASSUME TypeInv, stage = "outputs"
    PROVE  Min(pending) \in pending /\ Min(pending) \in Accounts
<1>1. pending \in SUBSET Nat /\ pending # {} /\ pending \subseteq Accounts
  BY LedgerAssumption DEF TypeInv, TypeOK, StageInv
<1> QED BY <1>1, MinIsLeast

LEMMA OutputsSoFar ==
    ASSUME TypeInv
    PROVE  /\ LedgerTypeOK /\ LedgerInv /\ OutputTxs(outputTxs)
           /\ blocks \in SUBSET Blocks /\ HaveBlocks(outputTxs, blocks)
           /\ OfTransfersOnly(blocks)
BY DEF TypeInv, TypeOK, ShapeInv, OutputTxs

LEMMA WithType ==
    ASSUME TypeInv, NEW account, NEW seq \in Responses(account)
    PROVE  /\ Records(With(seq))
           /\ \A t \in DOMAIN With(seq) :
                 IsOutputTx(With(seq)[t]) /\ With(seq)[t].height \in Heights
           /\ Merged(seq).blocks \in SUBSET Blocks
BY OutputsSoFar, FinalType, MergedAccount, WithMember DEF IsAcc

LEMMA AllType ==
    ASSUME TypeInv, stage = "outputs",
           NEW account, NEW seq \in Responses(account), NEW order \in Orders(seq)
    PROVE  /\ Records(txs) /\ \A t \in DOMAIN txs : HasTransfersOnly(txs[t])
           /\ AreCombined(txs, With(seq), All(seq, order))
           /\ Records(All(seq, order)) /\ DOMAIN All(seq, order) = DOMAIN txs
           /\ Combination(seq, order).error \in {"none"} \cup Errors
<1>1. Records(txs) /\ \A t \in DOMAIN txs : HasTransfersOnly(txs[t])
  BY DEF TypeInv, TypeOK, ShapeInv
<1>2. /\ Records(With(seq))
      /\ \A t \in DOMAIN With(seq) :
            IsOutputTx(With(seq)[t]) /\ With(seq)[t].height \in Heights
      /\ Merged(seq).blocks \in SUBSET Blocks
  BY WithType
<1>3. order \in SetToSeqs(EntriesOf(With(seq)))
  BY DEF Orders
<1>4. /\ AreCombined(txs, With(seq), All(seq, order))
      /\ Combination(seq, order).error \in {"none"} \cup Errors
  BY <1>1, <1>2, <1>3, MergeOutputTxsResult DEF All, Combination
<1> QED BY <1>1, <1>4 DEF AreCombined

\* Without an error the responses agree.
LEMMA MergedAgrees ==
    ASSUME LedgerTypeOK, LedgerInv, NEW account, NEW seq \in Responses(account),
           Merged(seq).error = "none"
    PROVE  ~Conflicts(account)
BY EntriesType, MergeAllAgrees DEF Merged, Responses, Conflicts

LEMMA CombinationAgrees ==
    ASSUME TypeInv, stage = "outputs",
           NEW account, NEW seq \in Responses(account), NEW order \in Orders(seq),
           Combination(seq, order).error = "none"
    PROVE  ~Disagrees(seq)
<1>1. Records(txs) /\ \A t \in DOMAIN txs : HasTransfersOnly(txs[t])
  BY AllType
<1>2. /\ Records(With(seq))
      /\ \A t \in DOMAIN With(seq) :
            IsOutputTx(With(seq)[t]) /\ With(seq)[t].height \in Heights
      /\ Merged(seq).blocks \in SUBSET Blocks
  BY WithType
<1>3. order \in SetToSeqs(EntriesOf(With(seq)))
  BY DEF Orders
<1> QED BY <1>1, <1>2, <1>3, MergeOutputTxsResult DEF Combination, Disagrees

LEMMA FailsKeeps ==
    ASSUME TypeInv, stage # "idle", UNCHANGED <<ledger, call, connected, history>>,
           NEW error \in {"none"} \cup Errors, Fails(error)
    PROVE  TypeInv'
<1>1. error \in Outcomes \ {"none", "returned"}
  BY DEF Fails, Errors, Outcomes
<1>2. Throw(error, {}) /\ collects' \in BOOLEAN
  BY DEF Fails, TypeInv, TypeOK
<1> QED BY <1>1, <1>2, ThrowKeeps

LEMMA GetOutputsTyped == ASSUME TypeInv, GetOutputs PROVE TypeInv'
<1> DEFINE account == Min(pending)
<1>1. stage = "outputs" /\ UNCHANGED <<ledger, call, connected, history>>
  BY DEF GetOutputs
<1>2. UNCHANGED ledger /\ UNCHANGED call /\ UNCHANGED history /\ connected' = connected
  BY <1>1
<1>3. account \in pending /\ collects \in BOOLEAN /\ {} \in SUBSET Txs
  BY <1>1, NextAccount DEF TypeInv, TypeOK
<1>4. PICK seq \in Responses(account) :
         \/ Fails(Merged(seq).error)
         \/ GoesOn(seq)
         \/ Return(With(seq), {}) /\ UNCHANGED collects
         \/ /\ BuildsTxs
            /\ \E order \in Orders(seq) :
                  Fails(Combination(seq, order).error) \/ Finish(All(seq, order))
  BY GetOutputsCases
<1>5. /\ IsAcc(Merged(seq))
      /\ AreMerged(outputTxs, EntriesOfAccount(account), Merged(seq).txs)
      /\ HaveBlocks(Merged(seq).txs, Merged(seq).blocks)
      /\ OfTransfersOnly(Merged(seq).blocks)
  BY OutputsSoFar, MergedAccount
<1>6. CASE Fails(Merged(seq).error)
  BY <1>1, <1>5, <1>6, FailsKeeps DEF IsAcc
<1>7. CASE GoesOn(seq)
  <2> USE <1>7 DEF GoesOn
  <2>1. TypeOK'
    BY <1>2, <1>5, SameLedger, SameCall, SameHistory DEF TypeInv, TypeOK, Records, IsAcc
  <2>2. LedgerInv' /\ DuringInv'
    BY <1>2, SameLedger, SameHistory DEF TypeInv, DuringInv
  <2>3. StageInv'
    BY <1>1, <1>2, <1>3, SameCall DEF TypeInv, StageInv, QueriesOf
  <2>4. ShapeInv'
    <3>1. \A t \in DOMAIN txs' : HasTransfersOnly(txs'[t]) /\ TxMeets(AuxQuery', t, txs'[t])
      BY <1>1, <1>2, SameCall DEF TypeInv, ShapeInv
    <3>2. \A t \in DOMAIN outputTxs' : IsOutputTx(outputTxs'[t])
      BY <1>5 DEF AreMerged
    <3>3. HaveBlocks(outputTxs', blocks')
      BY <1>5
    <3>4. HaveBlocks(outputTxs, blocks)'
      BY <3>3 DEF HaveBlocks, HasBlock
    <3>5. OfTransfersOnly(blocks)'
      BY <1>5 DEF OfTransfersOnly
    <3> QED BY <3>1, <3>2, <3>4, <3>5 DEF ShapeInv
  <2> QED BY <2>1, <2>2, <2>3, <2>4 DEF TypeInv
<1>8. CASE Return(With(seq), {}) /\ UNCHANGED collects
  <2>1. Records(With(seq))
    BY WithType
  <2> QED BY <1>1, <1>3, <1>8, <2>1, ReturnKeeps
<1>9. ASSUME BuildsTxs, NEW order \in Orders(seq),
             Fails(Combination(seq, order).error) \/ Finish(All(seq, order))
      PROVE  TypeInv'
  <2>1. Records(All(seq, order)) /\ Combination(seq, order).error \in {"none"} \cup Errors
    BY <1>1, AllType
  <2>2. CASE Fails(Combination(seq, order).error)
    BY <1>1, <2>1, <2>2, FailsKeeps
  <2>3. CASE Finish(All(seq, order))
    BY <1>1, <1>9, <2>1, <2>3, FinishKeeps
  <2> QED BY <1>9, <2>2, <2>3
<1> QED BY <1>4, <1>6, <1>7, <1>8, <1>9

LEMMA RequestFailsTyped == ASSUME TypeInv, RequestFails PROVE TypeInv'
<1>1. /\ stage # "idle" /\ Throw("failed", {}) /\ UNCHANGED collects
      /\ UNCHANGED <<ledger, call, connected, history>>
  BY DEF RequestFails
<1>2. collects' \in BOOLEAN /\ {} \in SUBSET Txs
  BY <1>1 DEF TypeInv, TypeOK
<1> QED BY <1>1, <1>2, ThrowKeeps DEF Outcomes

LEMMA ForgetTyped == ASSUME TypeInv, Forget PROVE TypeInv'
<1>1. /\ stage = "idle" /\ outcome' = "none" /\ method' = "getTxs" /\ query' = Null
      /\ collects' = FALSE /\ connected' = FALSE /\ txs' = <<>> /\ missing' = {}
      /\ always' = {} /\ ever' = {} /\ during' = <<>>
      /\ UNCHANGED ledger /\ UNCHANGED <<stage, outputTxs, blocks, pending>>
  BY DEF Forget, TypeInv, StageInv
<1>2. ToSet(during') = {} /\ Len(during') = 0
  BY <1>1 DEF ToSet
<1>3. ToSet(during)' = {} /\ ToSet(during)' \subseteq {"change", "reorg"}
  BY <1>2 DEF ToSet
<1>4. TypeOK'
  <2>1. Records(txs)' /\ Records(outputTxs)'
    BY <1>1, Empty DEF TypeInv, TypeOK, Records
  <2>2. LedgerTypeOK'
    BY <1>1, SameLedger DEF TypeInv, TypeOK
  <2>3. Len(during)' <= MaxChanges
    BY <1>2, QueriesAssumption
  <2> QED BY <1>1, <1>3, <2>1, <2>2, <2>3 DEF TypeInv, TypeOK, Methods, Outcomes
<1>5. LedgerInv' /\ DuringInv'
  BY <1>1, SameLedger DEF TypeInv, DuringInv
<1>6. StageInv'
  BY <1>1 DEF TypeInv, StageInv
<1>7. ShapeInv'
  BY <1>1 DEF TypeInv, ShapeInv, HaveBlocks, HasBlock
<1> QED BY <1>4, <1>5, <1>6, <1>7 DEF TypeInv

LEMMA ChangeCases ==
    ASSUME Change
    PROVE  /\ outcome = "none" /\ Len(during) < MaxChanges
           /\ UNCHANGED <<stage, collects, connected, txs, outputTxs, blocks, pending,
                          outcome, missing>>
           /\ UNCHANGED call
           /\ \/ (Mine \/ (\E t \in Txs : Arrive(t) \/ Drop(t))) /\ Watch("change")
              \/ Reorganize /\ Watch("reorg")
BY DEF Change, clientVars

LEMMA WatchKeeps ==
    ASSUME DuringInv, NEW what \in {"change", "reorg"}, Watch(what),
           Len(during) < MaxChanges, ToSet(during) \subseteq {"change", "reorg"}
    PROVE  /\ DuringInv'
           /\ ToSet(during)' \subseteq {"change", "reorg"} /\ Len(during)' <= MaxChanges
           /\ during' = during \/ during' = Append(during, what)
           /\ stage # "idle" => during' = Append(during, what)
<1>1. CASE stage = "idle"
  <2>1. UNCHANGED history
    BY <1>1 DEF Watch
  <2> QED BY <1>1, <2>1, QueriesAssumption DEF history, DuringInv
<1>2. CASE stage # "idle"
  <2>1. during' = Append(during, what)
    BY <1>2 DEF Watch
  <2>2. during' \in Seq({"change", "reorg"}) /\ Len(during') = Len(during) + 1
    BY <2>1 DEF DuringInv
  <2>3. Len(during) \in Nat
    BY DEF DuringInv
  <2>4. \A i \in DOMAIN during' : during'[i] \in {"change", "reorg"}
    BY <2>2
  <2>5. ToSet(during)' \subseteq {"change", "reorg"}
    BY <2>4 DEF ToSet
  <2>6. Len(during)' <= MaxChanges
    BY <2>2, <2>3, QueriesAssumption
  <2> QED BY <2>1, <2>2, <2>5, <2>6 DEF DuringInv
<1> QED BY <1>1, <1>2

LEMMA ChangeTyped == ASSUME TypeInv, Change PROVE TypeInv'
<1>1. /\ outcome = "none" /\ Len(during) < MaxChanges
      /\ UNCHANGED <<stage, collects, connected, txs, outputTxs, blocks, pending,
                     outcome, missing>>
      /\ UNCHANGED call
      /\ Mine \/ (\E t \in Txs : Arrive(t) \/ Drop(t)) \/ Reorganize
      /\ \E what \in {"change", "reorg"} : Watch(what)
  BY ChangeCases
<1>2. LedgerTypeOK' /\ LedgerInv'
  BY <1>1, LedgerKeeps DEF TypeInv, TypeOK
<1>3. /\ DuringInv'
      /\ ToSet(during)' \subseteq {"change", "reorg"} /\ Len(during)' <= MaxChanges
  BY <1>1, WatchKeeps DEF TypeInv, TypeOK
<1>4. TypeOK'
  BY <1>1, <1>2, <1>3, SameCall DEF TypeInv, TypeOK, Records
<1>5. StageInv'
  BY <1>1, SameCall DEF TypeInv, StageInv, QueriesOf
<1>6. ShapeInv'
  <2>1. stage' \in {"accounts", "outputs"} =>
           \A t \in DOMAIN txs' : HasTransfersOnly(txs'[t]) /\ TxMeets(AuxQuery', t, txs'[t])
    BY <1>1, SameCall DEF TypeInv, ShapeInv
  <2> QED BY <1>1, <2>1 DEF TypeInv, ShapeInv, HaveBlocks, HasBlock
<1> QED BY <1>2, <1>3, <1>4, <1>5, <1>6 DEF TypeInv

LEMMA NextTyped == ASSUME TypeInv, [Next]_vars PROVE TypeInv'
<1>1. CASE Next
  BY <1>1, CallTyped, CheckPoolTyped, ConnectTyped, GetTransfersTyped, GetAccountIndicesTyped,
     GetOutputsTyped, RequestFailsTyped, ForgetTyped, ChangeTyped DEF Next, Step
<1>2. CASE UNCHANGED vars
  <2>1. /\ UNCHANGED ledger /\ UNCHANGED call /\ UNCHANGED history
        /\ UNCHANGED <<stage, collects, connected, txs, outputTxs, blocks, pending,
                       outcome, missing>>
    BY <1>2 DEF vars, clientVars
  <2>2. TypeOK'
    BY <2>1, SameLedger, SameCall, SameHistory DEF TypeInv, TypeOK, Records
  <2>3. LedgerInv' /\ DuringInv'
    BY <2>1, SameLedger, SameHistory DEF TypeInv, DuringInv
  <2>4. StageInv'
    BY <2>1, SameCall DEF TypeInv, StageInv, QueriesOf
  <2>5. ShapeInv'
    BY <2>1, SameCall DEF TypeInv, ShapeInv, HaveBlocks, HasBlock
  <2> QED BY <2>2, <2>3, <2>4, <2>5 DEF TypeInv
<1> QED BY <1>1, <1>2

(* The stages of a call and what it has built at each of them.             *)
THEOREM TypeInvHolds == Spec => []TypeInv
BY InitTyped, NextTyped, PTL DEF Spec

(* Every variable has its type: in particular, each transaction that       *)
(* mergeTx builds from the parts of several responses is a transaction of  *)
(* the server, with a height of the chain if it has one.                   *)
THEOREM TypeCorrect == Spec => []TypeOK
<1>1. TypeInv => TypeOK
  BY DEF TypeInv
<1> QED BY <1>1, TypeInvHolds, PTL
-----------------------------------------------------------------------------
(***************************************************************************)
(* Heights.  As long as the chain does not reorganize, the blocks that are *)
(* merged have only transactions that are in the block of their height.    *)
(***************************************************************************)

TxsAreTrue(built) ==
    \A t \in DOMAIN built :
       built[t].isConfirmed => place[t] = "mined" /\ built[t].height = mined[t]

HeightInv == ~Reorganized => BlocksAreTrue(blocks) /\ TxsAreTrue(txs)

LEMMA EmptyIsTrue == BlocksAreTrue({}) /\ TxsAreTrue(<<>>)
BY DEF BlocksAreTrue, TxsAreTrue

LEMMA HeightKept ==
    ASSUME UNCHANGED ledger, during' = during,
           ~Reorganized => BlocksAreTrue(blocks') /\ TxsAreTrue(txs')
    PROVE  HeightInv'
<1>1. place' = place /\ mined' = mined
  BY SameLedger
<1>2. Reorganized' <=> Reorganized
  BY DEF Reorganized
<1>3. BlocksAreTrue(blocks') => BlocksAreTrue(blocks)'
  BY <1>1 DEF BlocksAreTrue
<1>4. TxsAreTrue(txs') => TxsAreTrue(txs)'
  BY <1>1 DEF TxsAreTrue
<1> QED BY <1>2, <1>3, <1>4 DEF HeightInv

LEMMA MinedForward ==
    ASSUME LedgerTypeOK, LedgerInv, Mine \/ (\E t \in Txs : Arrive(t) \/ Drop(t)),
           NEW u \in Txs, place[u] = "mined"
    PROVE  place'[u] = "mined" /\ mined'[u] = mined[u]
BY DEF LedgerTypeOK, LedgerInv, Mine, Arrive, Drop

LEMMA ConfirmedIsMined ==
    ASSUME NEW t
    PROVE  /\ TxFromTransfers(t).isConfirmed <=> place[t] = "mined"
           /\ place[t] = "mined" => TxFromTransfers(t).height = mined[t]
BY TxFromTransfersFields, ServerTxFields

LEMMA TransfersAreTrue == TxsAreTrue(TxsFromTransfers)
BY TxsFromTransfersMember, ConfirmedIsMined DEF TxsAreTrue

LEMMA WithIsTrue ==
    ASSUME TypeInv, BlocksAreTrue(blocks), NEW account, NEW seq \in Responses(account)
    PROVE  \A t \in DOMAIN With(seq) :
              place[t] = "mined" /\ With(seq)[t].height = mined[t]
BY OutputsSoFar, FinalType, WithMember

LEMMA AllIsCombined ==
    ASSUME TypeInv, stage = "outputs", BlocksAreTrue(blocks), TxsAreTrue(txs),
           NEW account, NEW seq \in Responses(account), NEW order \in Orders(seq)
    PROVE  AreCombinedInPlace(txs, With(seq), All(seq, order))
<1>1. Records(txs) /\ \A t \in DOMAIN txs : HasTransfersOnly(txs[t])
  BY AllType
<1>2. /\ Records(With(seq))
      /\ \A t \in DOMAIN With(seq) :
            IsOutputTx(With(seq)[t]) /\ With(seq)[t].height \in Heights
      /\ Merged(seq).blocks \in SUBSET Blocks
  BY WithType
<1>3. BlocksAreTrue(Merged(seq).blocks) /\ order \in SetToSeqs(EntriesOf(With(seq)))
  BY OutputsSoFar, MergedAccount DEF Orders
<1>4. \A t \in DOMAIN With(seq) : place[t] = "mined" /\ With(seq)[t].height = mined[t]
  BY WithIsTrue
<1>5. \A t \in DOMAIN txs :
         txs[t].isConfirmed => place[t] = "mined" /\ txs[t].height = mined[t]
  BY DEF TxsAreTrue
<1> QED BY <1>1, <1>2, <1>3, <1>4, <1>5, MergeOutputTxsResult DEF All, Combination

\* The transactions of the answer, by what they are merged from.
LEMMA AllMember ==
    ASSUME TypeInv, stage = "outputs", BlocksAreTrue(blocks), TxsAreTrue(txs),
           NEW account, NEW seq \in Responses(account), NEW order \in Orders(seq),
           NEW t \in DOMAIN All(seq, order)
    PROVE  /\ t \in DOMAIN txs /\ t \in Txs /\ txs[t] \in TxRecords
           /\ HasTransfersOnly(txs[t]) /\ TxMeets(AuxQuery, t, txs[t])
           /\ t \in DOMAIN With(seq) =>
                 /\ place[t] = "mined" /\ mined[t] \in Heights
                 /\ With(seq)[t] \in TxRecords
                 /\ IsOutputTx(With(seq)[t])
                 /\ All(seq, order)[t] = Combined(txs[t], With(seq)[t], mined[t])
           /\ t \notin DOMAIN With(seq) => All(seq, order)[t] = txs[t]
<1>1. t \in DOMAIN txs
  BY AllType
<1>2. t \in Txs /\ txs[t] \in TxRecords
  BY <1>1 DEF TypeInv, TypeOK, Records
<1>3. HasTransfersOnly(txs[t]) /\ TxMeets(AuxQuery, t, txs[t])
  BY <1>1 DEF TypeInv, ShapeInv
<1>4. AreCombinedInPlace(txs, With(seq), All(seq, order))
  BY AllIsCombined
<1>5. /\ t \in DOMAIN With(seq) =>
            All(seq, order)[t] = Combined(txs[t], With(seq)[t], mined[t])
      /\ t \notin DOMAIN With(seq) => All(seq, order)[t] = txs[t]
  BY <1>1, <1>4 DEF AreCombinedInPlace
<1>6. ASSUME t \in DOMAIN With(seq)
      PROVE  /\ place[t] = "mined" /\ mined[t] \in Heights
             /\ With(seq)[t] \in TxRecords /\ IsOutputTx(With(seq)[t])
  <2>1. place[t] = "mined"
    BY <1>6, WithIsTrue
  <2>2. mined[t] \in Heights
    BY <1>2, <2>1, MinedInHeights DEF TypeInv, TypeOK
  <2>3. With(seq)[t] \in TxRecords /\ IsOutputTx(With(seq)[t])
    BY <1>6, WithType DEF Records
  <2> QED BY <2>1, <2>2, <2>3
<1> QED BY <1>1, <1>2, <1>3, <1>5, <1>6

LEMMA AllIsTrue ==
    ASSUME TypeInv, stage = "outputs", BlocksAreTrue(blocks), TxsAreTrue(txs),
           NEW account, NEW seq \in Responses(account), NEW order \in Orders(seq)
    PROVE  TxsAreTrue(All(seq, order))
<1> SUFFICES ASSUME NEW t \in DOMAIN All(seq, order), All(seq, order)[t].isConfirmed
             PROVE  place[t] = "mined" /\ All(seq, order)[t].height = mined[t]
  BY DEF TxsAreTrue
<1>1. CASE t \in DOMAIN With(seq)
  <2>1. /\ txs[t] \in TxRecords /\ With(seq)[t] \in TxRecords /\ mined[t] \in Heights
        /\ place[t] = "mined"
        /\ All(seq, order)[t] = Combined(txs[t], With(seq)[t], mined[t])
    BY <1>1, AllMember
  <2>2. Combined(txs[t], With(seq)[t], mined[t]).height = mined[t]
    BY <2>1 DEF Combined, TxRecords
  <2> QED BY <2>1, <2>2
<1>2. CASE t \notin DOMAIN With(seq)
  BY <1>2, AllMember DEF TxsAreTrue
<1> QED BY <1>1, <1>2

LEMMA HeightFinish ==
    ASSUME UNCHANGED <<ledger, call, connected, history>>, HeightInv,
           NEW built, Finish(built), ~Reorganized => TxsAreTrue(built)
    PROVE  HeightInv'
<1>1. UNCHANGED ledger /\ during' = during
  BY SameHistory
<1>2. blocks' = {}
  BY FinishCases DEF Throw, Return
<1>3. txs' = <<>> \/ txs' = Restrict(built, Found(built))
  BY FinishCases DEF Throw, Return
<1>4. TxsAreTrue(built) => TxsAreTrue(Restrict(built, Found(built)))
  BY DEF TxsAreTrue, Restrict, Found
<1> QED BY <1>1, <1>2, <1>3, <1>4, EmptyIsTrue, HeightKept

LEMMA HeightNext == ASSUME TypeInv, TypeInv', HeightInv, [Next]_vars PROVE HeightInv'
<1> USE DEF HeightInv
<1>1. CASE Call
  <2>1. txs' = <<>> /\ blocks' = {} /\ UNCHANGED ledger /\ during' = during
    BY <1>1 DEF Call, TypeInv, StageInv
  <2> QED BY <2>1, EmptyIsTrue, HeightKept
<1>2. CASE CheckPool
  <2>1. UNCHANGED ledger /\ during' = during
    BY <1>2, SameHistory DEF CheckPool
  <2>2. \/ txs' = txs /\ blocks' = blocks
        \/ txs' = <<>> /\ blocks' = {}
    BY <1>2 DEF CheckPool, Throw
  <2> QED BY <2>1, <2>2, EmptyIsTrue, HeightKept
<1>3. CASE Connect
  <2>1. UNCHANGED ledger /\ during' = during /\ txs' = txs /\ blocks' = blocks
    BY <1>3, SameHistory DEF Connect
  <2> QED BY <2>1, HeightKept
<1>4. CASE GetTransfers
  <2>1. UNCHANGED <<ledger, call, connected, history>> /\ UNCHANGED ledger /\ during' = during
    BY <1>4, SameHistory DEF GetTransfers
  <2>2. CASE Finish(TxsFromTransfers)
    BY <2>1, <2>2, TransfersAreTrue, HeightFinish
  <2>3. CASE Return(TxsFromTransfers, {})
    BY <2>1, <2>3, TransfersAreTrue, EmptyIsTrue, HeightKept DEF Return
  <2>4. CASE txs' = TxsFromTransfers /\ blocks' = blocks
    BY <2>1, <2>4, TransfersAreTrue, HeightKept
  <2> QED BY <1>4, <2>2, <2>3, <2>4 DEF GetTransfers
<1>5. CASE GetAccountIndices
  <2>1. UNCHANGED ledger /\ during' = during /\ txs' = txs /\ blocks' = blocks
    BY <1>5, SameHistory DEF GetAccountIndices
  <2> QED BY <2>1, HeightKept
<1>6. CASE GetOutputs
  <2> DEFINE account == Min(pending)
  <2>1. /\ UNCHANGED <<ledger, call, connected, history>> /\ UNCHANGED ledger /\ during' = during
        /\ stage = "outputs"
    BY <1>6, SameHistory DEF GetOutputs
  <2>2. PICK seq \in Responses(account) :
           \/ Fails(Merged(seq).error)
           \/ GoesOn(seq)
           \/ Return(With(seq), {})
           \/ \E order \in Orders(seq) :
                 Fails(Combination(seq, order).error) \/ Finish(All(seq, order))
    BY <1>6, GetOutputsCases
  <2>3. ASSUME NEW error, Fails(error)
        PROVE  HeightInv'
    BY <2>1, <2>3, EmptyIsTrue, HeightKept DEF Fails, Throw
  <2>4. CASE GoesOn(seq)
    <3>1. BlocksAreTrue(blocks) => BlocksAreTrue(Merged(seq).blocks)
      BY OutputsSoFar, MergedAccount
    <3> QED BY <2>1, <2>4, <3>1, HeightKept DEF GoesOn
  <2>5. CASE Return(With(seq), {})
    <3>1. BlocksAreTrue(blocks) => TxsAreTrue(With(seq))
      BY WithIsTrue DEF TxsAreTrue
    <3> QED BY <2>1, <2>5, <3>1, EmptyIsTrue, HeightKept DEF Return
  <2>6. ASSUME NEW order \in Orders(seq), Finish(All(seq, order))
        PROVE  HeightInv'
    BY <2>1, <2>6, AllIsTrue, HeightFinish
  <2> QED BY <2>2, <2>3, <2>4, <2>5, <2>6
<1>7. CASE RequestFails
  <2>1. UNCHANGED ledger /\ during' = during /\ txs' = <<>> /\ blocks' = {}
    BY <1>7, SameHistory DEF RequestFails, Throw
  <2> QED BY <2>1, EmptyIsTrue, HeightKept
<1>8. CASE Forget
  <2>1. UNCHANGED ledger /\ txs' = <<>> /\ blocks' = {}
    BY <1>8 DEF Forget, TypeInv, StageInv
  <2>2. BlocksAreTrue(blocks)' /\ TxsAreTrue(txs)'
    BY <2>1 DEF BlocksAreTrue, TxsAreTrue
  <2> QED BY <2>2
<1>9. CASE Change
  <2>1. /\ outcome = "none" /\ txs' = txs /\ blocks' = blocks /\ stage' = stage
        /\ \/ (Mine \/ (\E t \in Txs : Arrive(t) \/ Drop(t))) /\ Watch("change")
           \/ Reorganize /\ Watch("reorg")
    BY <1>9, ChangeCases
  <2>2. CASE stage = "idle"
    <3>1. txs' = <<>> /\ blocks' = {}
      BY <2>1, <2>2 DEF TypeInv, StageInv
    <3>2. BlocksAreTrue(blocks)' /\ TxsAreTrue(txs)'
      BY <3>1 DEF BlocksAreTrue, TxsAreTrue
    <3> QED BY <3>2
  <2>3. CASE stage # "idle" /\ Reorganize /\ Watch("reorg")
    <3>1. during' = Append(during, "reorg") /\ during \in Seq({"change", "reorg"})
      BY <2>3 DEF Watch, TypeInv, DuringInv
    <3>2. Len(during) + 1 \in DOMAIN during' /\ during'[Len(during) + 1] = "reorg"
      BY <3>1
    <3>3. Reorganized'
      BY <3>2 DEF Reorganized, ToSet
    <3> QED BY <3>3
  <2>4. CASE /\ stage # "idle" /\ Watch("change")
             /\ \/ Mine
                \/ \E t \in Txs : Arrive(t) \/ Drop(t)
    <3>1. during' = Append(during, "change") /\ during \in Seq({"change", "reorg"})
      BY <2>4 DEF Watch, TypeInv, DuringInv
    <3>2. \A i \in DOMAIN during : i \in DOMAIN during' /\ during'[i] = during[i]
      BY <3>1
    <3>3. Reorganized => Reorganized'
      BY <3>2 DEF Reorganized, ToSet
    <3>4. \A u \in Txs : place[u] = "mined" => place'[u] = "mined" /\ mined'[u] = mined[u]
      BY <2>4, MinedForward DEF TypeInv, TypeOK
    <3>5. blocks \in SUBSET Blocks /\ DOMAIN txs \subseteq Txs
      BY DEF TypeInv, TypeOK, Records
    <3>6. BlocksAreTrue(blocks) => BlocksAreTrue(blocks)'
      BY <2>1, <3>4, <3>5 DEF BlocksAreTrue, Blocks
    <3>7. TxsAreTrue(txs) => TxsAreTrue(txs)'
      BY <2>1, <3>4, <3>5 DEF TxsAreTrue
    <3> QED BY <3>3, <3>6, <3>7
  <2> QED BY <2>1, <2>2, <2>3, <2>4
<1>10. CASE UNCHANGED vars
  <2>1. UNCHANGED ledger /\ during' = during /\ txs' = txs /\ blocks' = blocks
    BY <1>10, SameHistory DEF vars, clientVars
  <2> QED BY <2>1, HeightKept
<1> QED BY <1>1, <1>2, <1>3, <1>4, <1>5, <1>6, <1>7, <1>8, <1>9, <1>10 DEF Next, Step

LEMMA HeightInit == ASSUME Init PROVE HeightInv
BY EmptyIsTrue DEF Init, HeightInv

(* What a call has built so far has the heights of the server's            *)
(* transactions, and the block objects those of the chain, unless it was   *)
(* reorganized during the call.                                            *)
THEOREM HeightInvHolds == Spec => []HeightInv
BY TypeInvHolds, HeightInit, HeightNext, PTL DEF Spec

(* Merging the transactions of several responses, and their blocks, gives  *)
(* none the height of another, if it ends: unless the chain reorganizes    *)
(* during the call, a confirmed transaction that is returned has the       *)
(* height of its block.                                                    *)
THEOREM ReturnedHeights == Spec => []HeightsAreTrue
<1>1. HeightInv => HeightsAreTrue
  BY DEF HeightInv, HeightsAreTrue, TxsAreTrue
<1> QED BY <1>1, HeightInvHolds, PTL
-----------------------------------------------------------------------------
(***************************************************************************)
(* Calls during which the wallet does not change: the parts of several     *)
(* responses fit together.                                                 *)
(***************************************************************************)

\* The outputs of a transaction that were read, if those of some accounts
\* are left.
OutputsRead(t, left) == {r \in ServerOutputs(t) : AccountOf[r.output] \notin left}

TxsAreExact(built) ==
    \A t \in DOMAIN built :
       place[t] # "none" /\ built[t] = [ServerTx(t) EXCEPT !.outputs = {}]

LocksAreExact(built) ==
    \A t \in DOMAIN built : place[t] = "mined" /\ built[t].isLocked = IsLocked(t)

OutputsAreExact(built, left) ==
    /\ \A t \in DOMAIN built : \A r : r \in built[t].outputs <=> r \in OutputsRead(t, left)
    /\ \A t \in Txs : place[t] = "mined" /\ OutputsRead(t, left) # {} => t \in DOMAIN built

AnswerIsExact(built) ==
    KeepsOutputs =>
        \A t \in DOMAIN built :
            built[t] = [Truth[t] EXCEPT !.outputs = IF NeedsOutputs THEN @ ELSE {}]

FailedAreBare(built) ==
    \A t \in DOMAIN built : built[t].isFailed => ~built[t].isConfirmed /\ built[t].outputs = {}

ExactInv ==
    /\ during = <<>> =>
          /\ stage \in {"accounts", "outputs"} => TxsAreExact(txs)
          /\ LocksAreExact(outputTxs)
          /\ stage = "outputs" /\ BuildsTxs => OutputsAreExact(outputTxs, pending)
          /\ outcome \notin Errors
          /\ outcome = "returned" /\ BuildsTxs => AnswerIsExact(txs)
    /\ outcome = "returned" => FailedAreBare(txs)

LEMMA SameTruth ==
    ASSUME UNCHANGED ledger
    PROVE  /\ Truth' = Truth
           /\ \A t : (ServerTx(t))' = ServerTx(t)
           /\ \A t : (IsLocked(t))' = IsLocked(t)
           /\ \A t : (ServerOutputs(t))' = ServerOutputs(t)
<1>1. top' = top /\ place' = place /\ mined' = mined
  BY SameLedger
<1>2. \A t : (IsLocked(t))' = IsLocked(t)
  BY <1>1 DEF IsLocked
<1>3. \A t : (Confirmations(t))' = Confirmations(t)
  BY <1>1 DEF Confirmations
<1>4. \A t : (ServerOutputs(t))' = ServerOutputs(t)
  BY <1>1 DEF ServerOutputs, IsSpent
<1>5. \A t : (ServerTx(t))' = ServerTx(t)
  BY <1>1, <1>2, <1>3, <1>4 DEF ServerTx
<1>6. Truth' = Truth
  BY <1>1, <1>5 DEF Truth
<1> QED BY <1>2, <1>4, <1>5, <1>6

LEMMA ExactKept ==
    ASSUME UNCHANGED ledger, UNCHANGED call, during' = during,
           during = <<>> =>
              /\ stage' \in {"accounts", "outputs"} => TxsAreExact(txs')
              /\ LocksAreExact(outputTxs')
              /\ stage' = "outputs" /\ BuildsTxs => OutputsAreExact(outputTxs', pending')
              /\ outcome' \notin Errors
              /\ outcome' = "returned" /\ BuildsTxs => AnswerIsExact(txs'),
           outcome' = "returned" => FailedAreBare(txs')
    PROVE  ExactInv'
<1>1. top' = top /\ place' = place /\ mined' = mined
  BY SameLedger
<1>2. BuildsTxs' <=> BuildsTxs
  BY SameCall
<1>3. TxsAreExact(txs') => TxsAreExact(txs)'
  BY <1>1, SameTruth DEF TxsAreExact
<1>4. LocksAreExact(outputTxs') => LocksAreExact(outputTxs)'
  BY <1>1, SameTruth DEF LocksAreExact
<1>5. OutputsAreExact(outputTxs', pending') => OutputsAreExact(outputTxs, pending)'
  <2>1. \A t : OutputsRead(t, pending)' = OutputsRead(t, pending')
    BY SameTruth DEF OutputsRead
  <2> QED BY <1>1, <2>1 DEF OutputsAreExact
<1>6. AnswerIsExact(txs') => AnswerIsExact(txs)'
  <2>1. (KeepsOutputs' <=> KeepsOutputs) /\ (NeedsOutputs' <=> NeedsOutputs)
    BY SameCall DEF KeepsOutputs
  <2>2. Truth' = Truth
    BY SameTruth
  <2> QED BY <2>1, <2>2 DEF AnswerIsExact
<1>7. FailedAreBare(txs') => FailedAreBare(txs)'
  BY DEF FailedAreBare
<1> QED BY <1>2, <1>3, <1>4, <1>5, <1>6, <1>7 DEF ExactInv

LEMMA EmptyIsExact ==
    /\ TxsAreExact(<<>>) /\ LocksAreExact(<<>>) /\ FailedAreBare(<<>>) /\ AnswerIsExact(<<>>)
BY DEF TxsAreExact, LocksAreExact, FailedAreBare, AnswerIsExact

(* The transactions built from transfers.                                  *)
LEMMA TransfersAreExact ==
    ASSUME TypeInv, BuildsTxs
    PROVE  TxsAreExact(TxsFromTransfers)
<1> SUFFICES ASSUME NEW t \in DOMAIN TxsFromTransfers
             PROVE  /\ place[t] # "none"
                    /\ TxsFromTransfers[t] = [ServerTx(t) EXCEPT !.outputs = {}]
  BY DEF TxsAreExact
<1>1. t \in Txs /\ Served(t) /\ TxsFromTransfers[t] = TxFromTransfers(t)
  BY TxsFromTransfersMember
<1>2. TxFromTransfers(t) = [ServerTx(t) EXCEPT !.outputs = {}]
  BY <1>1, TxFromTransfersWhole DEF TransferQuery, TypeInv, TypeOK
<1> QED BY <1>1, <1>2 DEF Served

LEMMA TransfersAreBare == FailedAreBare(TxsFromTransfers)
<1> SUFFICES ASSUME NEW t \in DOMAIN TxsFromTransfers, TxsFromTransfers[t].isFailed
             PROVE  ~TxsFromTransfers[t].isConfirmed /\ TxsFromTransfers[t].outputs = {}
  BY DEF FailedAreBare
<1>1. TxsFromTransfers[t] = TxFromTransfers(t)
  BY TxsFromTransfersMember
<1>2. place[t] = "failed"
  BY <1>1, TxFromTransfersFields, ServerTxFields
<1> QED BY <1>1, <1>2, TxFromTransfersFields, ConfirmedIsMined

LEMMA TruthOf ==
    ASSUME NEW t \in Txs, place[t] # "none"
    PROVE  Truth[t] = ServerTx(t)
BY DEF Truth

LEMMA ExactAnswerOfTransfers ==
    ASSUME TypeInv, ~NeedsOutputs, NEW built, TxsAreExact(built), DOMAIN built \subseteq Txs
    PROVE  AnswerIsExact(built)
<1> SUFFICES ASSUME NEW t \in DOMAIN built
             PROVE  built[t] = [Truth[t] EXCEPT !.outputs = IF NeedsOutputs THEN @ ELSE {}]
  BY DEF AnswerIsExact
<1>1. built[t] = [ServerTx(t) EXCEPT !.outputs = {}] /\ Truth[t] = ServerTx(t)
  BY TruthOf DEF TxsAreExact
<1>2. [Truth[t] EXCEPT !.outputs = IF NeedsOutputs THEN @ ELSE {}] =
         [Truth[t] EXCEPT !.outputs = {}]
  OBVIOUS
<1> QED BY <1>1, <1>2

(* The transactions built from outputs.                                    *)
LEMMA MergedFacts ==
    ASSUME TypeInv, NEW account, NEW seq \in Responses(account), NEW u \in DOMAIN Merged(seq).txs
    PROVE  /\ u \in Txs
           /\ \A r : r \in Merged(seq).txs[u].outputs <=>
                 \/ u \in DOMAIN outputTxs /\ r \in outputTxs[u].outputs
                 \/ /\ place[u] = "mined" /\ r \in ServerOutputs(u)
                    /\ AccountOf[r.output] = account /\ AsksFor(r.isSpent)
           /\ u \in DOMAIN outputTxs => Merged(seq).txs[u].isLocked = outputTxs[u].isLocked
           /\ u \notin DOMAIN outputTxs =>
                 place[u] = "mined" /\ Merged(seq).txs[u].isLocked = IsLocked(u)
<1>1. /\ IsAcc(Merged(seq))
      /\ AreMerged(outputTxs, EntriesOfAccount(account), Merged(seq).txs)
  BY OutputsSoFar, MergedAccount
<1>2. LedgerTypeOK /\ LedgerInv
  BY OutputsSoFar
<1>3. \A e \in EntriesOfAccount(account) :
         place[e.tx] = "mined" /\ e.built.isLocked = IsLocked(e.tx)
  BY <1>2, EntriesType
<1>4. u \in Txs
  BY <1>1 DEF IsAcc, Records
<1>5. \A r : r \in Merged(seq).txs[u].outputs <=>
                \/ u \in DOMAIN outputTxs /\ r \in outputTxs[u].outputs
                \/ \E e \in EntriesOfAccount(account) : e.tx = u /\ r \in e.built.outputs
  BY <1>1 DEF AreMerged
<1>6. \A r : (\E e \in EntriesOfAccount(account) : e.tx = u /\ r \in e.built.outputs) <=>
              /\ place[u] = "mined" /\ r \in ServerOutputs(u)
              /\ AccountOf[r.output] = account /\ AsksFor(r.isSpent)
  BY <1>2, EntriesOutputs
<1>7. u \in DOMAIN outputTxs => Merged(seq).txs[u].isLocked = outputTxs[u].isLocked
  BY <1>1 DEF AreMerged
<1>8. u \notin DOMAIN outputTxs =>
         place[u] = "mined" /\ Merged(seq).txs[u].isLocked = IsLocked(u)
  BY <1>1, <1>3 DEF AreMerged
<1> QED BY <1>4, <1>5, <1>6, <1>7, <1>8

LEMMA MergedDomain ==
    ASSUME TypeInv, NEW account, NEW seq \in Responses(account), NEW u,
           \/ u \in DOMAIN outputTxs
           \/ \E r \in ServerOutputs(u) :
                 /\ place[u] = "mined" /\ AccountOf[r.output] = account
                 /\ AsksFor(r.isSpent)
    PROVE  u \in DOMAIN Merged(seq).txs
<1>1. AreMerged(outputTxs, EntriesOfAccount(account), Merged(seq).txs)
  BY OutputsSoFar, MergedAccount
<1>2. LedgerTypeOK /\ LedgerInv
  BY OutputsSoFar
<1>3. CASE u \in DOMAIN outputTxs
  BY <1>1, <1>3 DEF AreMerged
<1>4. CASE \E r \in ServerOutputs(u) :
              /\ place[u] = "mined" /\ AccountOf[r.output] = account /\ AsksFor(r.isSpent)
  <2>1. PICK r \in ServerOutputs(u) :
           /\ place[u] = "mined" /\ AccountOf[r.output] = account /\ AsksFor(r.isSpent)
    BY <1>4
  <2>2. \E e \in EntriesOfAccount(account) : e.tx = u /\ r \in e.built.outputs
    BY <1>2, <2>1, EntriesOutputs
  <2> QED BY <1>1, <2>2 DEF AreMerged
<1> QED BY <1>3, <1>4

LEMMA MergedLocks ==
    ASSUME TypeInv, LocksAreExact(outputTxs), NEW account, NEW seq \in Responses(account)
    PROVE  LocksAreExact(Merged(seq).txs)
BY MergedFacts DEF LocksAreExact

LEMMA AsksForAll ==
    ASSUME BuildsTxs
    PROVE  \A isSpent : AsksFor(isSpent)
BY DEF AsksFor, OutputQuery

LEMMA MergedIsExact ==
    ASSUME TypeInv, BuildsTxs, NEW left, OutputsAreExact(outputTxs, left),
           LocksAreExact(outputTxs), NEW account \in left, NEW seq \in Responses(account)
    PROVE  OutputsAreExact(Merged(seq).txs, left \ {account})
<1>0. \A t, r, rest : r \in OutputsRead(t, rest) <=>
                         r \in ServerOutputs(t) /\ AccountOf[r.output] \notin rest
  BY DEF OutputsRead
<1>1. ASSUME NEW u \in DOMAIN Merged(seq).txs, NEW r
      PROVE  r \in Merged(seq).txs[u].outputs <=> r \in OutputsRead(u, left \ {account})
  <2>1. place[u] = "mined" /\ u \in Txs
    BY MergedLocks, MergedFacts DEF LocksAreExact
  <2>2. r \in Merged(seq).txs[u].outputs <=>
           \/ u \in DOMAIN outputTxs /\ r \in outputTxs[u].outputs
           \/ r \in ServerOutputs(u) /\ AccountOf[r.output] = account
    BY <2>1, MergedFacts, AsksForAll
  <2>3. r \in OutputsRead(u, left) => u \in DOMAIN outputTxs /\ r \in outputTxs[u].outputs
    BY <2>1 DEF OutputsAreExact
  <2>4. u \in DOMAIN outputTxs /\ r \in outputTxs[u].outputs => r \in OutputsRead(u, left)
    BY DEF OutputsAreExact
  <2>5. r \in OutputsRead(u, left \ {account}) <=>
           \/ r \in OutputsRead(u, left)
           \/ r \in ServerOutputs(u) /\ AccountOf[r.output] = account
    BY <1>0
  <2> QED BY <2>2, <2>3, <2>4, <2>5
<1>2. ASSUME NEW t \in Txs, place[t] = "mined", OutputsRead(t, left \ {account}) # {}
      PROVE  t \in DOMAIN Merged(seq).txs
  <2>1. PICK r : r \in OutputsRead(t, left \ {account})
    BY <1>2
  <2>2. CASE AccountOf[r.output] = account
    <3>1. r \in ServerOutputs(t) /\ AsksFor(r.isSpent)
      BY <1>0, <2>1, AsksForAll
    <3> QED BY <1>2, <2>2, <3>1, MergedDomain
  <2>3. CASE AccountOf[r.output] # account
    <3>1. r \in OutputsRead(t, left)
      BY <1>0, <2>1, <2>3
    <3>2. t \in DOMAIN outputTxs
      BY <1>2, <3>1 DEF OutputsAreExact
    <3> QED BY <3>2, MergedDomain
  <2> QED BY <2>2, <2>3
<1> QED BY <1>1, <1>2 DEF OutputsAreExact

(* A transaction built from outputs meets what is left of the query if the *)
(* transaction built from transfers does.                                  *)
LEMMA OutputTxMeets ==
    ASSUME query \in Queries, KeepsOutputs, NeedsOutputs, NEW t,
           NEW a, a.isConfirmed = TRUE, a.inTxPool = FALSE, a.isFailed = FALSE,
           NEW b, b.isConfirmed = TRUE, b.isFailed = FALSE,
           a.isLocked = b.isLocked, a.height = b.height, TxMeets(AuxQuery, t, a)
    PROVE  TxMeets(AuxQuery, t, b)
<1>1. AuxQuery \in Queries /\ AuxQuery.inTxPool # FALSE
      /\ AuxQuery.isIncoming = Null /\ AuxQuery.isOutgoing = Null
  BY AuxQueryFields DEF KeepsOutputs
<1>2. AuxQuery.inTxPool \in BOOLEAN \cup {Null}
  BY <1>1 DEF Queries, Criterion
<1>3. AuxQuery.inTxPool = Null
  BY <1>1, <1>2 DEF TxMeets, Allows
<1> QED BY <1>1, <1>3 DEF TxMeets, Allows

LEMMA QuietAnswer ==
    ASSUME TypeInv, stage = "outputs", BuildsTxs, BlocksAreTrue(blocks), TxsAreTrue(txs),
           TxsAreExact(txs), LocksAreExact(outputTxs), OutputsAreExact(outputTxs, pending),
           NEW account, NEW seq \in Responses(account), NEW order \in Orders(seq),
           pending = {account}, KeepsOutputs,
           NEW t \in DOMAIN All(seq, order)
    PROVE  place[t] # "none" /\ All(seq, order)[t] = ServerTx(t)
<1>1. /\ t \in DOMAIN txs /\ t \in Txs /\ txs[t] \in TxRecords
      /\ HasTransfersOnly(txs[t]) /\ TxMeets(AuxQuery, t, txs[t])
      /\ t \in DOMAIN With(seq) =>
            /\ place[t] = "mined" /\ mined[t] \in Heights
            /\ With(seq)[t] \in TxRecords
            /\ IsOutputTx(With(seq)[t])
            /\ All(seq, order)[t] = Combined(txs[t], With(seq)[t], mined[t])
      /\ t \notin DOMAIN With(seq) => All(seq, order)[t] = txs[t]
  BY AllMember
<1>2. place[t] # "none" /\ txs[t] = [ServerTx(t) EXCEPT !.outputs = {}]
  BY <1>1 DEF TxsAreExact
<1>3. NeedsOutputs /\ query \in Queries
  BY CallQuery DEF TypeInv, StageInv
<1>4. LedgerTypeOK /\ LedgerInv
  BY OutputsSoFar
<1>5. ServerTx(t) \in TxRecords
  BY <1>1, <1>4, ServerTxType
<1>6. OutputsAreExact(Merged(seq).txs, {}) /\ LocksAreExact(Merged(seq).txs)
  <2>1. pending \ {account} = {} /\ account \in pending
    OBVIOUS
  <2> QED BY <2>1, MergedIsExact, MergedLocks
<1>7. \A r : r \in OutputsRead(t, {}) <=> r \in ServerOutputs(t)
  BY DEF OutputsRead
<1>8. DOMAIN Final(seq) = DOMAIN Merged(seq).txs
  BY OutputsSoFar, FinalType
<1>9. t \in DOMAIN Final(seq) =>
         /\ Final(seq)[t].outputs = Merged(seq).txs[t].outputs
         /\ Final(seq)[t].isLocked = Merged(seq).txs[t].isLocked
         /\ place[t] = "mined" /\ Final(seq)[t].height = mined[t]
         /\ IsOutputTx(Final(seq)[t])
  BY OutputsSoFar, FinalType
<1>10. CASE t \in DOMAIN With(seq)
  <2>1. t \in DOMAIN Final(seq) /\ With(seq)[t] = Final(seq)[t]
    BY <1>10, WithMember
  <2>2. With(seq)[t].outputs = ServerOutputs(t)
    <3>1. \A r : r \in With(seq)[t].outputs <=> r \in ServerOutputs(t)
      BY <1>6, <1>7, <1>8, <1>9, <2>1 DEF OutputsAreExact
    <3>2. With(seq)[t].outputs \in SUBSET [output : Outputs, isSpent : BOOLEAN]
      BY <1>1, <1>10 DEF TxRecords
    <3> QED BY <3>1, <3>2
  <2> SUFFICES ASSUME NEW a, a = txs[t], NEW s, s = ServerTx(t), NEW b, b = With(seq)[t],
                      NEW h, h = mined[t], NEW c, c = Combined(a, b, h)
               PROVE  c = s
    BY <1>1, <1>2, <1>10
  <2>3. /\ a \in TxRecords /\ s \in TxRecords /\ b \in TxRecords
        /\ h \in Heights /\ place[t] = "mined"
    BY <1>1, <1>5, <1>10
  <2>4. /\ s.isConfirmed = TRUE /\ s.inTxPool = FALSE /\ s.height = h
        /\ s.outputs = b.outputs
    BY <2>2, <2>3, ServerTxFields
  <2>5. /\ a.isFailed = s.isFailed /\ a.isLocked = s.isLocked
        /\ a.confirmations = s.confirmations
        /\ a.incoming = s.incoming /\ a.outgoing = s.outgoing
    BY <1>2, <2>3, WithoutOutputsFields
  <2>6. /\ c \in TxRecords
        /\ c.isConfirmed = TRUE /\ c.inTxPool = FALSE
        /\ c.isFailed = a.isFailed /\ c.isLocked = a.isLocked
        /\ c.confirmations = a.confirmations /\ c.height = h
        /\ c.incoming = a.incoming /\ c.outgoing = a.outgoing /\ c.outputs = b.outputs
    BY <2>3 DEF TxRecords, Combined, Criterion
  <2>7. c.isConfirmed = s.isConfirmed /\ c.inTxPool = s.inTxPool
    BY <2>3, <2>4, <2>6 DEF TxRecords, Criterion
  <2> QED BY <2>3, <2>4, <2>5, <2>6, <2>7, TxEquality
<1>11. CASE t \notin DOMAIN With(seq)
  <2>1. ASSUME place[t] = "mined", ServerOutputs(t) # {}
        PROVE  FALSE
    <3>1. OutputsRead(t, {}) # {}
      BY <1>7, <2>1
    <3>2. t \in DOMAIN Final(seq)
      BY <1>1, <1>6, <1>8, <2>1, <3>1 DEF OutputsAreExact
    <3>3. Final(seq)[t].isLocked = IsLocked(t)
      BY <1>6, <1>8, <1>9, <3>2 DEF LocksAreExact
    <3> DEFINE a == txs[t]
               b == Final(seq)[t]
    <3>4. /\ ServerTx(t).isConfirmed = TRUE /\ ServerTx(t).inTxPool = FALSE
          /\ ServerTx(t).isFailed = FALSE /\ ServerTx(t).isLocked = IsLocked(t)
          /\ ServerTx(t).height = mined[t]
      BY <2>1, <1>5, ServerTxFields DEF TxRecords
    <3>5. /\ a.isConfirmed = TRUE /\ a.inTxPool = FALSE /\ a.isFailed = FALSE
          /\ a.isLocked = IsLocked(t) /\ a.height = mined[t]
      BY <1>2, <1>5, <3>4 DEF TxRecords
    <3>6. b.isConfirmed = TRUE /\ b.isFailed = FALSE /\ b.isLocked = IsLocked(t)
          /\ b.height = mined[t]
      BY <1>9, <3>2, <3>3 DEF IsOutputTx
    <3>7. TxMeets(AuxQuery, t, a)
      BY <1>1
    <3> HIDE DEF a, b
    <3>8. TxMeets(AuxQuery, t, b)
      BY <1>3, <3>5, <3>6, <3>7, OutputTxMeets
    <3> QED BY <1>11, <3>2, <3>8, WithMember DEF b
  <2>2. ServerTx(t).outputs = {}
    BY <2>1, ServerTxFields
  <2>3. txs[t] = ServerTx(t)
    <3>1. [ServerTx(t) EXCEPT !.outputs = {}] = ServerTx(t)
      BY <1>5, <2>2 DEF TxRecords
    <3> QED BY <1>2, <3>1
  <2> QED BY <1>1, <1>2, <1>11, <2>3
<1> QED BY <1>10, <1>11

(* Merging the outputs ends well: nothing contradicts itself, and only the *)
(* transactions of the responses are in the blocks.                        *)
LEMMA MergesQuietly ==
    ASSUME TypeInv, LocksAreExact(outputTxs), NEW account, NEW seq \in Responses(account)
    PROVE  Merged(seq).error = "none"
<1>1. /\ LedgerTypeOK /\ LedgerInv /\ OutputTxs(outputTxs) /\ OfTransfersOnly(blocks)
  BY OutputsSoFar
<1>2. \A u \in DOMAIN outputTxs : FlagsAreTrue(u, outputTxs[u])
  BY <1>1 DEF LocksAreExact, OutputTxs, IsOutputTx, FlagsAreTrue
<1>3. /\ IsFiniteSet(EntriesOfAccount(account))
      /\ \A e \in EntriesOfAccount(account) : FlagsAreTrue(e.tx, e.built)
  BY <1>1, EntriesType DEF FlagsAreTrue
<1> QED BY <1>1, <1>2, <1>3, MergeAllOfTransfersOnly DEF Merged, Responses

\* The transactions with outputs are locked like those they were merged into.
LEMMA WithLocks ==
    ASSUME TypeInv, NEW account, NEW seq \in Responses(account), NEW t \in DOMAIN With(seq)
    PROVE  /\ t \in DOMAIN Merged(seq).txs
           /\ With(seq)[t].isLocked = Merged(seq).txs[t].isLocked
           /\ With(seq)[t].outputs = Merged(seq).txs[t].outputs
           /\ With(seq)[t] \in TxRecords /\ With(seq)[t].isFailed = FALSE
<1>1. t \in DOMAIN Final(seq) /\ With(seq)[t] = Final(seq)[t]
  BY WithMember
<1>2. With(seq)[t] \in TxRecords /\ With(seq)[t].isFailed = FALSE
  BY WithType DEF Records, IsOutputTx
<1> QED BY <1>1, <1>2, OutputsSoFar, FinalType

\* The transactions with transfers agree with the ledger on flags and heights.
LEMMA ExactFlags ==
    ASSUME TypeInv, TxsAreExact(txs), NEW t \in DOMAIN txs
    PROVE  /\ FlagsAreTrue(t, txs[t])
           /\ place[t] = "mined" => txs[t].height = mined[t] /\ mined[t] # Null
<1>1. LedgerTypeOK /\ LedgerInv /\ t \in Txs
  BY DEF TypeInv, TypeOK, Records
<1>2. ServerTx(t) \in TxRecords /\ txs[t] = [ServerTx(t) EXCEPT !.outputs = {}]
  BY <1>1, ServerTxType DEF TxsAreExact
<1>3. FlagsAreTrue(t, ServerTx(t)) /\ (place[t] = "mined" => ServerTx(t).height = mined[t])
  BY DEF ServerTx, FlagsAreTrue
<1>4. /\ txs[t].isFailed = ServerTx(t).isFailed /\ txs[t].isLocked = ServerTx(t).isLocked
      /\ txs[t].height = ServerTx(t).height
  BY <1>2 DEF TxRecords
<1> QED BY <1>1, <1>3, <1>4, MinedInHeights DEF FlagsAreTrue

\* Merging the transactions with outputs fails where merging them one by one does.
LEMMA CombinationError ==
    ASSUME NEW seq, NEW order
    PROVE  Combination(seq, order).error =
              MergeAll(TRUE, txs, BlocksOf(txs) \cup TheirBlocks(With(seq), Merged(seq).blocks),
                       order).error
BY DEF Combination, MergeOutputTxs, TheirBlocks

(* Merging the transactions with outputs into those with transfers, whose  *)
(* blocks are known and have them already, ends well too.                  *)
LEMMA CombinesQuietly ==
    ASSUME TypeInv, stage = "outputs", BlocksAreTrue(blocks), TxsAreTrue(txs),
           TxsAreExact(txs), LocksAreExact(outputTxs),
           NEW account, NEW seq \in Responses(account), NEW order \in Orders(seq)
    PROVE  Combination(seq, order).error = "none"
<1> DEFINE with == With(seq)
           theirs == TheirBlocks(with, Merged(seq).blocks)
           all == BlocksOf(txs) \cup theirs
           set == EntriesOf(with)
<1>1. Combination(seq, order).error = MergeAll(TRUE, txs, all, order).error
  BY CombinationError
<1>2. /\ Records(txs) /\ \A t \in DOMAIN txs : HasTransfersOnly(txs[t])
      /\ \A t \in DOMAIN txs : FlagsAreTrue(t, txs[t])
  BY AllType, ExactFlags
<1>3. /\ Records(with) /\ Merged(seq).blocks \in SUBSET Blocks
      /\ \A t \in DOMAIN with : with[t].height \in Heights
      /\ BlocksAreTrue(Merged(seq).blocks)
  BY WithType, OutputsSoFar, MergedAccount
<1>4. all \in SUBSET Blocks /\ BlocksAreTrue(all)
  <2>1. \A t \in DOMAIN txs :
           txs[t].height # Null => place[t] = "mined" /\ txs[t].height = mined[t]
    BY <1>2 DEF TxsAreTrue, HasTransfersOnly
  <2>2. BlocksAreTrue(BlocksOf(txs)) /\ BlocksAreTrue(theirs)
    BY <1>2, <1>3, <2>1, BlocksOfTrue, TheirBlocksType
  <2>3. BlocksOf(txs) \in SUBSET Blocks /\ theirs \in SUBSET Blocks
    BY <1>2, <1>3, BlocksOfType, TheirBlocksType
  <2> QED BY <2>2, <2>3 DEF BlocksAreTrue
<1>5. BuiltInBlocks(txs, all)
  <2> SUFFICES ASSUME NEW t \in DOMAIN txs, place[t] = "mined"
               PROVE  \E b \in BlocksOf(txs) : t \in b.txs /\ mined[t] \in b.keys
    BY DEF BuiltInBlocks
  <2>1. txs[t].height = mined[t] /\ txs[t].height # Null
    BY ExactFlags
  <2> DEFINE b == [height |-> mined[t], txs |-> {u \in DOMAIN txs : txs[u].height = mined[t]},
                   outputTxs |-> {}, keys |-> {mined[t]}]
  <2>2. b \in BlocksOf(txs) /\ t \in b.txs /\ mined[t] \in b.keys
    BY <2>1 DEF BlocksOf
  <2> QED BY <2>2
<1>6. KnownAsBuilt(txs, all)
  <2>1. \A b \in BlocksOf(txs) : b.outputTxs = {}
    BY DEF BlocksOf
  <2>2. \A b \in theirs : b.keys = {}
    BY <1>3 DEF TheirBlocks, Blocks
  <2> QED BY <2>1, <2>2 DEF KnownAsBuilt
<1>7. /\ IsFiniteSet(set)
      /\ \A e \in set : IsEntry(e) /\ e.tx \in DOMAIN with /\ e.built = with[e.tx]
  BY <1>3, EntriesOfType
<1>8. \A t \in DOMAIN with :
         place[t] = "mined" /\ mined[t] = with[t].height /\ FlagsAreTrue(t, with[t])
  <2> SUFFICES ASSUME NEW t \in DOMAIN with
               PROVE  place[t] = "mined" /\ mined[t] = with[t].height /\ FlagsAreTrue(t, with[t])
    OBVIOUS
  <2>1. place[t] = "mined" /\ mined[t] = with[t].height
    BY WithIsTrue
  <2>2. with[t].isLocked = IsLocked(t) /\ with[t].isFailed = FALSE
    BY WithLocks, MergedLocks DEF LocksAreExact
  <2> QED BY <2>1, <2>2 DEF FlagsAreTrue
<1>9. order \in SetToSeqs(set)
  BY DEF Orders
<1> HIDE DEF with, theirs, all, set
<1>10. \A e \in set : /\ place[e.tx] = "mined" /\ mined[e.tx] = e.built.height
                      /\ FlagsAreTrue(e.tx, e.built)
  BY <1>7, <1>8
<1>11. MergeAll(TRUE, txs, all, order).error = "none"
  BY <1>2, <1>4, <1>5, <1>6, <1>7, <1>9, <1>10, MergeAllKnown
<1> QED BY <1>1, <1>11

(* A transaction that failed is never returned with outputs.               *)
LEMMA WithIsBare ==
    ASSUME TypeInv, NEW account, NEW seq \in Responses(account)
    PROVE  FailedAreBare(With(seq))
BY WithLocks DEF FailedAreBare

LEMMA AllIsBare ==
    ASSUME TypeInv, stage = "outputs",
           NEW account, NEW seq \in Responses(account), NEW order \in Orders(seq), ~Disagrees(seq)
    PROVE  FailedAreBare(All(seq, order))
<1> SUFFICES ASSUME NEW t \in DOMAIN All(seq, order), All(seq, order)[t].isFailed
             PROVE  ~All(seq, order)[t].isConfirmed /\ All(seq, order)[t].outputs = {}
  BY DEF FailedAreBare
<1>1. /\ t \in DOMAIN txs /\ txs[t] \in TxRecords /\ HasTransfersOnly(txs[t])
      /\ AreCombined(txs, With(seq), All(seq, order))
  BY AllType DEF Records
<1>2. PICK h \in Heights \cup {Null} :
         /\ t \in DOMAIN With(seq) =>
               All(seq, order)[t] = Combined(txs[t], With(seq)[t], h)
         /\ t \notin DOMAIN With(seq) => All(seq, order)[t] = [txs[t] EXCEPT !.height = h]
  BY <1>1 DEF AreCombined
<1>3. CASE t \in DOMAIN With(seq)
  <2>1. With(seq)[t] \in TxRecords /\ With(seq)[t].isFailed = FALSE
    BY <1>3, WithLocks
  <2>2. txs[t].isFailed = With(seq)[t].isFailed
    BY <1>1, <1>3 DEF Disagrees, Reconcilable
  <2>3. All(seq, order)[t].isFailed = txs[t].isFailed
    BY <1>1, <1>2, <1>3, <2>1 DEF Combined, TxRecords
  <2> QED BY <2>1, <2>2, <2>3
<1>4. CASE t \notin DOMAIN With(seq)
  <2>1. /\ All(seq, order)[t].isFailed = txs[t].isFailed
        /\ All(seq, order)[t].isConfirmed = txs[t].isConfirmed
        /\ All(seq, order)[t].outputs = txs[t].outputs
    BY <1>1, <1>2, <1>4 DEF TxRecords
  <2> QED BY <1>1, <2>1 DEF HasTransfersOnly
<1> QED BY <1>3, <1>4

LEMMA AllIsExact ==
    ASSUME TypeInv, stage = "outputs", BuildsTxs, BlocksAreTrue(blocks), TxsAreTrue(txs),
           TxsAreExact(txs), LocksAreExact(outputTxs), OutputsAreExact(outputTxs, pending),
           NEW account, NEW seq \in Responses(account), NEW order \in Orders(seq),
           pending = {account}
    PROVE  AnswerIsExact(All(seq, order))
<1> SUFFICES ASSUME KeepsOutputs, NEW t \in DOMAIN All(seq, order)
             PROVE  All(seq, order)[t] =
                       [Truth[t] EXCEPT !.outputs = IF NeedsOutputs THEN @ ELSE {}]
  BY DEF AnswerIsExact
<1>1. place[t] # "none" /\ All(seq, order)[t] = ServerTx(t)
  BY QuietAnswer
<1>2. t \in Txs /\ NeedsOutputs
  BY AllMember DEF TypeInv, StageInv
<1>3. Truth[t] = ServerTx(t)
  BY <1>1, <1>2, TruthOf
<1>4. [ServerTx(t) EXCEPT !.outputs = IF NeedsOutputs THEN @ ELSE {}] = ServerTx(t)
  <2>1. LedgerTypeOK /\ LedgerInv
    BY OutputsSoFar
  <2>2. ServerTx(t) \in TxRecords
    BY <1>2, <2>1, ServerTxType
  <2> SUFFICES ASSUME NEW s \in TxRecords
               PROVE  [s EXCEPT !.outputs = IF NeedsOutputs THEN @ ELSE {}] = s
    BY <2>2
  <2> QED BY <1>2 DEF TxRecords
<1> QED BY <1>1, <1>3, <1>4

(* The steps.                                                              *)
LEMMA RestrictedIsExact ==
    ASSUME NEW built
    PROVE  /\ AnswerIsExact(built) => AnswerIsExact(Restrict(built, Found(built)))
           /\ FailedAreBare(built) => FailedAreBare(Restrict(built, Found(built)))
BY DEF AnswerIsExact, FailedAreBare, Restrict, Found

LEMMA ExactFinish ==
    ASSUME TypeInv, stage # "idle", UNCHANGED <<ledger, call, connected, history>>,
           NEW built, during = <<>> => AnswerIsExact(built), FailedAreBare(built),
           Finish(built)
    PROVE  ExactInv'
<1>1. UNCHANGED ledger /\ UNCHANGED call /\ during' = during
  BY SameHistory
<1>2. outcome = "none"
  BY DEF TypeInv, StageInv
<1>3. stage' \in {"idle", "inPool", "connect"} /\ outputTxs' = <<>>
  BY FinishCases DEF Throw, Return, TransfersStage
<1>4. \/ outcome' \in {"none", "missing"}
      \/ outcome' = "returned" /\ txs' = Restrict(built, Found(built))
  BY <1>2, FinishCases DEF Throw, Return
<1> QED BY <1>1, <1>3, <1>4, EmptyIsExact, RestrictedIsExact, ExactKept DEF Errors

LEMMA NotReorganized == ASSUME during = <<>> PROVE ~Reorganized
BY DEF Reorganized, ToSet

LEMMA ExactGetTransfers == ASSUME TypeInv, ExactInv, GetTransfers PROVE ExactInv'
<1>1. /\ UNCHANGED <<ledger, call, connected, history>>
      /\ UNCHANGED ledger /\ UNCHANGED call /\ during' = during
      /\ stage = "transfers" /\ outcome = "none" /\ outputTxs = <<>>
  BY SameHistory DEF GetTransfers, TypeInv, StageInv
<1>2. LedgerTypeOK /\ LedgerInv
  BY OutputsSoFar
<1>3. CASE BuildsTxs /\ ~NeedsOutputs /\ Finish(TxsFromTransfers)
  <2>1. DOMAIN TxsFromTransfers \subseteq Txs
    BY TxsFromTransfersMember
  <2>2. AnswerIsExact(TxsFromTransfers)
    BY <1>3, <2>1, TransfersAreExact, ExactAnswerOfTransfers
  <2> QED BY <1>1, <1>3, <2>2, TransfersAreBare, ExactFinish
<1>4. CASE ~BuildsTxs /\ Return(TxsFromTransfers, {})
  <2>1. stage' = "idle" /\ outcome' = "returned" /\ txs' = TxsFromTransfers /\ outputTxs' = <<>>
    BY <1>4 DEF Return
  <2> QED BY <1>1, <1>4, <2>1, EmptyIsExact, TransfersAreBare, ExactKept DEF Errors
<1>5. CASE /\ BuildsTxs /\ stage' = "accounts" /\ txs' = TxsFromTransfers
           /\ UNCHANGED <<collects, outputTxs, blocks, pending, outcome, missing>>
  BY <1>1, <1>5, EmptyIsExact, TransfersAreExact, ExactKept DEF Errors
<1> QED BY <1>3, <1>4, <1>5 DEF GetTransfers

LEMMA ExactGetAccountIndices ==
    ASSUME TypeInv, ExactInv, GetAccountIndices
    PROVE  ExactInv'
<1>1. /\ UNCHANGED ledger /\ UNCHANGED call /\ during' = during
      /\ stage' = "outputs" /\ pending' = Accounts
      /\ outcome' = "none" /\ outputTxs' = <<>> /\ txs' = txs
  BY SameHistory DEF GetAccountIndices, TypeInv, StageInv
<1>2. during = <<>> => TxsAreExact(txs)
  BY DEF ExactInv, GetAccountIndices
<1>3. OutputsAreExact(<<>>, Accounts)
  <2>1. \A t : OutputsRead(t, Accounts) = {}
    <3> SUFFICES ASSUME NEW t, NEW r \in OutputsRead(t, Accounts) PROVE FALSE
      OBVIOUS
    <3>1. r \in ServerOutputs(t) /\ AccountOf[r.output] \notin Accounts
      BY DEF OutputsRead
    <3>2. PICK o \in Outputs : r = [output |-> o, isSpent |-> IsSpent(o)]
      BY <3>1 DEF ServerOutputs
    <3> QED BY <3>1, <3>2, LedgerAssumption
  <2> QED BY <2>1 DEF OutputsAreExact
<1> QED BY <1>1, <1>2, <1>3, EmptyIsExact, ExactKept DEF Errors

LEMMA FailsIsNoReturn ==
    ASSUME NEW error \in {"none"} \cup Errors, Fails(error)
    PROVE  error # "none" /\ outcome' # "returned"
BY DEF Fails, Throw, Errors

LEMMA ExactGetOutputs == ASSUME TypeInv, HeightInv, ExactInv, GetOutputs PROVE ExactInv'
<1> DEFINE account == Min(pending)
<1>1. /\ UNCHANGED <<ledger, call, connected, history>>
      /\ UNCHANGED ledger /\ UNCHANGED call /\ during' = during
      /\ stage = "outputs" /\ outcome = "none"
  BY SameHistory DEF GetOutputs, TypeInv, StageInv
<1>2. during = <<>> =>
         /\ BlocksAreTrue(blocks) /\ TxsAreTrue(txs)
         /\ TxsAreExact(txs) /\ LocksAreExact(outputTxs)
         /\ BuildsTxs => OutputsAreExact(outputTxs, pending)
  BY <1>1, NotReorganized DEF HeightInv, ExactInv
<1>3. account \in pending
  BY <1>1, NextAccount
<1>4. PICK seq \in Responses(account) :
         \/ Fails(Merged(seq).error)
         \/ GoesOn(seq)
         \/ ~BuildsTxs /\ Return(With(seq), {})
         \/ /\ pending = {account} /\ BuildsTxs
            /\ \E order \in Orders(seq) :
                  \/ Fails(Combination(seq, order).error)
                  \/ Combination(seq, order).error = "none" /\ Finish(All(seq, order))
  BY GetOutputsCases
<1>5. ASSUME NEW error \in {"none"} \cup Errors, Fails(error), during = <<>> => error = "none"
      PROVE  ExactInv'
  <2>1. during # <<>> /\ outcome' # "returned"
    BY <1>5, FailsIsNoReturn
  <2> QED BY <1>1, <2>1, ExactKept
<1>6. CASE Fails(Merged(seq).error)
  <2>1. during = <<>> => Merged(seq).error = "none"
    BY <1>2, MergesQuietly
  <2>2. Merged(seq).error \in {"none"} \cup Errors
    BY OutputsSoFar, MergedAccount DEF IsAcc
  <2> QED BY <2>2, <1>5, <1>6, <2>1
<1>7. CASE GoesOn(seq)
  <2>1. during = <<>> => LocksAreExact(Merged(seq).txs)
    BY <1>2, MergedLocks
  <2>2. during = <<>> /\ BuildsTxs => OutputsAreExact(Merged(seq).txs, pending \ {account})
    BY <1>2, <1>3, MergedIsExact
  <2>3. outcome \notin Errors
    BY <1>1 DEF Errors
  <2> QED BY <1>1, <1>2, <1>7, <2>1, <2>2, <2>3, ExactKept DEF GoesOn
<1>8. CASE ~BuildsTxs /\ Return(With(seq), {})
  <2>1. stage' = "idle" /\ outcome' = "returned" /\ txs' = With(seq) /\ outputTxs' = <<>>
    BY <1>8 DEF Return
  <2> QED BY <1>1, <1>8, <2>1, EmptyIsExact, WithIsBare, ExactKept DEF Errors
<1>9. ASSUME pending = {account}, BuildsTxs, NEW order \in Orders(seq),
             \/ Fails(Combination(seq, order).error)
             \/ Combination(seq, order).error = "none" /\ Finish(All(seq, order))
      PROVE  ExactInv'
  <2>1. CASE Fails(Combination(seq, order).error)
    <3>1. during = <<>> => Combination(seq, order).error = "none"
      BY <1>1, <1>2, CombinesQuietly
    <3>2. Combination(seq, order).error \in {"none"} \cup Errors
      BY <1>1, AllType
    <3> QED BY <3>2, <1>5, <2>1, <3>1
  <2>2. CASE Combination(seq, order).error = "none" /\ Finish(All(seq, order))
    <3>1. during = <<>> => AnswerIsExact(All(seq, order))
      BY <1>1, <1>2, <1>9, AllIsExact
    <3>2. FailedAreBare(All(seq, order))
      BY <1>1, <2>2, CombinationAgrees, AllIsBare
    <3> QED BY <1>1, <2>2, <3>1, <3>2, ExactFinish
  <2> QED BY <1>9, <2>1, <2>2
<1> QED BY <1>4, <1>6, <1>7, <1>8, <1>9

LEMMA ExactNext ==
    ASSUME TypeInv, TypeInv', HeightInv, ExactInv, [Next]_vars
    PROVE  ExactInv'
<1>1. CASE Call
  <2>1. txs' = <<>> /\ outputTxs' = <<>> /\ outcome' = "none" /\ stage' # "idle"
    BY <1>1 DEF Call, TypeInv, StageInv, TransfersStage
  <2>2. stage' = "outputs" => ~BuildsTxs'
    BY <1>1 DEF Call, BuildsTxs, TransfersStage
  <2>3. TxsAreExact(txs)' /\ LocksAreExact(outputTxs)'
    BY <2>1 DEF TxsAreExact, LocksAreExact
  <2> QED BY <2>1, <2>2, <2>3 DEF ExactInv, Errors
<1>2. CASE CheckPool
  <2>1. UNCHANGED ledger /\ UNCHANGED call /\ during' = during /\ outputTxs = <<>>
        /\ outcome = "none"
    BY <1>2, SameHistory DEF CheckPool, TypeInv, StageInv
  <2>2. /\ stage' \in {"idle", "connect"} /\ outputTxs' = <<>>
        /\ outcome' \in {"none", "notConnected"}
    BY <1>2, <2>1 DEF CheckPool, Throw
  <2> QED BY <2>1, <2>2, EmptyIsExact, ExactKept DEF Errors
<1>3. CASE Connect
  <2>1. UNCHANGED ledger /\ UNCHANGED call /\ during' = during /\ outputTxs' = <<>>
        /\ outcome' = "none" /\ stage' = "transfers"
    BY <1>3, SameHistory DEF Connect, TypeInv, StageInv
  <2> QED BY <2>1, EmptyIsExact, ExactKept DEF Errors
<1>4. CASE GetTransfers
  BY <1>4, ExactGetTransfers
<1>5. CASE GetAccountIndices
  BY <1>5, ExactGetAccountIndices
<1>6. CASE GetOutputs
  BY <1>6, ExactGetOutputs
<1>7. CASE RequestFails
  <2>1. UNCHANGED ledger /\ UNCHANGED call /\ during' = during /\ outputTxs' = <<>>
        /\ outcome' = "failed" /\ stage' = "idle"
    BY <1>7, SameHistory DEF RequestFails, Throw
  <2> QED BY <2>1, EmptyIsExact, ExactKept DEF Errors
<1>8. CASE Forget
  <2>1. stage' = "idle" /\ outcome' = "none" /\ outputTxs' = <<>>
    BY <1>8 DEF Forget, TypeInv, StageInv
  <2>2. LocksAreExact(outputTxs)'
    BY <2>1 DEF LocksAreExact
  <2> QED BY <2>1, <2>2 DEF ExactInv, Errors
<1>9. CASE Change
  <2>1. outcome' = "none" /\ outputTxs' = outputTxs /\ stage' = stage
        /\ \E what \in {"change", "reorg"} : Watch(what)
    BY <1>9, ChangeCases
  <2>2. CASE stage = "idle"
    <3>1. LocksAreExact(outputTxs)'
      BY <2>1, <2>2 DEF LocksAreExact, TypeInv, StageInv
    <3> QED BY <2>1, <2>2, <3>1 DEF ExactInv, Errors
  <2>3. CASE stage # "idle"
    <3>1. PICK what \in {"change", "reorg"} : during' = Append(during, what)
      BY <2>1, <2>3 DEF Watch
    <3>2. during' # <<>>
      BY <3>1 DEF TypeInv, DuringInv
    <3> QED BY <2>1, <3>2 DEF ExactInv, Errors
  <2> QED BY <2>2, <2>3
<1>10. CASE UNCHANGED vars
  <2>1. UNCHANGED ledger /\ UNCHANGED call /\ during' = during /\ txs' = txs
        /\ outputTxs' = outputTxs /\ stage' = stage /\ pending' = pending /\ outcome' = outcome
    BY <1>10, SameHistory DEF vars, clientVars
  <2> QED BY <2>1, ExactKept DEF ExactInv, Errors
<1> QED BY <1>1, <1>2, <1>3, <1>4, <1>5, <1>6, <1>7, <1>8, <1>9, <1>10 DEF Next, Step

LEMMA ExactInit == ASSUME Init PROVE ExactInv
BY EmptyIsExact DEF Init, ExactInv, Errors

(* As long as the wallet does not change during a call, what the call has  *)
(* built is what the server has of the transactions in the responses.      *)
THEOREM ExactInvHolds == Spec => []ExactInv
BY TypeInvHolds, HeightInvHolds, ExactInit, ExactNext, PTL DEF Spec

(* What getTxs merges from several responses, between which the wallet did *)
(* not change, is what the server has: each transaction with all of its    *)
(* transfers and outputs, and the height of its own block.                 *)
THEOREM QuietAnswers == Spec => []QuietAnswerIsExact
<1>1. ExactInv => QuietAnswerIsExact
  BY DEF ExactInv, QuietAnswerIsExact, AnswerIsExact
<1> QED BY <1>1, ExactInvHolds, PTL

(* The responses contradict each other, or make blocks that merge into     *)
(* each other without end, only if the wallet changed between them; and no *)
(* transaction that failed is returned as confirmed or with outputs, as    *)
(* one merged from before and after a failure would be.                    *)
THEOREM Contradictions == Spec => []ContradictionMeansChange
<1>1. ExactInv => ContradictionMeansChange
  BY DEF ExactInv, ContradictionMeansChange, FailedAreBare
<1> QED BY <1>1, ExactInvHolds, PTL
-----------------------------------------------------------------------------
(***************************************************************************)
(* Calls during which the wallet changes, except by a reorganization: what *)
(* a call puts together is what the server had in some state of the call.  *)
(***************************************************************************)

\* The history knows the state that the server is in.
Present ==
    stage # "idle" =>
        /\ Items(method, query, Truth) \subseteq ever
        /\ always \subseteq Matches(method, query, Truth)

LEMMA PresentNext == ASSUME TypeInv, Present, [Next]_vars PROVE Present'
<1>1. CASE Call
  <2>1. UNCHANGED ledger
    BY <1>1 DEF Call
  <2>2. Truth' = Truth
    BY <2>1, SameTruth
  <2>3. always' = Matches(method', query', Truth) /\ ever' = Items(method', query', Truth)
    BY <1>1 DEF Call
  <2> QED BY <2>2, <2>3 DEF Present
<1>2. CASE Step \/ UNCHANGED vars
  <2>1. UNCHANGED ledger /\ UNCHANGED call /\ UNCHANGED history
    BY <1>2 DEF Step, RequestFails, CheckPool, Connect, GetTransfers, GetAccountIndices,
               GetOutputs, vars, clientVars
  <2>2. stage = "idle" => stage' = "idle"
    BY <1>2 DEF Step, RequestFails, CheckPool, Connect, GetTransfers, GetAccountIndices,
               GetOutputs, vars, clientVars
  <2>3. Truth' = Truth /\ always' = always /\ ever' = ever /\ method' = method /\ query' = query
    BY <2>1, SameTruth, SameHistory, SameCall
  <2> QED BY <2>2, <2>3 DEF Present
<1>3. CASE Forget
  BY <1>3 DEF Forget, Present, TypeInv, StageInv
<1>4. CASE Change
  <2>1. stage' = stage /\ method' = method /\ query' = query
        /\ \E what \in {"change", "reorg"} : Watch(what)
    BY <1>4, ChangeCases, SameCall
  <2>2. CASE stage = "idle"
    BY <2>1, <2>2 DEF Present
  <2>3. CASE stage # "idle"
    <3>1. /\ always' = always \cap Matches(method, query, Truth)'
          /\ ever' = ever \cup Items(method, query, Truth)'
      BY <2>1, <2>3 DEF Watch
    <3> QED BY <3>1 DEF Present
  <2> QED BY <2>2, <2>3
<1> QED BY <1>1, <1>2, <1>3, <1>4 DEF Next

LEMMA PresentInit == ASSUME Init PROVE Present
BY DEF Init, Present

(* What is returned of a transaction.                                      *)
LEMMA ItemsMember ==
    ASSUME method \in Methods, NEW t, NEW tx, NEW item
    PROVE  item \in ItemsOf(method, query, t, tx) <=>
              /\ Meets(query, t, tx)
              /\ method = "getTxs" => item = t
              /\ method = "getTransfers" =>
                    item \in TransfersOf(t, tx) /\ TransferMeets(query.transfer, item)
              /\ method = "getOutputs" => item \in Reasons(query, tx)
<1>1. CASE ~Meets(query, t, tx)
  <2>1. ItemsOf(method, query, t, tx) = {}
    BY <1>1 DEF ItemsOf
  <2> QED BY <1>1, <2>1
<1>2. CASE Meets(query, t, tx) /\ method = "getTxs"
  <2>1. ItemsOf(method, query, t, tx) = {t}
    BY <1>2 DEF ItemsOf
  <2> QED BY <1>2, <2>1
<1>3. CASE Meets(query, t, tx) /\ method = "getTransfers"
  <2>1. ItemsOf(method, query, t, tx) =
           {transfer \in TransfersOf(t, tx) : TransferMeets(query.transfer, transfer)}
    BY <1>3 DEF ItemsOf
  <2> QED BY <1>3, <2>1
<1>4. CASE Meets(query, t, tx) /\ method = "getOutputs"
  <2>1. ItemsOf(method, query, t, tx) = Reasons(query, tx)
    BY <1>4 DEF ItemsOf
  <2> QED BY <1>4, <2>1
<1> QED BY <1>1, <1>2, <1>3, <1>4 DEF Methods

LEMMA ReasonsMember ==
    ASSUME NEW tx, NEW o
    PROVE  /\ query.output = Null => (o \in Reasons(query, tx) <=> o = Null)
           /\ query.output # Null =>
                 (o \in Reasons(query, tx) <=>
                     \E r \in tx.outputs : r.output = o /\ OutputMeets(query.output, r))
BY DEF Reasons

\* Transactions that are told apart at most by their outputs and
\* confirmations.
Alike(a, b) ==
    /\ a.isConfirmed = b.isConfirmed /\ a.inTxPool = b.inTxPool /\ a.isFailed = b.isFailed
    /\ a.isLocked = b.isLocked /\ a.height = b.height
    /\ a.incoming = b.incoming /\ a.outgoing = b.outgoing

LEMMA AlikeMeet ==
    ASSUME NEW t, NEW a, NEW b, Alike(a, b)
    PROVE  /\ \A q : TxMeets(q, t, a) => TxMeets(q, t, b)
           /\ TransfersOf(t, a) = TransfersOf(t, b)
BY DEF Alike, TxMeets, TransfersOf

LEMMA AlikeItems ==
    ASSUME method \in Methods, NEW t, NEW a, NEW b, Alike(a, b), Reasons(query, b) # {},
           NEW item \in ItemsOf(method, query, t, a),
           method = "getOutputs" => item \in Reasons(query, b)
    PROVE  item \in ItemsOf(method, query, t, b)
<1>1. /\ Meets(query, t, a)
      /\ method = "getTxs" => item = t
      /\ method = "getTransfers" =>
            item \in TransfersOf(t, a) /\ TransferMeets(query.transfer, item)
  BY ItemsMember
<1>2. Meets(query, t, b)
  BY <1>1, AlikeMeet DEF Meets
<1> QED BY <1>1, <1>2, AlikeMeet, ItemsMember

LEMMA WithoutOutputsAlike ==
    ASSUME NEW a \in TxRecords, NEW b, b = [a EXCEPT !.outputs = {}]
    PROVE  Alike(a, b) /\ Alike(b, a)
BY WithoutOutputsFields DEF Alike

\* Without a query of outputs, what is returned of a transaction is the same
\* without its outputs.
LEMMA ItemsWithoutOutputs ==
    ASSUME method \in Methods, query.output = Null, method # "getOutputs",
           NEW t, NEW a, NEW b, Alike(a, b)
    PROVE  ItemsOf(method, query, t, a) \subseteq ItemsOf(method, query, t, b)
<1>1. Reasons(query, b) # {}
  BY ReasonsMember
<1> QED BY <1>1, AlikeItems

(* What met the query throughout the call meets it now.                    *)
LEMMA ItemTx ==
    ASSUME TypeInv, stage # "idle", NEW t \in Txs,
           NEW item \in ItemsOf(method, query, t, ServerTx(t))
    PROVE  TxOfItem(item) = t
<1>1. method \in Methods /\ (method = "getOutputs" => query.output # Null)
  BY CallQuery
<1>2. CASE method = "getTxs"
  BY <1>1, <1>2, ItemsMember DEF TxOfItem
<1>3. CASE method = "getTransfers"
  <2>1. item \in TransfersOf(t, ServerTx(t))
    BY <1>1, <1>3, ItemsMember
  <2>2. item.tx = t
    BY <2>1, TransfersOfMember
  <2> QED BY <1>3, <2>2 DEF TxOfItem
<1>4. CASE method = "getOutputs"
  <2>1. PICK r \in ServerTx(t).outputs : r.output = item
    BY <1>1, <1>4, ItemsMember, ReasonsMember
  <2>2. r \in ServerOutputs(t)
    BY <2>1, ServerTxFields
  <2>3. TxOf[item] = t
    BY <2>1, <2>2 DEF ServerOutputs
  <2> QED BY <1>4, <2>3 DEF TxOfItem
<1> QED BY <1>1, <1>2, <1>3, <1>4 DEF Methods

LEMMA LastingMatch ==
    ASSUME TypeInv, Present, stage # "idle", NEW match \in always,
           NEW t, t = TxOfItem(match[1])
    PROVE  /\ t \in Txs /\ place[t] # "none"
           /\ match[1] \in ItemsOf(method, query, t, ServerTx(t))
           /\ match[2] \in Reasons(query, ServerTx(t))
           /\ Meets(query, t, ServerTx(t))
<1>1. match \in Matches(method, query, Truth)
  BY DEF Present
<1>2. PICK u \in DOMAIN Truth :
         match \in ItemsOf(method, query, u, Truth[u]) \X Reasons(query, Truth[u])
  BY <1>1 DEF Matches
<1>3. u \in Txs /\ place[u] # "none"
  BY DEF Truth
<1>4. Truth[u] = ServerTx(u)
  BY <1>3, TruthOf
<1>5. /\ match[1] \in ItemsOf(method, query, u, ServerTx(u))
      /\ match[2] \in Reasons(query, ServerTx(u))
  BY <1>2, <1>4
<1>6. u = t
  BY <1>3, <1>5, ItemTx
<1>7. Meets(query, t, ServerTx(t))
  BY <1>5, <1>6, ItemsMember, CallQuery
<1> QED BY <1>3, <1>5, <1>6, <1>7

\* The outputs for which it does.
LastingOutputs(match) == {match[2]} \cup IF method = "getOutputs" THEN {match[1]} ELSE {}

LEMMA LastingOutput ==
    ASSUME TypeInv, Present, stage # "idle", query.output # Null,
           NEW match \in always, NEW t, t = TxOfItem(match[1]), NEW o \in LastingOutputs(match)
    PROVE  /\ place[t] = "mined" /\ o \in Outputs
           /\ \E r \in ServerOutputs(t) : r.output = o /\ OutputMeets(query.output, r)
<1>1. /\ t \in Txs
      /\ match[1] \in ItemsOf(method, query, t, ServerTx(t))
      /\ match[2] \in Reasons(query, ServerTx(t))
  BY LastingMatch
<1>2. o \in Reasons(query, ServerTx(t))
  BY <1>1, CallQuery, ItemsMember DEF LastingOutputs
<1>3. PICK r \in ServerTx(t).outputs : r.output = o /\ OutputMeets(query.output, r)
  BY <1>2, ReasonsMember
<1>4. place[t] = "mined" /\ r \in ServerOutputs(t)
  BY <1>3, ServerTxFields
<1>5. o \in Outputs
  BY <1>3, <1>4 DEF ServerOutputs
<1> QED BY <1>3, <1>4, <1>5

(* A transaction as it was in a state of the call, except for the fields   *)
(* that no query looks at.                                                 *)
Seen(t, tx) ==
    /\ tx.outgoing = Outgoing[t]
    /\ ~tx.isFailed => tx.incoming = Incoming[t]
    /\ tx.isConfirmed =>
          /\ tx.isFailed = FALSE /\ tx.inTxPool = FALSE
          /\ place[t] = "mined" /\ tx.height = mined[t]
    /\ ItemsOf(method, query, t, tx) \subseteq ever
    /\ \A match \in always :
          TxOfItem(match[1]) = t =>
             match[1] \in ItemsOf(method, query, t, tx) /\ match[2] \in Reasons(query, tx)

LEMMA SeenNow ==
    ASSUME TypeInv, Present, stage # "idle", NEW t \in Txs, place[t] # "none"
    PROVE  Seen(t, ServerTx(t))
<1>1. LedgerTypeOK /\ LedgerInv
  BY OutputsSoFar
<1>2. ServerTx(t) \in TxRecords
  BY <1>1, ServerTxType
<1>3. ItemsOf(method, query, t, ServerTx(t)) \subseteq ever
  <2>1. t \in DOMAIN Truth /\ Truth[t] = ServerTx(t)
    BY TruthOf DEF Truth
  <2>2. ItemsOf(method, query, t, Truth[t]) \subseteq Items(method, query, Truth)
    BY <2>1 DEF Items
  <2> QED BY <2>1, <2>2 DEF Present
<1>4. \A match \in always :
         TxOfItem(match[1]) = t =>
            /\ match[1] \in ItemsOf(method, query, t, ServerTx(t))
            /\ match[2] \in Reasons(query, ServerTx(t))
  BY LastingMatch
<1>5. /\ ServerTx(t).outgoing = Outgoing[t]
      /\ ~ServerTx(t).isFailed => ServerTx(t).incoming = Incoming[t]
  BY ServerTxFields
<1>6. ASSUME ServerTx(t).isConfirmed
      PROVE  /\ ServerTx(t).isFailed = FALSE /\ ServerTx(t).inTxPool = FALSE
             /\ place[t] = "mined" /\ ServerTx(t).height = mined[t]
  <2>1. place[t] = "mined"
    BY <1>6, ServerTxFields
  <2> QED BY <1>2, <2>1, ServerTxFields DEF TxRecords
<1> QED BY <1>3, <1>4, <1>5, <1>6 DEF Seen

(* What a call has put together so far.                                    *)
TxsWereSeen(built) ==
    \A t \in DOMAIN built :
       \E tx \in TxRecords : Seen(t, tx) /\ built[t] = [tx EXCEPT !.outputs = {}]

LastingAreBuilt(built) == \A match \in always : TxOfItem(match[1]) \in DOMAIN built

\* A transaction is locked as it was when any of its outputs was read.
SeenWith(t, tx, isLocked, r) ==
    Seen(t, tx) /\ tx.isConfirmed = TRUE /\ tx.isLocked = isLocked /\ r \in tx.outputs

OutputsWereSeen(built) ==
    \A t \in DOMAIN built : \A r \in built[t].outputs :
       \E tx \in TxRecords : SeenWith(t, tx, built[t].isLocked, r)

LastingAreRead(built, left) ==
    query.output # Null =>
        \A match \in always : \A o \in LastingOutputs(match) :
           AccountOf[o] \notin left =>
              /\ TxOfItem(match[1]) \in DOMAIN built
              /\ \E r \in built[TxOfItem(match[1])].outputs :
                    r.output = o /\ OutputMeets(query.output, r)

CurrentInv ==
    /\ ~Reorganized =>
          /\ stage \in {"accounts", "outputs"} /\ BuildsTxs =>
                TxsWereSeen(txs) /\ (connected => LastingAreBuilt(txs))
          /\ stage = "outputs" =>
                OutputsWereSeen(outputTxs) /\ LastingAreRead(outputTxs, pending)
    /\ AnswerIsCurrent

(* They remain so when the client takes a step, or the wallet changes.     *)
LEMMA SeenStays ==
    ASSUME method' = method, query' = query, always' \subseteq always, ever \subseteq ever',
           NEW t, NEW tx, Seen(t, tx),
           place[t] = "mined" => place'[t] = "mined" /\ mined'[t] = mined[t]
    PROVE  Seen(t, tx)'
<1>1. \A item : TxOfItem(item)' = TxOfItem(item)
  BY DEF TxOfItem
<1>2. \A match \in always' :
         TxOfItem(match[1])' = t =>
            /\ match[1] \in ItemsOf(method, query, t, tx)
            /\ match[2] \in Reasons(query, tx)
  BY <1>1 DEF Seen
<1>3. ItemsOf(method, query, t, tx) \subseteq ever'
  BY DEF Seen
<1>4. tx.isConfirmed =>
          /\ tx.isFailed = FALSE /\ tx.inTxPool = FALSE
          /\ place'[t] = "mined" /\ tx.height = mined'[t]
  BY DEF Seen
<1>5. tx.outgoing = Outgoing[t] /\ (~tx.isFailed => tx.incoming = Incoming[t])
  BY DEF Seen
<1> QED BY <1>1, <1>2, <1>3, <1>4, <1>5 DEF Seen

LEMMA SeenStay ==
    ASSUME method' = method, query' = query, always' \subseteq always, ever \subseteq ever',
           \A t \in Txs :
              place[t] = "mined" => place'[t] = "mined" /\ mined'[t] = mined[t],
           NEW built, DOMAIN built \subseteq Txs, built' = built, NEW left, left' = left
    PROVE  /\ TxsWereSeen(built) => TxsWereSeen(built)'
           /\ LastingAreBuilt(built) => LastingAreBuilt(built)'
           /\ OutputsWereSeen(built) => OutputsWereSeen(built)'
           /\ LastingAreRead(built, left) => LastingAreRead(built, left)'
<1>1. \A t \in DOMAIN built : \A tx : Seen(t, tx) => Seen(t, tx)'
  BY SeenStays
<1>2. TxsWereSeen(built) => TxsWereSeen(built)'
  BY <1>1 DEF TxsWereSeen
<1>3. OutputsWereSeen(built) => OutputsWereSeen(built)'
  BY <1>1 DEF OutputsWereSeen, SeenWith
<1>4. \A item : TxOfItem(item)' = TxOfItem(item)
  BY DEF TxOfItem
<1>5. LastingAreBuilt(built) => LastingAreBuilt(built)'
  BY <1>4 DEF LastingAreBuilt
<1>6. \A match : LastingOutputs(match)' = LastingOutputs(match)
  BY DEF LastingOutputs
<1>7. LastingAreRead(built, left) => LastingAreRead(built, left)'
  BY <1>4, <1>6 DEF LastingAreRead
<1> QED BY <1>2, <1>3, <1>5, <1>7

\* A step of the client: the wallet does not change.
LEMMA CurrentKept ==
    ASSUME UNCHANGED ledger, UNCHANGED call, UNCHANGED history,
           stage' # "idle", outcome' = "none",
           Records(txs'), Records(outputTxs'),
           ~Reorganized =>
              /\ stage' \in {"accounts", "outputs"} /\ BuildsTxs =>
                    TxsWereSeen(txs') /\ (connected' => LastingAreBuilt(txs'))
              /\ stage' = "outputs" =>
                    OutputsWereSeen(outputTxs') /\ LastingAreRead(outputTxs', pending')
    PROVE  CurrentInv'
<1>1. place' = place /\ mined' = mined /\ method' = method /\ query' = query
      /\ always' = always /\ ever' = ever /\ (Reorganized' <=> Reorganized)
      /\ (BuildsTxs' <=> BuildsTxs)
  BY SameLedger, SameCall, SameHistory DEF Reorganized
<1>2. \A t, tx : Seen(t, tx) => Seen(t, tx)'
  BY <1>1, SeenStays
<1>3. TxsWereSeen(txs') => TxsWereSeen(txs)'
  BY <1>2 DEF TxsWereSeen
<1>4. OutputsWereSeen(outputTxs') => OutputsWereSeen(outputTxs)'
  BY <1>2 DEF OutputsWereSeen, SeenWith
<1>5. \A item : TxOfItem(item)' = TxOfItem(item)
  BY <1>1 DEF TxOfItem
<1>6. LastingAreBuilt(txs') => LastingAreBuilt(txs)'
  BY <1>1, <1>5 DEF LastingAreBuilt
<1>7. \A match : LastingOutputs(match)' = LastingOutputs(match)
  BY <1>1 DEF LastingOutputs
<1>8. LastingAreRead(outputTxs', pending') => LastingAreRead(outputTxs, pending)'
  BY <1>1, <1>5, <1>7 DEF LastingAreRead
<1>9. AnswerIsCurrent'
  BY DEF AnswerIsCurrent
<1> QED BY <1>1, <1>3, <1>4, <1>6, <1>8, <1>9 DEF CurrentInv

(* The end of a call.  The transactions that it has put together fit the   *)
(* history: they give nothing that never met the query, and everything     *)
(* that always did.                                                        *)
Fits(built) ==
    /\ \A t \in DOMAIN built : ItemsOf(method, query, t, built[t]) \subseteq ever
    /\ \A match \in always :
          /\ TxOfItem(match[1]) \in DOMAIN built
          /\ match[1] \in ItemsOf(method, query, TxOfItem(match[1]), built[TxOfItem(match[1])])

\* What the answer is required to be.
Judged == (UsesTransfers => connected) /\ KeepsOutputs /\ ~Reorganized

LEMMA ReturnFits ==
    ASSUME UNCHANGED <<ledger, call, connected, history>>,
           NEW built, NEW notFound, Judged => Fits(built), Return(built, notFound)
    PROVE  CurrentInv'
<1>1. /\ method' = method /\ query' = query /\ always' = always /\ ever' = ever
      /\ connected' = connected
      /\ (UsesTransfers' <=> UsesTransfers) /\ (KeepsOutputs' <=> KeepsOutputs)
      /\ (Reorganized' <=> Reorganized)
  BY SameCall, SameHistory DEF KeepsOutputs, Reorganized
<1>2. stage' = "idle" /\ outcome' = "returned" /\ txs' = built
  BY DEF Return
<1>3. ASSUME Fits(built)
      PROVE  Lasting' \subseteq Answer' /\ Answer' \ {Null} \subseteq ever'
  <2>1. Items(method, query, built) \subseteq ever
    BY <1>3 DEF Fits, Items
  <2>2. \A match \in always : match[1] \in Items(method, query, built)
    BY <1>3 DEF Fits, Items
  <2>3. Answer' = Items(method, query, built) \cup IF missing' = {} THEN {} ELSE {Null}
    BY <1>1, <1>2 DEF Answer
  <2> QED BY <1>1, <2>1, <2>2, <2>3 DEF Lasting
<1>4. AnswerIsCurrent'
  BY <1>1, <1>2, <1>3 DEF AnswerIsCurrent, Judged
<1> QED BY <1>2, <1>4 DEF CurrentInv

LEMMA FinishFits ==
    ASSUME TypeInv, TypeInv', stage # "idle", UNCHANGED <<ledger, call, connected, history>>,
           NEW built, Judged => Fits(built), Finish(built)
    PROVE  CurrentInv'
<1>1. method \in Methods
  BY CallQuery
<1>2. ASSUME Fits(built), NEW match \in always
      PROVE  TxOfItem(match[1]) \in Found(built)
  BY <1>1, <1>2, ItemsMember DEF Fits, Found
<1>3. CASE Throw("missing", Lost(built))
  <2>1. /\ method' = method /\ query' = query /\ always' = always
        /\ connected' = connected
        /\ (UsesTransfers' <=> UsesTransfers) /\ (KeepsOutputs' <=> KeepsOutputs)
        /\ (Reorganized' <=> Reorganized)
    BY SameCall, SameHistory DEF KeepsOutputs, Reorganized
  <2>2. stage' = "idle" /\ outcome' = "missing" /\ missing' = Lost(built)
    BY <1>3 DEF Throw
  <2>3. ASSUME Fits(built), NEW item \in Lasting
        PROVE  TxOfItem(item) \notin Lost(built)
    BY <1>2, <2>3 DEF Lasting, Lost
  <2>4. \A item : TxOfItem(item)' = TxOfItem(item)
    BY <2>1 DEF TxOfItem
  <2>5. Lasting' = Lasting
    BY <2>1 DEF Lasting
  <2>6. AnswerIsCurrent'
    BY <2>1, <2>2, <2>3, <2>4, <2>5 DEF AnswerIsCurrent, Judged
  <2> QED BY <2>2, <2>6 DEF CurrentInv
<1>4. CASE /\ stage' = TransfersStage(query) /\ UNCHANGED <<pending, outcome>>
  <2>1. stage' \in {"inPool", "connect"} /\ outcome' = "none"
    BY <1>4 DEF TransfersStage, TypeInv, StageInv
  <2> QED BY <2>1 DEF CurrentInv, AnswerIsCurrent
<1>5. CASE Return(Restrict(built, Found(built)), Lost(built))
  <2>1. ASSUME Fits(built)
        PROVE  Fits(Restrict(built, Found(built)))
    <3> DEFINE found == Found(built)
    <3>1. found \subseteq DOMAIN built
      BY DEF Found
    <3>2. /\ DOMAIN Restrict(built, found) = found
          /\ \A t \in found : Restrict(built, found)[t] = built[t]
      BY DEF Restrict
    <3> HIDE DEF found
    <3> QED BY <1>2, <2>1, <3>1, <3>2 DEF Fits, found
  <2> QED BY <1>5, <2>1, ReturnFits
<1> QED BY <1>3, <1>4, <1>5, FinishCases

LEMMA EndIsCurrent ==
    ASSUME stage' = "idle", outcome' \notin {"returned", "missing"}
    PROVE  CurrentInv'
BY DEF CurrentInv, AnswerIsCurrent

(* The transactions of get_transfers.                                      *)
LEMMA ServedIfTxMeets ==
    ASSUME TypeInv, connected, query \in Queries, NEW t \in Txs, place[t] # "none",
           TxMeets(query, t, ServerTx(t))
    PROVE  Served(t)
<1> DEFINE s == ServerTx(t)
<1>1. LedgerTypeOK /\ LedgerInv
  BY OutputsSoFar
<1>2. TxMeets(query, t, s)
  OBVIOUS
<1>3. Null \notin BOOLEAN
  BY LedgerAssumption
<1>4. /\ s.isConfirmed = (place[t] = "mined") /\ s.inTxPool = (place[t] = "pool")
      /\ s.isFailed = (place[t] = "failed")
      /\ s.height = IF place[t] = "mined" THEN mined[t] ELSE Null
  BY DEF ServerTx
<1>5. /\ query.isConfirmed \in {Null, place[t] = "mined"}
      /\ query.inTxPool \in {Null, place[t] = "pool"}
      /\ query.isFailed \in {Null, place[t] = "failed"}
      /\ query.minHeight # Null => s.height # Null /\ s.height >= query.minHeight
      /\ query.maxHeight # Null => s.height # Null /\ s.height <= query.maxHeight
  BY <1>2, <1>4 DEF TxMeets, Allows
<1>6. place[t] \in {"pool", "failed", "mined"}
  BY <1>1 DEF LedgerTypeOK
<1>7. CASE place[t] = "mined"
  <2>1. CanBeConfirmed
    BY <1>3, <1>5, <1>7 DEF CanBeConfirmed
  <2>2. mined[t] \in Int /\ s.height = mined[t]
    BY <1>1, <1>4, <1>7, MinedInHeights
  <2>3. query.minHeight # Null => query.minHeight \in Int
    BY DEF Queries, Heights
  <2>4. WithinHeights(mined[t])
    <3> HIDE DEF s
    <3> QED BY <1>5, <2>2, <2>3 DEF WithinHeights
  <2> QED BY <1>7, <2>1, <2>4 DEF Served
<1>8. CASE place[t] = "pool"
  <2>1. CanBeInTxPool
    BY <1>3, <1>4, <1>5, <1>8 DEF CanBeInTxPool
  <2> QED BY <1>8, <2>1 DEF Served
<1>9. CASE place[t] = "failed"
  <2>1. CanBeFailed
    BY <1>3, <1>5, <1>9 DEF CanBeFailed
  <2> QED BY <1>9, <2>1 DEF Served
<1> QED BY <1>6, <1>7, <1>8, <1>9

LEMMA ServedIfMeets ==
    ASSUME TypeInv, BuildsTxs, connected, query \in Queries, NEW t \in Txs, place[t] # "none",
           Meets(query, t, ServerTx(t))
    PROVE  t \in DOMAIN TxsFromTransfers
<1>1. LedgerTypeOK /\ LedgerInv
  BY OutputsSoFar
<1>2. ServerTx(t) \in TxRecords /\ TxMeets(query, t, ServerTx(t))
  BY <1>1, ServerTxType DEF Meets
<1> DEFINE s == ServerTx(t)
<1>3. TxFromTransfers(t) = [s EXCEPT !.outputs = {}]
  BY <1>1, TxFromTransfersWhole DEF TransferQuery
<1>4. Alike(s, TxFromTransfers(t))
  <2> HIDE DEF s
  <2> QED BY <1>2, <1>3, WithoutOutputsAlike DEF s
<1>5. TxMeets(AuxQuery, t, s)
  <2>1. /\ AuxQuery.isConfirmed = query.isConfirmed
        /\ AuxQuery.inTxPool = query.inTxPool
        /\ AuxQuery.isFailed = query.isFailed
        /\ AuxQuery.isLocked = query.isLocked
        /\ AuxQuery.minHeight = query.minHeight
        /\ AuxQuery.maxHeight = query.maxHeight
        /\ AuxQuery.hashes = query.hashes
        /\ AuxQuery.isIncoming = Null
        /\ AuxQuery.isOutgoing = Null
    BY AuxQueryFields
  <2> HIDE DEF s
  <2>2. TxMeets(query, t, s)
    BY <1>2 DEF s
  <2> QED BY <2>1, <2>2 DEF TxMeets, Allows
<1>6. TransfersOf(t, s) # {}
  <2>1. CASE Outgoing[t] # Null
    <3>1. s.outgoing # Null
      BY <2>1, ServerTxFields
    <3> QED BY <3>1 DEF TransfersOf
  <2>2. CASE Outgoing[t] = Null
    <3>1. Incoming[t] # {} /\ place[t] # "failed"
      BY <1>1, <2>2, LedgerAssumption DEF LedgerInv
    <3>2. s.incoming # {}
      BY <3>1, ServerTxFields
    <3> QED BY <3>2 DEF TransfersOf
  <2> QED BY <2>1, <2>2
<1>7. Served(t)
  BY <1>2, ServedIfTxMeets
<1>8. TransfersOf(t, TxFromTransfers(t)) # {} /\ TxMeets(AuxQuery, t, TxFromTransfers(t))
  BY <1>4, <1>5, <1>6, AlikeMeet
<1> QED BY <1>7, <1>8, TxsFromTransfersMember

LEMMA TransfersWereSeen ==
    ASSUME TypeInv, Present, stage # "idle", BuildsTxs
    PROVE  /\ TxsWereSeen(TxsFromTransfers)
           /\ connected => LastingAreBuilt(TxsFromTransfers)
<1>1. LedgerTypeOK /\ LedgerInv
  BY OutputsSoFar
<1>2. ASSUME NEW t \in DOMAIN TxsFromTransfers
      PROVE  \E tx \in TxRecords :
                Seen(t, tx) /\ TxsFromTransfers[t] = [tx EXCEPT !.outputs = {}]
  <2>1. t \in Txs /\ place[t] # "none"
        /\ TxsFromTransfers[t] = [ServerTx(t) EXCEPT !.outputs = {}]
    BY <1>2, TransfersAreExact, TxsFromTransfersMember DEF TxsAreExact
  <2>2. ServerTx(t) \in TxRecords /\ Seen(t, ServerTx(t))
    BY <1>1, <2>1, ServerTxType, SeenNow
  <2> QED BY <2>1, <2>2
<1>3. ASSUME connected, NEW match \in always
      PROVE  TxOfItem(match[1]) \in DOMAIN TxsFromTransfers
  BY <1>3, LastingMatch, CallQuery, ServedIfMeets
<1> QED BY <1>2, <1>3 DEF TxsWereSeen, LastingAreBuilt

\* Without a query of outputs, transactions without outputs fit.
LEMMA SeenFit ==
    ASSUME method \in Methods, query.output = Null, method # "getOutputs",
           NEW built, TxsWereSeen(built), LastingAreBuilt(built)
    PROVE  Fits(built)
<1>1. ASSUME NEW t \in DOMAIN built
      PROVE  /\ ItemsOf(method, query, t, built[t]) \subseteq ever
             /\ \A match \in always :
                   TxOfItem(match[1]) = t => match[1] \in ItemsOf(method, query, t, built[t])
  <2>1. PICK tx \in TxRecords : Seen(t, tx) /\ built[t] = [tx EXCEPT !.outputs = {}]
    BY DEF TxsWereSeen
  <2>2. Alike(tx, built[t]) /\ Alike(built[t], tx)
    BY <2>1, WithoutOutputsAlike
  <2>3. ItemsOf(method, query, t, built[t]) = ItemsOf(method, query, t, tx)
    BY <2>2, ItemsWithoutOutputs
  <2> QED BY <2>1, <2>3 DEF Seen
<1> QED BY <1>1 DEF Fits, LastingAreBuilt

\* The transactions that getTransfers returns have only those transfers that
\* meet the query.
LEMMA TransfersFit ==
    ASSUME TypeInv, Present, stage = "transfers", ~BuildsTxs, connected
    PROVE  Fits(TxsFromTransfers)
<1>1. LedgerTypeOK /\ LedgerInv /\ method \in Methods /\ query \in Queries
  BY OutputsSoFar, CallQuery
<1>2. /\ method = "getTransfers" /\ query.transfer # Null
      /\ query.isIncoming = Null /\ query.isOutgoing = Null /\ query.output = Null
      /\ AuxQuery = query /\ TransferQuery = query.transfer
  BY <1>1, CallQuery DEF TypeInv, StageInv, UsesTransfers, BuildsTxs, IsContextual, Methods,
     AuxQuery, TransferQuery
<1>3. ASSUME NEW t
      PROVE  /\ TxMeets(query, t, TxFromTransfers(t)) <=> TxMeets(query, t, ServerTx(t))
             /\ \A x : x \in TransfersOf(t, TxFromTransfers(t)) <=>
                       x \in TransfersOf(t, ServerTx(t)) /\ TransferMeets(query.transfer, x)
  <2> SUFFICES ASSUME NEW s, s = ServerTx(t), NEW k, k = TxFromTransfers(t)
               PROVE  /\ TxMeets(query, t, k) <=> TxMeets(query, t, s)
                      /\ \A x : x \in TransfersOf(t, k) <=>
                                x \in TransfersOf(t, s) /\ TransferMeets(query.transfer, x)
    OBVIOUS
  <2>1. /\ k.isConfirmed = s.isConfirmed /\ k.inTxPool = s.inTxPool
        /\ k.isFailed = s.isFailed /\ k.isLocked = s.isLocked /\ k.height = s.height
    BY TxFromTransfersFields
  <2>2. TxMeets(query, t, k) <=> TxMeets(query, t, s)
    BY <1>2, <2>1 DEF TxMeets, Allows
  <2>3. /\ \A a : a \in k.incoming <=>
              /\ a \in s.incoming
              /\ TransferMeets(query.transfer, [tx |-> t, isIncoming |-> TRUE, account |-> a])
        /\ k.outgoing =
              IF /\ s.outgoing # Null
                 /\ TransferMeets(query.transfer, [tx |-> t, isIncoming |-> FALSE,
                                                   account |-> s.outgoing])
              THEN s.outgoing ELSE Null
    BY <1>2, TxFromTransfersTransfers
  <2>4. ASSUME NEW x
        PROVE  x \in TransfersOf(t, k) <=>
                  x \in TransfersOf(t, s) /\ TransferMeets(query.transfer, x)
    <3>1. x \in TransfersOf(t, k) <=>
             \/ \E a \in k.incoming : x = [tx |-> t, isIncoming |-> TRUE, account |-> a]
             \/ /\ k.outgoing # Null
                /\ x = [tx |-> t, isIncoming |-> FALSE, account |-> k.outgoing]
      BY TransfersOfMember
    <3>2. x \in TransfersOf(t, s) <=>
             \/ \E a \in s.incoming : x = [tx |-> t, isIncoming |-> TRUE, account |-> a]
             \/ /\ s.outgoing # Null
                /\ x = [tx |-> t, isIncoming |-> FALSE, account |-> s.outgoing]
      BY TransfersOfMember
    <3> QED BY <2>3, <3>1, <3>2
  <2> QED BY <2>2, <2>4
<1>4. ASSUME NEW t, NEW item
      PROVE  item \in ItemsOf(method, query, t, TxFromTransfers(t)) <=>
             item \in ItemsOf(method, query, t, ServerTx(t))
  <2> SUFFICES ASSUME NEW s, s = ServerTx(t), NEW k, k = TxFromTransfers(t)
               PROVE  item \in ItemsOf(method, query, t, k) <=>
                      item \in ItemsOf(method, query, t, s)
    OBVIOUS
  <2>1. \A tx : item \in ItemsOf(method, query, t, tx) <=>
                   /\ Meets(query, t, tx)
                   /\ item \in TransfersOf(t, tx) /\ TransferMeets(query.transfer, item)
    BY <1>1, <1>2, ItemsMember
  <2>2. Reasons(query, s) # {} /\ Reasons(query, k) # {}
    BY <1>2, ReasonsMember
  <2>3. \A tx : item \in TransfersOf(t, tx) /\ TransferMeets(query.transfer, item) =>
                   (Meets(query, t, tx) <=> TxMeets(query, t, tx) /\ Reasons(query, tx) # {})
    BY DEF Meets
  <2>4. /\ TxMeets(query, t, k) <=> TxMeets(query, t, s)
        /\ item \in TransfersOf(t, k) <=>
              item \in TransfersOf(t, s) /\ TransferMeets(query.transfer, item)
    BY <1>3
  <2> QED BY <2>1, <2>2, <2>3, <2>4
<1>5. ASSUME NEW t \in DOMAIN TxsFromTransfers
      PROVE  ItemsOf(method, query, t, TxsFromTransfers[t]) \subseteq ever
  <2>1. t \in Txs /\ place[t] # "none" /\ TxsFromTransfers[t] = TxFromTransfers(t)
    BY TxsFromTransfersMember DEF Served
  <2>2. Seen(t, ServerTx(t))
    BY <2>1, SeenNow
  <2> QED BY <1>4, <2>1, <2>2 DEF Seen
<1>6. ASSUME NEW match \in always, NEW t, t = TxOfItem(match[1])
      PROVE  /\ t \in DOMAIN TxsFromTransfers
             /\ match[1] \in ItemsOf(method, query, t, TxsFromTransfers[t])
  <2>1. /\ t \in Txs /\ place[t] # "none"
        /\ match[1] \in ItemsOf(method, query, t, ServerTx(t))
        /\ Meets(query, t, ServerTx(t))
    BY <1>6, LastingMatch
  <2>2. match[1] \in ItemsOf(method, query, t, TxFromTransfers(t))
    BY <1>4, <2>1
  <2>3. match[1] \in TransfersOf(t, TxFromTransfers(t)) /\ Meets(query, t, TxFromTransfers(t))
    BY <1>1, <1>2, <2>2, ItemsMember
  <2>4. TxMeets(AuxQuery, t, TxFromTransfers(t))
    BY <1>2, <2>3 DEF Meets
  <2>5. Served(t)
    BY <1>1, <2>1, ServedIfTxMeets DEF Meets
  <2> QED BY <2>1, <2>2, <2>3, <2>4, <2>5, TxsFromTransfersMember
<1> QED BY <1>5, <1>6 DEF Fits

(* The transactions built from outputs.                                    *)
LEMMA MergedWereSeen ==
    ASSUME TypeInv, Present, stage = "outputs",
           NEW account, NEW seq \in Responses(account), ~Conflicts(account),
           OutputsWereSeen(outputTxs)
    PROVE  OutputsWereSeen(Merged(seq).txs)
<1> SUFFICES ASSUME NEW t \in DOMAIN Merged(seq).txs,
                    NEW r \in Merged(seq).txs[t].outputs
             PROVE  \E tx \in TxRecords : SeenWith(t, tx, Merged(seq).txs[t].isLocked, r)
  BY DEF OutputsWereSeen
<1>1. LedgerTypeOK /\ LedgerInv
  BY OutputsSoFar
<1>2. /\ t \in Txs
      /\ \/ t \in DOMAIN outputTxs /\ r \in outputTxs[t].outputs
         \/ /\ place[t] = "mined" /\ r \in ServerOutputs(t)
            /\ AccountOf[r.output] = account /\ AsksFor(r.isSpent)
      /\ t \in DOMAIN outputTxs => Merged(seq).txs[t].isLocked = outputTxs[t].isLocked
      /\ t \notin DOMAIN outputTxs =>
            place[t] = "mined" /\ Merged(seq).txs[t].isLocked = IsLocked(t)
  BY MergedFacts
<1>3. CASE t \in DOMAIN outputTxs /\ r \in outputTxs[t].outputs
  BY <1>2, <1>3 DEF OutputsWereSeen
<1>4. CASE /\ place[t] = "mined" /\ r \in ServerOutputs(t)
           /\ AccountOf[r.output] = account /\ AsksFor(r.isSpent)
  <2>1. Merged(seq).txs[t].isLocked = IsLocked(t)
    <3>1. CASE t \in DOMAIN outputTxs
      <4>1. PICK e \in EntriesOfAccount(account) : e.tx = t /\ r \in e.built.outputs
        BY <1>1, <1>4, EntriesOutputs
      <4>2. Reconcilable(outputTxs[t], e.built)
        BY <3>1, <4>1 DEF Conflicts
      <4>3. e.built.isLocked = IsLocked(t)
        BY <1>1, <4>1, EntriesType
      <4> QED BY <1>2, <3>1, <4>2, <4>3 DEF Reconcilable
    <3>2. CASE t \notin DOMAIN outputTxs
      BY <1>2, <3>2
    <3> QED BY <3>1, <3>2
  <2>2. ServerTx(t) \in TxRecords
    BY <1>1, <1>2, ServerTxType
  <2>3. Seen(t, ServerTx(t))
    BY <1>2, <1>4, SeenNow
  <2>4. ServerTx(t).isConfirmed = TRUE
    BY <1>4, <2>2, ServerTxFields DEF TxRecords
  <2>5. ServerTx(t).isLocked = IsLocked(t) /\ r \in ServerTx(t).outputs
    BY <1>4, ServerTxFields
  <2> QED BY <2>1, <2>2, <2>3, <2>4, <2>5 DEF SeenWith
<1> QED BY <1>2, <1>3, <1>4

LEMMA MergedAreRead ==
    ASSUME TypeInv, Present, stage = "outputs",
           NEW account, NEW seq \in Responses(account), NEW left,
           LastingAreRead(outputTxs, left)
    PROVE  LastingAreRead(Merged(seq).txs, left \ {account})
<1> SUFFICES ASSUME query.output # Null, NEW match \in always, NEW o \in LastingOutputs(match),
                    AccountOf[o] \notin left \ {account}, NEW t, t = TxOfItem(match[1])
             PROVE  /\ t \in DOMAIN Merged(seq).txs
                    /\ \E r \in Merged(seq).txs[t].outputs :
                          r.output = o /\ OutputMeets(query.output, r)
  BY DEF LastingAreRead
<1>1. CASE AccountOf[o] \notin left
  <2>1. t \in DOMAIN outputTxs
        /\ \E r \in outputTxs[t].outputs : r.output = o /\ OutputMeets(query.output, r)
    BY <1>1 DEF LastingAreRead
  <2>2. t \in DOMAIN Merged(seq).txs
    BY <2>1, MergedDomain
  <2> QED BY <2>1, <2>2, MergedFacts
<1>2. CASE AccountOf[o] = account
  <2>1. place[t] = "mined"
    BY LastingOutput
  <2>2. PICK r \in ServerOutputs(t) : r.output = o /\ OutputMeets(query.output, r)
    BY LastingOutput
  <2>3. AsksFor(r.isSpent)
    BY <2>2 DEF AsksFor, OutputQuery, OutputMeets
  <2>4. t \in DOMAIN Merged(seq).txs
    BY <1>2, <2>1, <2>2, <2>3, MergedDomain
  <2> QED BY <1>2, <2>1, <2>2, <2>3, <2>4, MergedFacts
<1> QED BY <1>1, <1>2

\* A transaction built from outputs, and one that was seen with them.
LEMMA MergedMeets ==
    ASSUME TypeInv, BlocksAreTrue(blocks),
           NEW account, NEW seq \in Responses(account), KeepsOutputs, NeedsOutputs,
           query \in Queries,
           NEW t \in DOMAIN Merged(seq).txs, NEW r, NEW tx \in TxRecords,
           SeenWith(t, tx, Merged(seq).txs[t].isLocked, r), TxMeets(AuxQuery, t, tx)
    PROVE  t \in DOMAIN With(seq)
<1>1. /\ DOMAIN Final(seq) = DOMAIN Merged(seq).txs
      /\ Final(seq)[t].isLocked = Merged(seq).txs[t].isLocked
      /\ Final(seq)[t].height = mined[t]
      /\ IsOutputTx(Final(seq)[t])
  BY OutputsSoFar, FinalType
<1>2. /\ tx.isConfirmed = TRUE /\ tx.isFailed = FALSE /\ tx.inTxPool = FALSE
      /\ tx.height = mined[t] /\ tx.isLocked = Merged(seq).txs[t].isLocked
  BY DEF SeenWith, Seen
<1>3. Final(seq)[t].isConfirmed = TRUE /\ Final(seq)[t].isFailed = FALSE
  BY <1>1 DEF IsOutputTx
<1>4. TxMeets(AuxQuery, t, Final(seq)[t])
  BY <1>1, <1>2, <1>3, OutputTxMeets
<1> QED BY <1>1, <1>4, WithMember

\* What getTxs and getOutputs look at of a transaction before its outputs.
LEMMA AuxQueryAsksLess ==
    ASSUME query \in Queries, NEW t, NEW tx, TxMeets(query, t, tx)
    PROVE  TxMeets(AuxQuery, t, tx)
<1>1. /\ AuxQuery.isConfirmed = query.isConfirmed
      /\ AuxQuery.inTxPool = query.inTxPool
      /\ AuxQuery.isFailed = query.isFailed
      /\ AuxQuery.isLocked = query.isLocked
      /\ AuxQuery.minHeight = query.minHeight
      /\ AuxQuery.maxHeight = query.maxHeight
      /\ AuxQuery.hashes = query.hashes
      /\ AuxQuery.isIncoming = Null
      /\ AuxQuery.isOutgoing = Null
  BY AuxQueryFields
<1> QED BY <1>1 DEF TxMeets, Allows

\* What met the query throughout is among the transactions with outputs.
LEMMA LastingIsWith ==
    ASSUME TypeInv, stage = "outputs", BlocksAreTrue(blocks),
           NEW account, NEW seq \in Responses(account), KeepsOutputs,
           query.output # Null,
           OutputsWereSeen(Merged(seq).txs), LastingAreRead(Merged(seq).txs, {}),
           NEW match \in always, NEW t, t = TxOfItem(match[1]),
           NEW o \in LastingOutputs(match)
    PROVE  /\ t \in DOMAIN With(seq)
           /\ \E r \in With(seq)[t].outputs :
                 r.output = o /\ OutputMeets(query.output, r)
<1>1. /\ t \in DOMAIN Merged(seq).txs
      /\ \E r \in Merged(seq).txs[t].outputs :
            r.output = o /\ OutputMeets(query.output, r)
  BY DEF LastingAreRead
<1>2. PICK r \in Merged(seq).txs[t].outputs : r.output = o /\ OutputMeets(query.output, r)
  BY <1>1
<1>3. PICK tx \in TxRecords : SeenWith(t, tx, Merged(seq).txs[t].isLocked, r)
  BY <1>1, <1>2 DEF OutputsWereSeen
<1>4. match[1] \in ItemsOf(method, query, t, tx)
  BY <1>3 DEF SeenWith, Seen
<1>5. query \in Queries /\ method \in Methods /\ NeedsOutputs
  BY CallQuery DEF NeedsOutputs
<1>6. TxMeets(query, t, tx)
  BY <1>4, <1>5, ItemsMember DEF Meets
<1>7. TxMeets(AuxQuery, t, tx)
  BY <1>5, <1>6, AuxQueryAsksLess
<1>8. t \in DOMAIN With(seq)
  BY <1>1, <1>3, <1>5, <1>7, MergedMeets
<1>9. With(seq)[t].outputs = Merged(seq).txs[t].outputs
  BY <1>8, WithLocks
<1> QED BY <1>2, <1>8, <1>9

(* The answer of getOutputs.                                               *)
LEMMA OutputsFit ==
    ASSUME TypeInv, stage = "outputs", ~BuildsTxs, BlocksAreTrue(blocks),
           NEW account, NEW seq \in Responses(account),
           KeepsOutputs,
           OutputsWereSeen(Merged(seq).txs), LastingAreRead(Merged(seq).txs, {})
    PROVE  Fits(With(seq))
<1>1. /\ method = "getOutputs" /\ query.output # Null /\ query \in Queries
      /\ query.isIncoming = Null /\ query.isOutgoing = Null /\ query.transfer = Null
      /\ AuxQuery = query /\ method \in Methods
  BY CallQuery DEF TypeInv, StageInv, BuildsTxs, IsContextual, AuxQuery
<1>2. ASSUME NEW t \in DOMAIN With(seq), NEW item
      PROVE  item \in ItemsOf(method, query, t, With(seq)[t]) <=>
             item \in Reasons(query, With(seq)[t])
  <2>1. TxMeets(query, t, With(seq)[t])
    BY <1>1, WithMember
  <2>2. item \in Reasons(query, With(seq)[t]) => Meets(query, t, With(seq)[t])
    BY <1>1, <2>1 DEF Meets
  <2> QED BY <1>1, <2>2, ItemsMember
<1>3. ASSUME NEW t \in DOMAIN With(seq), NEW item \in Reasons(query, With(seq)[t])
      PROVE  item \in ever
  <2>1. PICK r \in With(seq)[t].outputs : r.output = item /\ OutputMeets(query.output, r)
    BY <1>1, ReasonsMember
  <2>2. /\ t \in DOMAIN Merged(seq).txs /\ r \in Merged(seq).txs[t].outputs
        /\ With(seq)[t].isLocked = Merged(seq).txs[t].isLocked
    BY WithLocks
  <2>3. PICK tx \in TxRecords : SeenWith(t, tx, Merged(seq).txs[t].isLocked, r)
    BY <2>2 DEF OutputsWereSeen
  <2>4. item \in Reasons(query, tx)
    BY <1>1, <2>1, <2>3, ReasonsMember DEF SeenWith
  <2>5. /\ tx.isConfirmed = TRUE /\ tx.isFailed = FALSE /\ tx.inTxPool = FALSE
        /\ tx.height = mined[t] /\ tx.isLocked = With(seq)[t].isLocked
    BY <2>2, <2>3 DEF SeenWith, Seen
  <2>6. /\ With(seq)[t].isConfirmed = TRUE /\ With(seq)[t].isFailed = FALSE
        /\ With(seq)[t].inTxPool \in {Null, FALSE}
        /\ With(seq)[t].height = mined[t]
    BY WithType, WithIsTrue DEF IsOutputTx
  <2>7. TxMeets(query, t, With(seq)[t])
    BY <1>1, WithMember
  <2>8. TxMeets(query, t, tx)
    BY <1>1, <2>5, <2>6, <2>7 DEF TxMeets, Allows
  <2>9. item \in ItemsOf(method, query, t, tx)
    BY <1>1, <2>4, <2>8, ItemsMember DEF Meets
  <2> QED BY <2>3, <2>9 DEF SeenWith, Seen
<1>4. ASSUME NEW match \in always, NEW t, t = TxOfItem(match[1])
      PROVE  t \in DOMAIN With(seq) /\ match[1] \in Reasons(query, With(seq)[t])
  <2>1. match[1] \in LastingOutputs(match)
    BY <1>1 DEF LastingOutputs
  <2>2. /\ t \in DOMAIN With(seq)
        /\ \E r \in With(seq)[t].outputs :
              r.output = match[1] /\ OutputMeets(query.output, r)
    BY <1>1, <1>4, <2>1, LastingIsWith
  <2> QED BY <1>1, <2>2, ReasonsMember
<1> QED BY <1>2, <1>3, <1>4 DEF Fits

(* The answer of getTxs: a transaction that is merged with its outputs is  *)
(* like it was when any of them was read.                                  *)
LEMMA AllAlike ==
    ASSUME TypeInv, stage = "outputs", BlocksAreTrue(blocks), TxsAreTrue(txs),
           NEW account, NEW seq \in Responses(account), NEW order \in Orders(seq),
           ~Disagrees(seq), TxsWereSeen(txs), OutputsWereSeen(Merged(seq).txs),
           NEW t \in DOMAIN All(seq, order), t \in DOMAIN With(seq)
    PROVE  /\ All(seq, order)[t].outputs = With(seq)[t].outputs
           /\ \A r \in With(seq)[t].outputs :
                 \E tx \in TxRecords :
                    Seen(t, tx) /\ r \in tx.outputs
                    /\ Alike(tx, All(seq, order)[t]) /\ Alike(All(seq, order)[t], tx)
<1> DEFINE a == txs[t]
           b == With(seq)[t]
           c == All(seq, order)[t]
<1>1. /\ t \in DOMAIN txs /\ a \in TxRecords
      /\ mined[t] \in Heights /\ b \in TxRecords
      /\ c = Combined(a, b, mined[t])
  BY AllMember
<1>2. /\ c \in TxRecords
      /\ c.isConfirmed = TRUE /\ c.inTxPool = FALSE
      /\ c.isFailed = a.isFailed /\ c.isLocked = a.isLocked /\ c.height = mined[t]
      /\ c.incoming = a.incoming /\ c.outgoing = a.outgoing /\ c.outputs = b.outputs
  <2> HIDE DEF a, b, c
  <2> QED BY <1>1 DEF TxRecords, Combined, Criterion
<1>3. /\ t \in DOMAIN Merged(seq).txs
      /\ b.isLocked = Merged(seq).txs[t].isLocked
      /\ b.outputs = Merged(seq).txs[t].outputs
      /\ b.isFailed = FALSE
  BY WithLocks
<1>4. a.isLocked = b.isLocked /\ a.isFailed = b.isFailed
  BY <1>1 DEF Disagrees, Reconcilable
<1>5. a.outgoing = Outgoing[t] /\ a.incoming = Incoming[t]
  <2>1. PICK tx \in TxRecords : Seen(t, tx) /\ a = [tx EXCEPT !.outputs = {}]
    BY <1>1 DEF TxsWereSeen
  <2>2. a.isFailed = tx.isFailed /\ a.incoming = tx.incoming /\ a.outgoing = tx.outgoing
    <3> HIDE DEF a
    <3> QED BY <2>1, WithoutOutputsFields
  <2>3. ~tx.isFailed
    BY <1>3, <1>4, <2>2
  <2> QED BY <2>1, <2>2, <2>3 DEF Seen
<1>6. ASSUME NEW r \in b.outputs
      PROVE  \E tx \in TxRecords :
                Seen(t, tx) /\ r \in tx.outputs /\ Alike(tx, c) /\ Alike(c, tx)
  <2>1. PICK tx \in TxRecords : SeenWith(t, tx, Merged(seq).txs[t].isLocked, r)
    BY <1>3 DEF OutputsWereSeen
  <2>2. /\ Seen(t, tx) /\ r \in tx.outputs
        /\ tx.isConfirmed = TRUE /\ tx.isFailed = FALSE /\ tx.inTxPool = FALSE
        /\ tx.height = mined[t] /\ tx.isLocked = b.isLocked
        /\ tx.outgoing = Outgoing[t]
    BY <1>3, <2>1 DEF SeenWith, Seen
  <2>3. tx.incoming = Incoming[t]
    BY <2>2 DEF Seen
  <2> HIDE DEF a, b, c
  <2>4. /\ tx.isConfirmed = c.isConfirmed /\ tx.inTxPool = c.inTxPool
        /\ tx.isFailed = c.isFailed
    BY <1>2, <1>3, <1>4, <2>2 DEF TxRecords, Criterion
  <2>5. Alike(tx, c)
    BY <1>2, <1>4, <1>5, <2>2, <2>3, <2>4 DEF Alike
  <2>6. Alike(c, tx)
    BY <2>5 DEF Alike
  <2> QED BY <2>2, <2>5, <2>6
<1> QED BY <1>2, <1>6

LEMMA AllFit ==
    ASSUME TypeInv, stage = "outputs", BuildsTxs, BlocksAreTrue(blocks), TxsAreTrue(txs),
           NEW account, NEW seq \in Responses(account), NEW order \in Orders(seq),
           ~Disagrees(seq), KeepsOutputs,
           TxsWereSeen(txs), LastingAreBuilt(txs),
           OutputsWereSeen(Merged(seq).txs), LastingAreRead(Merged(seq).txs, {})
    PROVE  Fits(All(seq, order))
<1>1. /\ query \in Queries /\ method \in Methods
      /\ method = "getOutputs" => query.output # Null
  BY CallQuery
<1>2. ASSUME NEW t \in DOMAIN All(seq, order), t \notin DOMAIN With(seq)
      PROVE  /\ ItemsOf(method, query, t, All(seq, order)[t]) \subseteq ever
             /\ \A match \in always :
                   TxOfItem(match[1]) = t =>
                      match[1] \in ItemsOf(method, query, t, All(seq, order)[t])
  <2>1. t \in DOMAIN txs /\ All(seq, order)[t] = txs[t]
    BY <1>2, AllMember
  <2>2. PICK tx \in TxRecords : Seen(t, tx) /\ txs[t] = [tx EXCEPT !.outputs = {}]
    BY <2>1 DEF TxsWereSeen
  <2>3. CASE query.output = Null
    <3>1. Alike(tx, txs[t]) /\ Alike(txs[t], tx)
      BY <2>2, WithoutOutputsAlike
    <3>2. ItemsOf(method, query, t, txs[t]) = ItemsOf(method, query, t, tx)
      <4>1. method # "getOutputs"
        BY <1>1, <2>3
      <4>2. ItemsOf(method, query, t, txs[t]) \subseteq ItemsOf(method, query, t, tx)
        BY <1>1, <2>3, <3>1, <4>1, ItemsWithoutOutputs
      <4>3. ItemsOf(method, query, t, tx) \subseteq ItemsOf(method, query, t, txs[t])
        BY <1>1, <2>3, <3>1, <4>1, ItemsWithoutOutputs
      <4> QED BY <4>2, <4>3
    <3> QED BY <2>1, <2>2, <3>2 DEF Seen
  <2>4. CASE query.output # Null
    <3>1. txs[t].outputs = {}
      BY <2>1 DEF TypeInv, ShapeInv, HasTransfersOnly
    <3>2. \A item : item \notin ItemsOf(method, query, t, txs[t])
      BY <1>1, <2>4, <3>1, ItemsMember, ReasonsMember DEF Meets
    <3>3. ASSUME NEW match \in always, TxOfItem(match[1]) = t
          PROVE  FALSE
      <4>1. match[2] \in LastingOutputs(match)
        BY DEF LastingOutputs
      <4> QED BY <1>2, <2>4, <3>3, <4>1, LastingIsWith
    <3> QED BY <2>1, <3>2, <3>3
  <2> QED BY <2>3, <2>4
<1>3. ASSUME NEW t \in DOMAIN All(seq, order), t \in DOMAIN With(seq)
      PROVE  /\ ItemsOf(method, query, t, All(seq, order)[t]) \subseteq ever
             /\ \A match \in always :
                   TxOfItem(match[1]) = t =>
                      match[1] \in ItemsOf(method, query, t, All(seq, order)[t])
  <2> DEFINE c == All(seq, order)[t]
  <2>1. /\ c.outputs = With(seq)[t].outputs
        /\ \A r \in c.outputs :
              \E tx \in TxRecords :
                 Seen(t, tx) /\ r \in tx.outputs /\ Alike(tx, c) /\ Alike(c, tx)
    BY <1>3, AllAlike
  <2>2. c.outputs # {}
    BY <1>3, <2>1, WithType DEF IsOutputTx
  <2> HIDE DEF c
  <2>3. ASSUME NEW item \in ItemsOf(method, query, t, c)
        PROVE  item \in ever
    <3>1. Reasons(query, c) # {} /\ (method = "getOutputs" => item \in Reasons(query, c))
      BY <1>1, <2>3, ItemsMember DEF Meets
    <3>2. PICK r \in c.outputs :
             query.output # Null =>
                /\ OutputMeets(query.output, r)
                /\ method = "getOutputs" => r.output = item
      <4>1. CASE query.output = Null
        BY <2>2, <4>1
      <4>2. CASE query.output # Null /\ method = "getOutputs"
        BY <3>1, <4>2, ReasonsMember
      <4>3. CASE query.output # Null /\ method # "getOutputs"
        <5>1. PICK o \in Reasons(query, c) : TRUE
          BY <3>1
        <5> QED BY <4>3, <5>1, ReasonsMember
      <4> QED BY <4>1, <4>2, <4>3
    <3>3. PICK tx \in TxRecords :
             Seen(t, tx) /\ r \in tx.outputs /\ Alike(tx, c) /\ Alike(c, tx)
      BY <2>1
    <3>4. Reasons(query, tx) # {} /\ (method = "getOutputs" => item \in Reasons(query, tx))
      BY <1>1, <3>2, <3>3, ReasonsMember
    <3>5. item \in ItemsOf(method, query, t, tx)
      BY <1>1, <2>3, <3>3, <3>4, AlikeItems
    <3> QED BY <3>3, <3>5 DEF Seen
  <2>4. ASSUME NEW match \in always, TxOfItem(match[1]) = t
        PROVE  match[1] \in ItemsOf(method, query, t, c)
    <3>1. /\ Reasons(query, c) # {}
          /\ method = "getOutputs" => match[1] \in Reasons(query, c)
      <4>1. CASE query.output = Null
        BY <1>1, <4>1, ReasonsMember
      <4>2. CASE query.output # Null
        <5>1. ASSUME NEW o \in LastingOutputs(match)
              PROVE  o \in Reasons(query, c)
          <6>1. \E r \in With(seq)[t].outputs :
                   r.output = o /\ OutputMeets(query.output, r)
            BY <2>4, <4>2, LastingIsWith
          <6> QED BY <2>1, <4>2, <6>1, ReasonsMember
        <5>2. match[2] \in LastingOutputs(match)
              /\ (method = "getOutputs" => match[1] \in LastingOutputs(match))
          BY DEF LastingOutputs
        <5> QED BY <5>1, <5>2
      <4> QED BY <4>1, <4>2
    <3>2. PICK tx \in TxRecords : Seen(t, tx) /\ Alike(tx, c)
      BY <2>1, <2>2
    <3>3. match[1] \in ItemsOf(method, query, t, tx)
      BY <2>4, <3>2 DEF Seen
    <3> QED BY <1>1, <3>1, <3>2, <3>3, AlikeItems
  <2> QED BY <2>3, <2>4 DEF c
<1>4. \A match \in always : TxOfItem(match[1]) \in DOMAIN All(seq, order)
  BY AllType DEF LastingAreBuilt
<1> QED BY <1>2, <1>3, <1>4 DEF Fits

(* The steps.                                                              *)
LEMMA CurrentGetTransfers ==
    ASSUME TypeInv, TypeInv', Present, CurrentInv, GetTransfers
    PROVE  CurrentInv'
<1>1. /\ UNCHANGED <<ledger, call, connected, history>>
      /\ UNCHANGED ledger /\ UNCHANGED call /\ UNCHANGED history /\ connected' = connected
      /\ stage = "transfers" /\ outcome = "none" /\ outputTxs = <<>>
  BY DEF GetTransfers, TypeInv, StageInv
<1>2. LedgerTypeOK /\ LedgerInv /\ method \in Methods
      /\ (method = "getOutputs" => query.output # Null)
  BY <1>1, OutputsSoFar, CallQuery
<1>3. BuildsTxs => UsesTransfers
  BY DEF UsesTransfers
<1>4. CASE BuildsTxs /\ ~NeedsOutputs /\ Finish(TxsFromTransfers)
  <2>1. query.output = Null /\ method # "getOutputs"
    BY <1>2, <1>4 DEF NeedsOutputs
  <2>2. connected => Fits(TxsFromTransfers)
    BY <1>1, <1>2, <1>4, <2>1, TransfersWereSeen, SeenFit
  <2>3. Judged => Fits(TxsFromTransfers)
    BY <1>3, <1>4, <2>2 DEF Judged
  <2> QED BY <1>1, <1>4, <2>3, FinishFits
<1>5. CASE ~BuildsTxs /\ Return(TxsFromTransfers, {})
  <2>1. Judged => Fits(TxsFromTransfers)
    <3>1. UsesTransfers
      BY <1>1 DEF TypeInv, StageInv
    <3> QED BY <1>1, <1>5, <3>1, TransfersFit DEF Judged
  <2> QED BY <1>1, <1>5, <2>1, ReturnFits
<1>6. CASE /\ BuildsTxs /\ stage' = "accounts" /\ txs' = TxsFromTransfers
           /\ UNCHANGED <<collects, outputTxs, blocks, pending, outcome, missing>>
  <2>1. TxsWereSeen(TxsFromTransfers) /\ (connected => LastingAreBuilt(TxsFromTransfers))
    BY <1>1, <1>6, TransfersWereSeen
  <2>2. Records(txs') /\ Records(outputTxs')
    BY <1>1, <1>2, <1>6, TxsFromTransfersType, Empty
  <2> QED BY <1>1, <1>6, <2>1, <2>2, CurrentKept
<1> QED BY <1>4, <1>5, <1>6 DEF GetTransfers

LEMMA CurrentGetAccountIndices ==
    ASSUME TypeInv, Present, CurrentInv, GetAccountIndices
    PROVE  CurrentInv'
<1>1. /\ UNCHANGED ledger /\ UNCHANGED call /\ UNCHANGED history /\ connected' = connected
      /\ stage = "accounts" /\ stage' = "outputs" /\ pending' = Accounts
      /\ outcome' = "none" /\ outputTxs' = <<>> /\ txs' = txs
  BY DEF GetAccountIndices, TypeInv, StageInv
<1>2. OutputsWereSeen(<<>>)
  BY DEF OutputsWereSeen
<1>3. LastingAreRead(<<>>, Accounts)
  <2>1. \A match \in always : \A o \in LastingOutputs(match) :
           query.output # Null => AccountOf[o] \in Accounts
    BY <1>1, LastingOutput, LedgerAssumption
  <2> QED BY <2>1 DEF LastingAreRead
<1>4. ~Reorganized /\ BuildsTxs => TxsWereSeen(txs) /\ (connected => LastingAreBuilt(txs))
  BY <1>1 DEF CurrentInv
<1>5. Records(txs') /\ Records(outputTxs')
  BY <1>1, Empty DEF TypeInv, TypeOK
<1> QED BY <1>1, <1>2, <1>3, <1>4, <1>5, CurrentKept

LEMMA CurrentGetOutputs ==
    ASSUME TypeInv, TypeInv', HeightInv, Present, CurrentInv, GetOutputs
    PROVE  CurrentInv'
<1> DEFINE account == Min(pending)
<1>1. /\ UNCHANGED <<ledger, call, connected, history>>
      /\ UNCHANGED ledger /\ UNCHANGED call /\ UNCHANGED history /\ connected' = connected
      /\ stage = "outputs" /\ outcome = "none"
  BY DEF GetOutputs, TypeInv, StageInv
<1>2. ~Reorganized =>
         /\ BlocksAreTrue(blocks) /\ TxsAreTrue(txs)
         /\ BuildsTxs => TxsWereSeen(txs) /\ (connected => LastingAreBuilt(txs))
         /\ OutputsWereSeen(outputTxs) /\ LastingAreRead(outputTxs, pending)
  BY <1>1 DEF HeightInv, CurrentInv
<1>3. BuildsTxs => UsesTransfers
  BY DEF UsesTransfers
<1>4. PICK seq \in Responses(account) :
         \/ Fails(Merged(seq).error)
         \/ /\ Merged(seq).error = "none"
            /\ \/ GoesOn(seq)
               \/ pending = {account} /\ ~BuildsTxs /\ Return(With(seq), {})
               \/ /\ pending = {account} /\ BuildsTxs
                  /\ \E order \in Orders(seq) :
                        \/ Fails(Combination(seq, order).error)
                        \/ Combination(seq, order).error = "none" /\ Finish(All(seq, order))
  BY GetOutputsCases
<1>5. ASSUME Merged(seq).error = "none", ~Reorganized
      PROVE  /\ ~Conflicts(account)
             /\ OutputsWereSeen(Merged(seq).txs)
             /\ LastingAreRead(Merged(seq).txs, pending \ {account})
  <2>1. ~Conflicts(account)
    BY <1>5, OutputsSoFar, MergedAgrees
  <2> QED BY <1>1, <1>2, <1>5, <2>1, MergedWereSeen, MergedAreRead
<1>6. ASSUME NEW error \in {"none"} \cup Errors, Fails(error)
      PROVE  CurrentInv'
  BY <1>6, EndIsCurrent DEF Fails, Throw, Errors
<1>7. CASE Fails(Merged(seq).error)
  <2>1. Merged(seq).error \in {"none"} \cup Errors
    BY OutputsSoFar, MergedAccount DEF IsAcc
  <2> QED BY <1>6, <1>7, <2>1
<1>8. CASE Merged(seq).error = "none" /\ GoesOn(seq)
  <2>1. Records(txs') /\ Records(outputTxs')
    BY <1>8, OutputsSoFar, MergedAccount DEF TypeInv, TypeOK, IsAcc, GoesOn
  <2> QED BY <1>1, <1>2, <1>5, <1>8, <2>1, CurrentKept DEF GoesOn
<1>9. CASE /\ Merged(seq).error = "none" /\ pending = {account} /\ ~BuildsTxs
           /\ Return(With(seq), {})
  <2>1. ~Reorganized => LastingAreRead(Merged(seq).txs, {})
    <3>1. pending \ {account} = {}
      BY <1>9
    <3> QED BY <1>5, <1>9, <3>1
  <2>2. Judged => Fits(With(seq))
    BY <1>1, <1>2, <1>5, <1>9, <2>1, OutputsFit DEF Judged
  <2> QED BY <1>1, <1>9, <2>2, ReturnFits
<1>10. ASSUME Merged(seq).error = "none", pending = {account}, BuildsTxs,
              NEW order \in Orders(seq),
              \/ Fails(Combination(seq, order).error)
              \/ Combination(seq, order).error = "none" /\ Finish(All(seq, order))
       PROVE  CurrentInv'
  <2>1. CASE Fails(Combination(seq, order).error)
    <3>1. Combination(seq, order).error \in {"none"} \cup Errors
      BY <1>1, AllType
    <3> QED BY <1>6, <2>1, <3>1
  <2>2. CASE Combination(seq, order).error = "none" /\ Finish(All(seq, order))
    <3>1. ~Reorganized => LastingAreRead(Merged(seq).txs, {})
      <4>1. pending \ {account} = {}
        BY <1>10
      <4> QED BY <1>5, <1>10, <4>1
    <3>2. ~Disagrees(seq)
      BY <1>1, <2>2, CombinationAgrees
    <3>3. Judged => Fits(All(seq, order))
      BY <1>1, <1>2, <1>3, <1>5, <1>10, <3>1, <3>2, AllFit DEF Judged
    <3> QED BY <1>1, <1>10, <2>2, <3>3, FinishFits
  <2> QED BY <1>10, <2>1, <2>2
<1> QED BY <1>4, <1>7, <1>8, <1>9, <1>10

LEMMA CurrentCall == ASSUME TypeInv, TypeInv', Call PROVE CurrentInv'
<1>1. /\ outputTxs' = <<>> /\ outcome' = "none" /\ stage' # "idle"
      /\ UNCHANGED ledger
      /\ always' = Matches(method', query', Truth)
  BY DEF Call, TypeInv, StageInv, TransfersStage
<1>2. stage' \in {"accounts", "outputs"} => ~BuildsTxs'
  BY DEF Call, BuildsTxs, TransfersStage
<1>3. stage' = "outputs" =>
         /\ method' = "getOutputs" /\ query'.output # Null
         /\ query'.output.account # Null /\ pending' = {query'.output.account}
  <2>1. stage' = "outputs" =>
           /\ method' = "getOutputs"
           /\ query'.output.account # Null /\ pending' = {query'.output.account}
    BY DEF Call, TransfersStage
  <2>2. method' = "getOutputs" /\ stage' # "idle" => query'.output # Null
    BY QueriesAssumption DEF TypeInv, StageInv, QueriesOf
  <2> QED BY <2>1, <2>2, <1>1
<1>4. ASSUME stage' = "outputs", NEW match \in always', NEW o \in LastingOutputs(match)'
      PROVE  AccountOf[o] \in pending'
  <2>1. PICK u \in DOMAIN Truth :
           match \in ItemsOf(method', query', u, Truth[u]) \X Reasons(query', Truth[u])
    BY <1>1 DEF Matches
  <2>2. ItemsOf(method', query', u, Truth[u]) \subseteq Reasons(query', Truth[u])
    BY <1>3, <1>4 DEF ItemsOf
  <2>3. o \in Reasons(query', Truth[u])
    BY <2>1, <2>2 DEF LastingOutputs
  <2>4. \E r \in Truth[u].outputs : r.output = o /\ OutputMeets(query'.output, r)
    BY <1>3, <1>4, <2>3 DEF Reasons
  <2>5. AccountOf[o] = query'.output.account
    BY <1>3, <1>4, <2>4 DEF OutputMeets, Allows
  <2> QED BY <1>3, <1>4, <2>5
<1>5. OutputsWereSeen(outputTxs)'
  BY <1>1 DEF OutputsWereSeen
<1>6. stage' = "outputs" => LastingAreRead(outputTxs, pending)'
  BY <1>4 DEF LastingAreRead
<1>7. AnswerIsCurrent'
  BY <1>1 DEF AnswerIsCurrent
<1> QED BY <1>1, <1>2, <1>5, <1>6, <1>7 DEF CurrentInv

LEMMA CurrentChange == ASSUME TypeInv, TypeInv', CurrentInv, Change PROVE CurrentInv'
<1>1. /\ outcome' = "none" /\ stage' = stage /\ method' = method /\ query' = query
      /\ (BuildsTxs' <=> BuildsTxs) /\ connected' = connected /\ txs' = txs
      /\ outputTxs' = outputTxs /\ pending' = pending
      /\ \/ (Mine \/ (\E t \in Txs : Arrive(t) \/ Drop(t))) /\ Watch("change")
         \/ Reorganize /\ Watch("reorg")
  BY ChangeCases, SameCall
<1>2. AnswerIsCurrent'
  BY <1>1 DEF AnswerIsCurrent
<1>3. CASE stage = "idle"
  BY <1>1, <1>2, <1>3 DEF CurrentInv
<1>4. CASE stage # "idle" /\ Reorganize /\ Watch("reorg")
  <2>1. during' = Append(during, "reorg") /\ during \in Seq({"change", "reorg"})
    BY <1>4 DEF Watch, TypeInv, DuringInv
  <2>2. Len(during) + 1 \in DOMAIN during' /\ during'[Len(during) + 1] = "reorg"
    BY <2>1
  <2>3. Reorganized'
    BY <2>2 DEF Reorganized, ToSet
  <2> QED BY <1>2, <2>3 DEF CurrentInv
<1>5. CASE /\ stage # "idle" /\ Watch("change")
           /\ Mine \/ (\E t \in Txs : Arrive(t) \/ Drop(t))
  <2>1. during' = Append(during, "change") /\ during \in Seq({"change", "reorg"})
    BY <1>5 DEF Watch, TypeInv, DuringInv
  <2>2. \A i \in DOMAIN during : i \in DOMAIN during' /\ during'[i] = during[i]
    BY <2>1
  <2>3. Reorganized => Reorganized'
    BY <2>2 DEF Reorganized, ToSet
  <2>4. always' \subseteq always /\ ever \subseteq ever'
    BY <1>5 DEF Watch
  <2>5. \A u \in Txs : place[u] = "mined" => place'[u] = "mined" /\ mined'[u] = mined[u]
    BY <1>5, MinedForward DEF TypeInv, TypeOK
  <2>6. DOMAIN txs \subseteq Txs /\ DOMAIN outputTxs \subseteq Txs
    BY DEF TypeInv, TypeOK, Records
  <2>7. /\ TxsWereSeen(txs) => TxsWereSeen(txs)'
        /\ LastingAreBuilt(txs) => LastingAreBuilt(txs)'
    BY <1>1, <2>4, <2>5, <2>6, SeenStay
  <2>8. /\ OutputsWereSeen(outputTxs) => OutputsWereSeen(outputTxs)'
        /\ LastingAreRead(outputTxs, pending) => LastingAreRead(outputTxs, pending)'
    BY <1>1, <2>4, <2>5, <2>6, SeenStay
  <2> QED BY <1>1, <1>2, <2>3, <2>7, <2>8 DEF CurrentInv
<1> QED BY <1>1, <1>3, <1>4, <1>5

LEMMA CurrentNext ==
    ASSUME TypeInv, TypeInv', HeightInv, Present, CurrentInv, [Next]_vars
    PROVE  CurrentInv'
<1>1. CASE Call
  BY <1>1, CurrentCall
<1>2. CASE CheckPool
  <2>1. CASE Throw("notConnected", {})
    BY <2>1, EndIsCurrent DEF Throw
  <2>2. CASE stage' = "connect" /\ UNCHANGED <<txs, outputTxs, blocks, pending, outcome, missing>>
    <3>1. outcome' = "none"
      BY <1>2, <2>2 DEF CheckPool, TypeInv, StageInv
    <3> QED BY <2>2, <3>1 DEF CurrentInv, AnswerIsCurrent
  <2> QED BY <1>2, <2>1, <2>2 DEF CheckPool
<1>3. CASE Connect
  <2>1. stage' = "transfers" /\ outcome' = "none"
    BY <1>3 DEF Connect, TypeInv, StageInv
  <2> QED BY <2>1 DEF CurrentInv, AnswerIsCurrent
<1>4. CASE GetTransfers
  BY <1>4, CurrentGetTransfers
<1>5. CASE GetAccountIndices
  BY <1>5, CurrentGetAccountIndices
<1>6. CASE GetOutputs
  BY <1>6, CurrentGetOutputs
<1>7. CASE RequestFails
  BY <1>7, EndIsCurrent DEF RequestFails, Throw
<1>8. CASE Forget
  <2>1. stage' = "idle" /\ outcome' = "none"
    BY <1>8 DEF Forget, TypeInv, StageInv
  <2> QED BY <2>1, EndIsCurrent
<1>9. CASE Change
  BY <1>9, CurrentChange
<1>10. CASE UNCHANGED vars
  <2>1. /\ UNCHANGED ledger /\ UNCHANGED call /\ UNCHANGED history
        /\ UNCHANGED <<stage, collects, connected, txs, outputTxs, blocks, pending,
                       outcome, missing>>
    BY <1>10 DEF vars, clientVars
  <2>2. CASE stage # "idle"
    <3>1. outcome = "none" /\ Records(txs) /\ Records(outputTxs)
      BY <2>2 DEF TypeInv, TypeOK, StageInv
    <3> QED BY <2>1, <2>2, <3>1, CurrentKept DEF CurrentInv
  <2>3. CASE stage = "idle"
    <3>1. /\ method' = method /\ query' = query /\ always' = always /\ ever' = ever
          /\ (UsesTransfers' <=> UsesTransfers) /\ (KeepsOutputs' <=> KeepsOutputs)
          /\ (Reorganized' <=> Reorganized)
      BY <2>1, SameCall, SameHistory DEF KeepsOutputs, Reorganized
    <3>2. Lasting' = Lasting /\ Answer' = Answer
      BY <2>1, <3>1 DEF Lasting, Answer
    <3>3. \A item : TxOfItem(item)' = TxOfItem(item)
      BY <3>1 DEF TxOfItem
    <3>4. AnswerIsCurrent'
      BY <2>1, <3>1, <3>2, <3>3 DEF CurrentInv, AnswerIsCurrent
    <3> QED BY <2>1, <2>3, <3>4 DEF CurrentInv
  <2> QED BY <2>2, <2>3
<1> QED BY <1>1, <1>2, <1>3, <1>4, <1>5, <1>6, <1>7, <1>8, <1>9, <1>10 DEF Next, Step

LEMMA CurrentInit == ASSUME Init PROVE CurrentInv
BY DEF Init, CurrentInv, AnswerIsCurrent

(* What met the query throughout the call meets it now, and what meets it  *)
(* now has met it in some state of the call.                               *)
THEOREM PresentHolds == Spec => []Present
BY TypeInvHolds, PresentInit, PresentNext, PTL DEF Spec

(* At each request of a call, what it has built was true in some state of  *)
(* the call, and what met the query throughout is among what it has built  *)
(* or is still to be asked for.                                            *)
THEOREM CurrentInvHolds == Spec => []CurrentInv
BY TypeInvHolds, HeightInvHolds, PresentHolds, CurrentInit, CurrentNext, PTL DEF Spec

(* A call that is answered by several requests, while the wallet changes,  *)
(* returns all that met its query throughout, and nothing that never did:  *)
(* what it merges from two states may be in neither of them, but its       *)
(* transfers and outputs are let in by a state of the call.                *)
THEOREM CurrentAnswers == Spec => []AnswerIsCurrent
<1>1. CurrentInv => AnswerIsCurrent
  BY DEF CurrentInv
<1> QED BY <1>1, CurrentInvHolds, PTL
-----------------------------------------------------------------------------
(***************************************************************************)
(* How long a call is.                                                     *)
(***************************************************************************)

\* The most requests that a call still makes.
RequestsLeft ==
    CASE stage = "idle" -> 0
      [] stage = "outputs" -> Cardinality(pending)
      [] stage = "accounts" -> Cardinality(Accounts) + 1
      [] stage = "transfers" -> Cardinality(Accounts) + 2
      [] stage = "connect" -> Cardinality(Accounts) + 3
      [] stage = "inPool" -> Cardinality(Accounts) + 4

LEMMA AccountsLeft ==
    ASSUME TypeInv
    PROVE  /\ IsFiniteSet(pending)
           /\ Cardinality(pending) \in Nat /\ Cardinality(Accounts) \in Nat
           /\ Cardinality(pending) <= Cardinality(Accounts)
           /\ stage = "outputs" => Cardinality(pending) > 0
<1>1. IsFiniteSet(Accounts) /\ pending \subseteq Accounts
  BY LedgerAssumption DEF TypeInv, TypeOK
<1>2. IsFiniteSet(pending) /\ Cardinality(pending) <= Cardinality(Accounts)
  BY <1>1, FS_Subset
<1>3. Cardinality(pending) \in Nat /\ Cardinality(Accounts) \in Nat
  BY <1>1, <1>2, FS_CardinalityType
<1>4. stage = "outputs" => Cardinality(pending) # 0
  BY <1>2, FS_EmptySet DEF TypeInv, StageInv
<1> QED BY <1>2, <1>3, <1>4

LEMMA RequestsLeftType ==
    ASSUME TypeInv
    PROVE  /\ RequestsLeft \in 0..(Cardinality(Accounts) + 4)
           /\ stage # "idle" => RequestsLeft > 0
<1>1. stage \in Stages
  BY DEF TypeInv, TypeOK
<1> QED BY <1>1, AccountsLeft DEF RequestsLeft, Stages

\* getTxs does not start again if no confirmed transaction lacks its block.
LEMMA FinishEnds ==
    ASSUME NEW built, Finish(built), ConfirmedHaveHeights(built)
    PROVE  stage' = "idle"
BY DEF Finish, ConfirmedHaveHeights, Throw, Return

LEMMA TransfersHaveHeights == ASSUME TypeInv PROVE ConfirmedHaveHeights(TxsFromTransfers)
BY TransfersShape DEF TypeInv, TypeOK, ConfirmedHaveHeights, HasTransfersOnly

LEMMA AllHaveHeights ==
    ASSUME TypeInv, stage = "outputs",
           NEW account, NEW seq \in Responses(account), NEW order \in Orders(seq)
    PROVE  ConfirmedHaveHeights(All(seq, order))
<1>1. Records(txs) /\ \A t \in DOMAIN txs : HasTransfersOnly(txs[t])
  BY DEF TypeInv, TypeOK, ShapeInv
<1>2. order \in SetToSeqs(EntriesOf(With(seq)))
  BY DEF Orders
<1> QED BY <1>1, <1>2, WithType, MergeOutputTxsResult DEF All, Combination

LEMMA RequestsDecrease ==
    ASSUME TypeInv, Step
    PROVE  RequestsLeft' < RequestsLeft
<1>1. stage # "idle"
  BY DEF Step, RequestFails, CheckPool, Connect, GetTransfers, GetAccountIndices, GetOutputs
<1>2. RequestsLeft > 0
  BY <1>1, RequestsLeftType
<1>3. ASSUME stage' = "idle"
      PROVE  RequestsLeft' < RequestsLeft
  BY <1>2, <1>3 DEF RequestsLeft
<1>4. Cardinality(Accounts) \in Nat
  BY AccountsLeft
<1>5. CASE RequestFails
  BY <1>3, <1>5 DEF RequestFails, Throw
<1>6. CASE CheckPool
  <2>1. CASE stage' = "connect"
    BY <1>4, <1>6, <2>1 DEF CheckPool, RequestsLeft
  <2> QED BY <1>3, <1>6, <2>1 DEF CheckPool, Throw
<1>7. CASE Connect
  BY <1>4, <1>7 DEF Connect, RequestsLeft
<1>8. CASE GetTransfers
  <2>1. CASE stage' = "accounts"
    BY <1>4, <1>8, <2>1 DEF GetTransfers, RequestsLeft
  <2>2. CASE Finish(TxsFromTransfers)
    BY <1>3, <2>2, FinishEnds, TransfersHaveHeights
  <2> QED BY <1>3, <1>8, <2>1, <2>2 DEF GetTransfers, Return
<1>9. CASE GetAccountIndices
  BY <1>4, <1>9 DEF GetAccountIndices, RequestsLeft
<1>10. CASE GetOutputs
  <2> DEFINE account == Min(pending)
  <2>1. stage = "outputs" /\ account \in pending
    BY <1>10, NextAccount DEF GetOutputs
  <2>2. PICK seq \in Responses(account) :
           \/ GoesOn(seq)
           \/ stage' = "idle"
           \/ \E order \in Orders(seq) : stage' = "idle" \/ Finish(All(seq, order))
    BY <1>10, GetOutputsCases DEF Fails, Throw, Return
  <2>3. CASE GoesOn(seq)
    <3>1. Cardinality(pending \ {account}) = Cardinality(pending) - 1
      BY <2>1, AccountsLeft, FS_RemoveElement
    <3>2. RequestsLeft' = Cardinality(pending)' /\ RequestsLeft = Cardinality(pending)
      BY <2>1, <2>3 DEF RequestsLeft, GoesOn
    <3>3. Cardinality(pending)' = Cardinality(pending) - 1
      BY <2>3, <3>1 DEF GoesOn
    <3>4. Cardinality(pending) \in Nat
      BY AccountsLeft
    <3> QED BY <3>2, <3>3, <3>4
  <2>4. ASSUME NEW order \in Orders(seq), Finish(All(seq, order))
        PROVE  stage' = "idle"
    BY <2>1, <2>4, FinishEnds, AllHaveHeights
  <2> QED BY <1>3, <2>2, <2>3, <2>4
<1> QED BY <1>5, <1>6, <1>7, <1>8, <1>9, <1>10 DEF Step

\* Each step of a call is one of the requests that are left to it, or the
\* wallet changes.
CallsAdvance ==
    /\ [](RequestsLeft \in 0..(Cardinality(Accounts) + 4))
    /\ [][stage # "idle" => \/ Step /\ RequestsLeft' < RequestsLeft
                            \/ Change /\ RequestsLeft' = RequestsLeft]_vars

(* A call makes at most four requests more than there are accounts, then   *)
(* it returned or threw: no change of the wallet sends it back, and where  *)
(* merging does not overflow the stack getTxs never finds a confirmed      *)
(* transaction without a block, for which it would start again.            *)
THEOREM CallsAreBounded == Spec => CallsAdvance
<1>1. TypeInv => RequestsLeft \in 0..(Cardinality(Accounts) + 4)
  BY RequestsLeftType
<1>2. TypeInv /\ [Next]_vars =>
         [stage # "idle" => \/ Step /\ RequestsLeft' < RequestsLeft
                            \/ Change /\ RequestsLeft' = RequestsLeft]_vars
  <2> SUFFICES ASSUME TypeInv, Next, stage # "idle"
               PROVE  \/ Step /\ RequestsLeft' < RequestsLeft
                      \/ Change /\ RequestsLeft' = RequestsLeft
    OBVIOUS
  <2>1. CASE Call
    BY <2>1 DEF Call
  <2>2. CASE Step
    BY <2>2, RequestsDecrease
  <2>3. CASE Forget
    BY <2>3 DEF Forget, TypeInv, StageInv
  <2>4. CASE Change
    BY <2>4 DEF Change, clientVars, RequestsLeft
  <2> QED BY <2>1, <2>2, <2>3, <2>4 DEF Next
<1> QED BY <1>1, <1>2, TypeInvHolds, PTL DEF Spec, CallsAdvance
=============================================================================
