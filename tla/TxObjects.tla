------------------------------ MODULE TxObjects ------------------------------
(***************************************************************************)
(* The merging of getTxs and getOutputs as the code does it, object by     *)
(* object: transactions refer to a block, a block lists transactions, and  *)
(* to merge either is to merge the other.  WalletRpcTxs says what comes of *)
(* it in a few sets; here it is compared with the recursion itself, which  *)
(* may well not end.                                                       *)
(*                                                                         *)
(* The objects of a transaction and of the block that is made for it have  *)
(* the same number; 0 is a reference to no block.                          *)
(***************************************************************************)
EXTENDS WalletRpcTxs

CONSTANT StackDepth   \* bound: the nested merges of transactions

NoObjects ==
    [tx |-> <<>>, built |-> <<>>, block |-> <<>>, mergedInto |-> <<>>,
     height |-> <<>>, blockTxs |-> <<>>, error |-> "none"]

\* A transaction as it is converted, in a block of its own if it has one.
New(heap, entry) ==
    LET o == Len(heap.tx) + 1
    IN  [heap EXCEPT
           !.tx = Append(@, entry.tx), !.built = Append(@, entry.built),
           !.mergedInto = Append(@, o), !.blockTxs = Append(@, <<o>>),
           !.height = Append(@, entry.built.height),
           !.block = Append(@, IF entry.built.height = Null THEN 0 ELSE o)]

HeightOf(heap, o) == IF heap.block[o] = 0 THEN Null ELSE heap.height[heap.block[o]]

\* A transaction without a block gets one of the other's height.
GiveBlock(heap, o, other) ==
    IF heap.block[o] # 0 THEN heap
    ELSE [heap EXCEPT !.block[o] = o, !.height[o] = HeightOf(heap, other)]

\* The fields of a MoneroTx, and those that a MoneroTxWallet adds to them.
MergeFields(heap, a, b) ==
    IF heap.built[a].isFailed # heap.built[b].isFailed
    THEN [heap EXCEPT !.error = "irreconcilable"]
    ELSE [heap EXCEPT
            !.built[a] = [MergedTx(@, heap.built[b]) EXCEPT
                            !.incoming = heap.built[a].incoming,
                            !.outgoing = heap.built[a].outgoing],
            !.mergedInto[b] = a]

MergeWalletFields(heap, a, b) ==
    IF heap.error # "none" THEN heap
    ELSE IF heap.built[a].isLocked # heap.built[b].isLocked
    THEN [heap EXCEPT !.error = "irreconcilable"]
    ELSE LET merged == MergedTx(heap.built[a], heap.built[b])
         IN  [heap EXCEPT !.built[a].incoming = merged.incoming,
                          !.built[a].outgoing = merged.outgoing]

RECURSIVE MergeTxObjects(_, _, _, _), MergeBlockObjects(_, _, _, _, _)

\* a.merge(b) of transactions: those of the wallet are merged after their
\* base classes, which merge the blocks if they differ.
MergeTxObjects(heap, a, b, depth) ==
    IF heap.error # "none" \/ a = b THEN heap
    ELSE IF depth = 0 THEN [heap EXCEPT !.error = "stackOverflow"]
    ELSE LET placed == GiveBlock(GiveBlock(heap, a, b), b, a)
             base   == IF heap.block[a] = heap.block[b] THEN MergeFields(heap, a, b)
                       ELSE MergeBlockObjects(placed, placed.block[a], placed.block[b],
                                              1, depth - 1)
         IN  MergeWalletFields(base, a, b)

\* a.merge(b) of blocks, from the i-th transaction of b on.
MergeBlockObjects(heap, a, b, i, depth) ==
    IF heap.error # "none" \/ a = b \/ i > Len(heap.blockTxs[b]) THEN heap
    ELSE LET t     == heap.blockTxs[b][i]
             moved == [heap EXCEPT !.block[t] = a,
                                   !.height[a] = IF i = 1 THEN Latest(@, heap.height[b]) ELSE @]
             same  == {u \in ToSet(heap.blockTxs[a]) : heap.tx[u] = heap.tx[t]}
             next  == IF same # {} THEN MergeTxObjects(moved, CHOOSE u \in same : TRUE, t, depth)
                      ELSE [moved EXCEPT !.blockTxs[a] = Append(@, t)]
         IN  IF next.error = "none" /\ Len(next.blockTxs[b]) # Len(heap.blockTxs[b])
             THEN [next EXCEPT !.error = "modified"]
             ELSE MergeBlockObjects(next, a, b, i + 1, depth)

\* mutation: the block is not looked up by its height
MergeObjectOnly(skipIfAbsent, maps, o) ==
    LET t     == maps.heap.tx[o]
        known == t \in DOMAIN maps.txs
    IN  [maps EXCEPT
           !.txs = IF known \/ skipIfAbsent THEN @ ELSE @ @@ t :> o,
           !.heap = IF known THEN MergeTxObjects(@, maps.txs[t], o, StackDepth) ELSE @]

\* mergeTx, with its two maps.
MergeObject(skipIfAbsent, maps, o) ==
    LET t      == maps.heap.tx[o]
        known  == t \in DOMAIN maps.txs
        heap   == IF known THEN MergeTxObjects(maps.heap, maps.txs[t], o, StackDepth)
                  ELSE maps.heap
        height == HeightOf(heap, o)
        b      == heap.block[o]
    IN  [txs |-> IF known \/ skipIfAbsent THEN maps.txs ELSE maps.txs @@ t :> o,
         blocks |-> IF height = Null THEN maps.blocks ELSE maps.blocks @@ height :> b,
         heap |-> IF height \in DOMAIN maps.blocks
                  THEN MergeBlockObjects(heap, maps.blocks[height], b, 1, StackDepth)
                  ELSE heap]

\* One response after the other, converted and merged.
MergeNew(maps, entries) ==
    FoldLeft(LAMBDA acc, entry :
                MergeObject(FALSE, [acc EXCEPT !.heap = New(@, entry)], Len(acc.heap.tx) + 1),
             maps, entries)

EmptyMaps(heap) == [txs |-> <<>>, blocks |-> <<>>, heap |-> heap]

\* The transactions of the map as they are now.
Built(maps) ==
    [t \in DOMAIN maps.txs |->
        [maps.heap.built[maps.txs[t]] EXCEPT !.height = HeightOf(maps.heap, maps.txs[t])]]

\* TxHeightComparator: by height and, in a block, as it lists them.
Sorted(maps) ==
    CHOOSE seq \in SetToSeqs(DOMAIN maps.txs) :
        \A i, j \in DOMAIN seq :
            LET a == maps.txs[seq[i]]
                b == maps.txs[seq[j]]
                height(o) == HeightOf(maps.heap, o)
                place_(o) == SelectInSeq(maps.heap.blockTxs[maps.heap.block[o]], LAMBDA u : u = o)
            IN  i < j => \/ height(a) < height(b)
                         \/ height(a) = height(b) /\ place_(a) <= place_(b)

\* Transactions that the query excludes leave the lists of their blocks.
Exclude(heap, excluded) ==
    [heap EXCEPT !.blockTxs = [b \in DOMAIN @ |-> SelectSeq(@[b], LAMBDA o : o \notin excluded)]]

\* getOutputsAux, of two responses.
OutputObjects(heap, earlier, entries) == MergeNew(MergeNew(EmptyMaps(heap), earlier), entries)

\* getTxs, of the transactions with transfers and of those with outputs:
\* the former are the first objects.
TxObjects(maps, outputMaps) ==
    LET with   == DOMAIN Included(Built(outputMaps))
        out    == {outputMaps.txs[t] : t \in DOMAIN outputMaps.txs \ with}
        heap   == Exclude(outputMaps.heap, out)
        order  == SelectSeq(Sorted(outputMaps), LAMBDA t : t \in with)
        Merged(acc, t) == MergeObject(TRUE, acc, acc.heap.mergedInto[outputMaps.txs[t]])
    IN  FoldLeft(LAMBDA acc, t : Merged(acc, t), [maps EXCEPT !.heap = heap], order)

Result(built, error) ==
    IF error # "none" THEN [txs |-> <<>>, error |-> error] ELSE [txs |-> built, error |-> "none"]

\* What may come of the last response, with objects and with sets.
ObjectResults(entries) ==
    LET maps == MergeNew(EmptyMaps(NoObjects), CHOOSE seq \in SetToSeqs(EntriesOf(txs)) : TRUE)
        ResultOf(outputMaps) ==
           IF outputMaps.heap.error # "none" \/ ~BuildsTxs
           THEN Result(Included(Built(outputMaps)), outputMaps.heap.error)
           ELSE LET merged == TxObjects(maps, outputMaps)
                IN  Result(Built(merged), merged.heap.error)
    IN  {ResultOf(OutputObjects(maps.heap, earlier, last)) :
           earlier \in SetToSeqs(EntriesOf(outputTxs)), last \in SetToSeqs(entries)}

SetResults(entries) ==
    LET ResultsOf(merged) ==
           LET all  == WithHeights(merged.txs, merged.blocks)
               with == Included(all)
               Combined(order) == MergeOutputTxs(txs, with, merged.blocks, order)
           IN  IF merged.error # "none" \/ ~BuildsTxs THEN {Result(with, merged.error)}
               ELSE {Result(Combined(order).txs, Combined(order).error) :
                       order \in InBlockOrder(EntriesOf(with))}
    IN  UNION {ResultsOf(MergeAll(FALSE, outputTxs, blocks, last)) : last \in SetToSeqs(entries)}

\* Whatever was read before it, the last response is merged to what the
\* objects of the code are merged to, and the call fails exactly where their
\* recursion does not end.  Only where the chain reorganizes after outputs
\* were read may the two differ: a block object of the code then stays known
\* by a height that its transactions have left.
MergesAsObjects ==
    stage = "outputs" /\ Cardinality(pending) = 1 /\ (Reorganized => outputTxs = <<>>) =>
        LET entries == TxsOfOutputs(Min(pending))
        IN  SetResults(entries) = ObjectResults(entries)

=============================================================================
