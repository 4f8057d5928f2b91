-------------------------- MODULE TxMergingProofs --------------------------
(***************************************************************************)
(* The merging of WalletRpcTxs: what it does to transactions and to the    *)
(* blocks that they share, whatever the order of the entries.              *)
(***************************************************************************)
EXTENDS WalletRpcTxs, DataInduction, SequenceTheorems

(***************************************************************************)
(* Merging.                                                                *)
(***************************************************************************)

(* A set in any order: each of its elements once.                          *)
LEMMA OrderIsOfAll ==
    ASSUME NEW set, IsFiniteSet(set), NEW seq \in SetToSeqs(set)
    PROVE  /\ Cardinality(set) \in Nat
           /\ seq \in [1..Cardinality(set) -> set]
           /\ \A e \in set : \E i \in 1..Cardinality(set) : seq[i] = e
           /\ \A i, j \in 1..Cardinality(set) : seq[i] = seq[j] => i = j
<1> DEFINE n == Cardinality(set)
<1>1. n \in Nat
  BY FS_CardinalityType
<1>2. seq \in [1..n -> set] /\ \A i, j \in 1..n : i # j => seq[i] # seq[j]
  BY DEF SetToSeqs
<1>3. IsFiniteSet(1..n) /\ Cardinality(1..n) = n
  <2> HIDE DEF n
  <2> QED BY <1>1, FS_Interval
<1> DEFINE taken == {seq[i] : i \in 1..n}
<1>4. taken \subseteq set /\ IsFiniteSet(taken)
  BY <1>2, FS_Subset
<1>5. seq \in Bijection(1..n, taken)
  BY <1>2 DEF Bijection, Injection, Surjection, IsInjective
<1>6. Cardinality(taken) = n
  <2> HIDE DEF taken, n
  <2> QED BY <1>3, <1>5, FS_Bijection DEF ExistsBijection
<1>7. taken = set
  <2> HIDE DEF taken
  <2> QED BY <1>4, <1>6, FS_Subset
<1> HIDE DEF n
<1> QED BY <1>1, <1>2, <1>7 DEF n

(* Merging is step by step.                                                *)
LEMMA MergeAllSteps ==
    ASSUME NEW skip, NEW built, NEW all, NEW n \in Nat, NEW entries, DOMAIN entries = 1..n
    PROVE  \E accs :
              /\ accs[0] = [txs |-> built, blocks |-> all, error |-> "none"]
              /\ \A i \in 1..n : accs[i] = MergeTx(skip, accs[i - 1], entries[i])
              /\ MergeAll(skip, built, all, entries) = accs[n]
<1> DEFINE base == [txs |-> built, blocks |-> all, error |-> "none"]
           Value(g, s) ==
              IF s = {} THEN base ELSE MergeTx(skip, g[s \ {Max(s)}], entries[Max(s)])
           Folds(k, g) == g = [s \in SUBSET (1..k) |-> Value(g, s)]
           I == {k \in Nat : \E g : Folds(k, g)}
<1> HIDE DEF base
<1>1. \A k \in Nat : \A s \in SUBSET (1..k) : s # {} =>
         Max(s) \in s /\ \A x \in s : x <= Max(s)
  <2>1. \A k \in Nat : \A s \in SUBSET (1..k) : s \in SUBSET (0..k)
    OBVIOUS
  <2> QED BY <2>1, MaxIsGreatest
<1>2. 0 \in I
  <2> DEFINE g == [s \in SUBSET (1..0) |-> base]
  <2>1. \A s \in SUBSET (1..0) : s = {}
    OBVIOUS
  <2>2. Folds(0, g)
    BY <2>1
  <2> QED BY <2>2
<1>3. ASSUME NEW k \in Nat, k \in I
      PROVE  k + 1 \in I
  <2>1. PICK g : Folds(k, g)
    BY <1>3
  <2> DEFINE h == [s \in SUBSET (1..(k + 1)) |->
                     IF k + 1 \in s THEN MergeTx(skip, g[s \ {k + 1}], entries[k + 1]) ELSE g[s]]
  <2>2. \A s \in SUBSET (1..(k + 1)) :
           h[s] = IF k + 1 \in s THEN MergeTx(skip, g[s \ {k + 1}], entries[k + 1]) ELSE g[s]
    OBVIOUS
  <2>3. h = [s \in SUBSET (1..(k + 1)) |-> h[s]]
    OBVIOUS
  <2> HIDE DEF h
  <2>4. ASSUME NEW s \in SUBSET (1..(k + 1))
        PROVE  h[s] = Value(h, s)
    <3>1. CASE k + 1 \in s
      <4>1. k + 1 \in Nat /\ s # {} /\ \A x \in s : x \in Nat /\ x <= k + 1
        BY <3>1
      <4>2. Max(s) = k + 1
        <5>1. Max(s) \in s /\ \A x \in s : x <= Max(s)
          BY <1>1, <4>1
        <5>2. Max(s) \in Nat /\ Max(s) <= k + 1
          BY <4>1, <5>1
        <5>3. k + 1 <= Max(s)
          BY <3>1, <5>1
        <5> QED BY <4>1, <5>2, <5>3
      <4>3. s \ {k + 1} \in SUBSET (1..(k + 1)) /\ k + 1 \notin s \ {k + 1} /\ s # {}
        BY <3>1
      <4>4. h[s \ {k + 1}] = g[s \ {k + 1}]
        BY <2>2, <4>3
      <4> QED BY <2>2, <3>1, <4>2, <4>3, <4>4
    <3>2. CASE k + 1 \notin s
      <4>1. s \in SUBSET (1..k)
        BY <3>2
      <4>2. g[s] = Value(g, s)
        BY <2>1, <4>1
      <4>3. s \ {Max(s)} \in SUBSET (1..(k + 1)) /\ k + 1 \notin s \ {Max(s)}
        BY <3>2
      <4>4. h[s] = g[s] /\ h[s \ {Max(s)}] = g[s \ {Max(s)}]
        BY <2>2, <3>2, <4>3
      <4> QED BY <4>2, <4>4
    <3> QED BY <3>1, <3>2
  <2>5. Folds(k + 1, h)
    <3> HIDE DEF Value
    <3> QED BY <2>3, <2>4
  <2>6. \E f : Folds(k + 1, f)
    <3> HIDE DEF Folds
    <3> QED BY <2>5
  <2> HIDE DEF Folds
  <2> QED BY <2>6
<1>4. \E g : Folds(n, g)
  <2>1. Nat \subseteq I
    <3> HIDE DEF I
    <3> QED BY <1>2, <1>3, SetInduction
  <2> QED BY <2>1
<1> DEFINE fold == CHOOSE g : Folds(n, g)
<1>5. Folds(n, fold)
  <2> HIDE DEF Folds
  <2> QED BY <1>4
<1>6. MergeAll(skip, built, all, entries) = fold[1..n]
  BY DEF MergeAll, FoldLeft, MapThenFoldSet, base
<1> HIDE DEF fold
<1> DEFINE accs == [i \in 0..n |-> fold[1..i]]
<1>7. \A i \in 0..n : accs[i] = fold[1..i]
  OBVIOUS
<1>8. accs[0] = base
  <2>1. 1..0 = {} /\ 1..0 \in SUBSET (1..n)
    OBVIOUS
  <2> QED BY <1>5, <1>7, <2>1
<1>9. ASSUME NEW i \in 1..n
      PROVE  accs[i] = MergeTx(skip, accs[i - 1], entries[i])
  <2>1. i \in Nat /\ i - 1 \in 0..n /\ i \in 0..n /\ i \in 1..i
    OBVIOUS
  <2>2. 1..i \in SUBSET (1..n) /\ 1..i # {} /\ 1..i \in SUBSET (1..i)
    <3>1. \A x \in 1..i : x \in 1..n
      OBVIOUS
    <3> QED BY <2>1, <3>1
  <2>3. Max(1..i) \in 1..i /\ \A x \in 1..i : x <= Max(1..i)
    BY <1>1, <2>1, <2>2
  <2>4. Max(1..i) = i
    BY <2>1, <2>3
  <2>5. (1..i) \ {i} = 1..(i - 1)
    BY <2>1
  <2>6. fold[1..i] = MergeTx(skip, fold[(1..i) \ {Max(1..i)}], entries[Max(1..i)])
    BY <1>5, <2>2
  <2> HIDE DEF accs
  <2>7. fold[1..i] = MergeTx(skip, fold[1..(i - 1)], entries[i])
    BY <2>4, <2>5, <2>6
  <2> QED BY <1>7, <2>1, <2>7
<1>10. accs[n] = fold[1..n]
  OBVIOUS
<1> HIDE DEF accs
<1> QED BY <1>6, <1>8, <1>9, <1>10 DEF base

(* Merging keeps the types.                                                *)
LEMMA MergedTxType ==
    ASSUME NEW a \in TxRecords, NEW b \in TxRecords
    PROVE  MergedTx(a, b) \in TxRecords
<1>1. /\ a.isConfirmed \/ b.isConfirmed \in BOOLEAN
      /\ FALSE \in Criterion
      /\ a.isFailed \in BOOLEAN /\ a.isLocked \in BOOLEAN
  BY DEF TxRecords, Criterion
<1>2. /\ Latest(a.confirmations, b.confirmations) \in 0..MaxTop \cup {Null}
      /\ Latest(a.height, b.height) \in Heights \cup {Null}
  BY DEF TxRecords, Latest
<1>3. /\ a.incoming \cup b.incoming \in SUBSET Accounts
      /\ (IF a.outgoing = Null THEN b.outgoing ELSE a.outgoing) \in Accounts \cup {Null}
      /\ a.outputs \cup b.outputs \in SUBSET [output : Outputs, isSpent : BOOLEAN]
  BY DEF TxRecords
<1> QED BY <1>1, <1>2, <1>3 DEF MergedTx, TxRecords

LEMMA MaxHeight ==
    ASSUME NEW hs \in SUBSET Heights, hs # {}
    PROVE  Max(hs) \in hs /\ \A h \in hs : h <= Max(hs)
<1>1. MaxTop - 1 \in Nat /\ hs \in SUBSET (0..(MaxTop - 1))
  BY LedgerAssumption DEF Heights
<1> QED BY <1>1, MaxIsGreatest

LEMMA MergedBlockType ==
    ASSUME NEW some \in SUBSET Blocks, some # {}
    PROVE  /\ MergedBlock(some) \in Blocks
           /\ MergedBlock(some).height \in {b.height : b \in some}
<1> DEFINE hs == {b.height : b \in some}
<1>1. hs \in SUBSET Heights /\ hs # {}
  BY DEF Blocks
<1>2. Max(hs) \in hs /\ Max(hs) \in Heights
  <2> HIDE DEF hs
  <2> QED BY <1>1, MaxHeight
<1>3. /\ UNION {b.txs : b \in some} \in SUBSET Txs
      /\ UNION {b.outputTxs : b \in some} \in SUBSET Txs
      /\ UNION {b.keys : b \in some} \in SUBSET Heights
  BY DEF Blocks
<1>4. MergedBlock(some).height = Max(hs)
  BY DEF MergedBlock
<1> HIDE DEF hs
<1>5. MergedBlock(some) \in Blocks
  BY <1>2, <1>3 DEF MergedBlock, Blocks, hs
<1> QED BY <1>2, <1>4, <1>5 DEF hs

LEMMA MergeBlocksType ==
    ASSUME NEW all \in SUBSET Blocks, NEW some \in SUBSET Blocks, some # {}
    PROVE  MergeBlocks(all, some) \in SUBSET Blocks
<1> DEFINE merged == MergedBlock(some)
           known == {b \in all : merged.height \in b.keys}
           result == MergedBlock({merged} \cup known)
<1>1. merged \in Blocks
  BY MergedBlockType
<1>2. {merged} \cup known \in SUBSET Blocks /\ {merged} \cup known # {}
  BY <1>1
<1>3. result \in Blocks
  <2> HIDE DEF merged, known
  <2> QED BY <1>2, MergedBlockType
<1> HIDE DEF merged, result
<1>4. [result EXCEPT !.keys = @ \cup {merged.height}] \in Blocks
  BY <1>1, <1>3 DEF Blocks
<1> QED BY <1>4 DEF MergeBlocks, merged, result

-----------------------------------------------------------------------------
(* The blocks.                                                             *)

HasBlock(t, all) == \E b \in all : t \in b.txs

\* Blocks have the transactions that are in the block of their height.
BlocksAreTrue(all) ==
    \A b \in all :
        /\ b.keys \subseteq {b.height}
        /\ \A t \in b.txs \cup b.outputTxs : place[t] = "mined" /\ mined[t] = b.height

(* No transaction loses its block.                                         *)
LEMMA MergeBlocksCovers ==
    ASSUME NEW all, NEW some, NEW t, HasBlock(t, all) \/ HasBlock(t, some)
    PROVE  HasBlock(t, MergeBlocks(all, some))
<1> DEFINE merged == MergedBlock(some)
           known == {b \in all : merged.height \in b.keys}
           result == MergedBlock({merged} \cup known)
           final == [result EXCEPT !.keys = @ \cup {merged.height}]
<1>1. PICK b \in all \cup some : t \in b.txs
  BY DEF HasBlock
<1>2. merged.txs = UNION {c.txs : c \in some}
  BY DEF MergedBlock
<1>3. result.txs = UNION {c.txs : c \in {merged} \cup known} /\ final.txs = result.txs
  BY DEF MergedBlock
<1>4. MergeBlocks(all, some) = (all \ (some \cup known)) \cup {final}
  BY DEF MergeBlocks
<1> HIDE DEF merged, result, final
<1>5. b \in some => t \in merged.txs
  BY <1>1, <1>2
<1>6. b \in some \cup known => t \in final.txs
  BY <1>1, <1>3, <1>5
<1>7. b \notin some \cup known => b \in MergeBlocks(all, some)
  BY <1>1, <1>4
<1>8. final \in MergeBlocks(all, some)
  BY <1>4
<1> HIDE DEF known
<1> QED BY <1>1, <1>6, <1>7, <1>8 DEF HasBlock

(* No transaction gets the block of others.                                *)
LEMMA MergeBlocksOnly ==
    ASSUME NEW all, NEW some, NEW t, HasBlock(t, MergeBlocks(all, some))
    PROVE  HasBlock(t, all) \/ HasBlock(t, some)
<1> DEFINE merged == MergedBlock(some)
           known == {b \in all : merged.height \in b.keys}
           result == MergedBlock({merged} \cup known)
           final == [result EXCEPT !.keys = @ \cup {merged.height}]
<1>1. merged.txs = UNION {c.txs : c \in some}
  BY DEF MergedBlock
<1>2. result.txs = UNION {c.txs : c \in {merged} \cup known} /\ final.txs = result.txs
  BY DEF MergedBlock
<1>3. MergeBlocks(all, some) = (all \ (some \cup known)) \cup {final}
  BY DEF MergeBlocks
<1>4. known \subseteq all
  OBVIOUS
<1> HIDE DEF merged, result, final, known
<1>5. PICK b \in MergeBlocks(all, some) : t \in b.txs
  BY DEF HasBlock
<1>6. CASE b \in all
  BY <1>5, <1>6 DEF HasBlock
<1>7. CASE b = final
  <2>1. PICK c \in {merged} \cup known : t \in c.txs
    BY <1>2, <1>5, <1>7
  <2>2. CASE c = merged
    BY <2>1, <2>2, <1>1 DEF HasBlock
  <2>3. CASE c \in known
    BY <2>1, <2>3, <1>4 DEF HasBlock
  <2> QED BY <2>1, <2>2, <2>3
<1> QED BY <1>3, <1>5, <1>6, <1>7

(* Blocks of one height are merged to one of that height.                  *)
LEMMA MergeBlocksTrue ==
    ASSUME NEW all \in SUBSET Blocks, NEW some \in SUBSET Blocks, some # {},
           NEW h, \A b \in some : b.height = h, BlocksAreTrue(all), BlocksAreTrue(some)
    PROVE  BlocksAreTrue(MergeBlocks(all, some))
<1> DEFINE merged == MergedBlock(some)
           known == {b \in all : merged.height \in b.keys}
           result == MergedBlock({merged} \cup known)
           final == [result EXCEPT !.keys = @ \cup {merged.height}]
<1>1. merged \in Blocks /\ merged.height = h
  <2>1. merged \in Blocks /\ merged.height \in {b.height : b \in some}
    BY MergedBlockType
  <2> HIDE DEF merged
  <2> QED BY <2>1
<1>2. /\ merged.txs = UNION {c.txs : c \in some}
      /\ merged.outputTxs = UNION {c.outputTxs : c \in some}
      /\ merged.keys = UNION {c.keys : c \in some}
  BY DEF MergedBlock
<1>3. /\ result.txs = UNION {c.txs : c \in {merged} \cup known}
      /\ result.outputTxs = UNION {c.outputTxs : c \in {merged} \cup known}
      /\ result.keys = UNION {c.keys : c \in {merged} \cup known}
  BY DEF MergedBlock
<1>4. final.txs = result.txs /\ final.outputTxs = result.outputTxs /\ final.height = result.height
      /\ final.keys = result.keys \cup {merged.height}
  BY DEF MergedBlock
<1>5. MergeBlocks(all, some) = (all \ (some \cup known)) \cup {final}
  BY DEF MergeBlocks
<1> HIDE DEF merged
<1>6. BlocksAreTrue({merged})
  <2>1. merged.keys \subseteq {h}
    BY <1>2 DEF BlocksAreTrue
  <2>2. ASSUME NEW t \in merged.txs \cup merged.outputTxs
        PROVE  place[t] = "mined" /\ mined[t] = h
    <3>1. \E c \in some : t \in c.txs \cup c.outputTxs
      BY <1>2
    <3> QED BY <3>1 DEF BlocksAreTrue
  <2> QED BY <1>1, <2>1, <2>2 DEF BlocksAreTrue
<1>7. \A c \in {merged} \cup known : c.height = h
  BY <1>1 DEF BlocksAreTrue
<1>8. result.height = h
  <2>1. {merged} \cup known \in SUBSET Blocks /\ {merged} \cup known # {}
    BY <1>1
  <2>2. result.height \in {c.height : c \in {merged} \cup known}
    <3> HIDE DEF known
    <3> QED BY <2>1, MergedBlockType
  <2> HIDE DEF result, known
  <2> QED BY <1>7, <2>2
<1>9. BlocksAreTrue({merged} \cup known)
  BY <1>6 DEF BlocksAreTrue
<1> HIDE DEF result, final, known
<1>10. BlocksAreTrue({final})
  <2>1. final.keys \subseteq {h}
    BY <1>1, <1>3, <1>4, <1>7, <1>9 DEF BlocksAreTrue
  <2>2. ASSUME NEW t \in final.txs \cup final.outputTxs
        PROVE  place[t] = "mined" /\ mined[t] = h
    <3>1. \E c \in {merged} \cup known : t \in c.txs \cup c.outputTxs
      BY <1>3, <1>4
    <3> QED BY <1>7, <1>9, <3>1 DEF BlocksAreTrue
  <2> QED BY <1>4, <1>8, <2>1, <2>2 DEF BlocksAreTrue
<1> QED BY <1>5, <1>10 DEF BlocksAreTrue

(* In true blocks a transaction finds its height.                          *)
LEMMA HeightIsTrue ==
    ASSUME NEW all, NEW t, BlocksAreTrue(all), HasBlock(t, all)
    PROVE  place[t] = "mined" /\ HeightIn(all, t) = mined[t]
<1> DEFINE own == {b \in all : t \in b.txs}
<1>1. own # {} /\ \A b \in own : place[t] = "mined" /\ mined[t] = b.height
  BY DEF BlocksAreTrue, HasBlock
<1>2. HeightIn(all, t) = (CHOOSE b \in own : TRUE).height
  BY <1>1 DEF HeightIn
<1> HIDE DEF own
<1> QED BY <1>1, <1>2

LEMMA HeightInType ==
    ASSUME NEW all \in SUBSET Blocks, NEW t
    PROVE  /\ HeightIn(all, t) \in Heights \cup {Null}
           /\ HasBlock(t, all) => HeightIn(all, t) \in Heights
           /\ ~HasBlock(t, all) => HeightIn(all, t) = Null
<1> DEFINE own == {b \in all : t \in b.txs}
<1>1. HeightIn(all, t) = IF own = {} THEN Null ELSE (CHOOSE b \in own : TRUE).height
  BY DEF HeightIn
<1>2. (HasBlock(t, all) <=> own # {}) /\ \A b \in own : b.height \in Heights
  BY DEF HasBlock, Blocks
<1> HIDE DEF own
<1> QED BY <1>1, <1>2

-----------------------------------------------------------------------------
(* One step of merging.                                                    *)

IsEntry(e) == e.tx \in Txs /\ e.built \in TxRecords /\ e.built.height \in Heights
IsAcc(acc) ==
    Records(acc.txs) /\ acc.blocks \in SUBSET Blocks /\ acc.error \in {"none"} \cup Errors

Added(skip, acc, t) == IF skip /\ t \notin DOMAIN acc.txs THEN {} ELSE {t}
OwnBlock(skip, acc, e) ==
    [height |-> e.built.height, txs |-> Added(skip, acc, e.tx), outputTxs |-> {}, keys |-> {}]
BlocksToMerge(skip, acc, e) ==
    {OwnBlock(skip, acc, e)} \cup {b \in acc.blocks : e.tx \in b.txs \cup b.outputTxs}

LEMMA MergeTxBlocks ==
    ASSUME NEW skip, NEW acc, NEW e
    PROVE  MergeTx(skip, acc, e).blocks = MergeBlocks(acc.blocks, BlocksToMerge(skip, acc, e))
BY DEF MergeTx, Added, OwnBlock, BlocksToMerge

LEMMA MergeTxTxs ==
    ASSUME NEW skip, NEW acc, NEW e
    PROVE  /\ DOMAIN MergeTx(skip, acc, e).txs = DOMAIN acc.txs \cup Added(skip, acc, e.tx)
           /\ \A u \in DOMAIN acc.txs \cup Added(skip, acc, e.tx) :
                 MergeTx(skip, acc, e).txs[u] =
                    IF u # e.tx THEN acc.txs[u]
                    ELSE IF e.tx \in DOMAIN acc.txs THEN MergedTx(acc.txs[e.tx], e.built)
                    ELSE e.built
BY DEF MergeTx, Added

LEMMA MergeTxOld ==
    ASSUME NEW skip, NEW acc, NEW e, NEW u \in DOMAIN acc.txs
    PROVE  MergeTx(skip, acc, e).txs[u] =
              IF u = e.tx THEN MergedTx(acc.txs[u], e.built) ELSE acc.txs[u]
BY MergeTxTxs

LEMMA BlocksToMergeType ==
    ASSUME NEW skip, NEW acc, IsAcc(acc), NEW e, IsEntry(e)
    PROVE  BlocksToMerge(skip, acc, e) \in SUBSET Blocks /\ BlocksToMerge(skip, acc, e) # {}
<1>1. OwnBlock(skip, acc, e) \in Blocks
  BY DEF OwnBlock, Blocks, Added, IsEntry
<1> QED BY <1>1 DEF BlocksToMerge, IsAcc

LEMMA MergeTxType ==
    ASSUME NEW skip, NEW acc, IsAcc(acc), NEW e, IsEntry(e)
    PROVE  IsAcc(MergeTx(skip, acc, e))
<1> DEFINE new == MergeTx(skip, acc, e)
<1>1. new.blocks \in SUBSET Blocks
  BY MergeTxBlocks, BlocksToMergeType, MergeBlocksType DEF IsAcc
<1>2. DOMAIN new.txs \subseteq Txs
  BY MergeTxTxs DEF IsAcc, IsEntry, Records, Added
<1>3. ASSUME NEW u \in DOMAIN new.txs
      PROVE  new.txs[u] \in TxRecords
  <2>1. new.txs[u] = IF u # e.tx THEN acc.txs[u]
                     ELSE IF e.tx \in DOMAIN acc.txs THEN MergedTx(acc.txs[e.tx], e.built)
                     ELSE e.built
    BY <1>3, MergeTxTxs
  <2>2. u # e.tx => u \in DOMAIN acc.txs
    BY <1>3, MergeTxTxs DEF Added
  <2>3. \A x \in DOMAIN acc.txs : acc.txs[x] \in TxRecords
    BY DEF IsAcc, Records
  <2>4. e.built \in TxRecords
    BY DEF IsEntry
  <2> QED BY <2>1, <2>2, <2>3, <2>4, MergedTxType
<1>4. new.txs = [u \in DOMAIN new.txs |-> new.txs[u]]
  BY DEF MergeTx
<1> HIDE DEF new
<1>5. new.txs \in [DOMAIN new.txs -> TxRecords]
  BY <1>3, <1>4
<1>6. MergeTx(skip, acc, e).error \in {"none"} \cup Errors
  BY DEF MergeTx, IsAcc, Errors
<1> QED BY <1>1, <1>2, <1>5, <1>6 DEF IsAcc, Records, new

LEMMA MergeTxCovers ==
    ASSUME NEW skip, NEW acc, NEW e
    PROVE  /\ \A u : HasBlock(u, acc.blocks) => HasBlock(u, MergeTx(skip, acc, e).blocks)
           /\ ~skip \/ e.tx \in DOMAIN acc.txs => HasBlock(e.tx, MergeTx(skip, acc, e).blocks)
<1>1. ~skip \/ e.tx \in DOMAIN acc.txs => HasBlock(e.tx, BlocksToMerge(skip, acc, e))
  <2>1. ~skip \/ e.tx \in DOMAIN acc.txs => e.tx \in OwnBlock(skip, acc, e).txs
    BY DEF OwnBlock, Added
  <2>2. OwnBlock(skip, acc, e) \in BlocksToMerge(skip, acc, e)
    BY DEF BlocksToMerge
  <2> QED BY <2>1, <2>2 DEF HasBlock
<1> QED BY <1>1, MergeTxBlocks, MergeBlocksCovers

LEMMA MergeTxOnly ==
    ASSUME NEW skip, NEW acc, NEW e, NEW u, HasBlock(u, MergeTx(skip, acc, e).blocks)
    PROVE  HasBlock(u, acc.blocks) \/ u = e.tx
<1>1. HasBlock(u, BlocksToMerge(skip, acc, e)) => HasBlock(u, acc.blocks) \/ u = e.tx
  <2>1. OwnBlock(skip, acc, e).txs \subseteq {e.tx}
    BY DEF OwnBlock, Added
  <2> QED BY <2>1 DEF BlocksToMerge, HasBlock
<1> QED BY <1>1, MergeTxBlocks, MergeBlocksOnly

LEMMA MergeTxTrue ==
    ASSUME NEW skip, NEW acc, IsAcc(acc), BlocksAreTrue(acc.blocks),
           NEW e, IsEntry(e), place[e.tx] = "mined", mined[e.tx] = e.built.height
    PROVE  BlocksAreTrue(MergeTx(skip, acc, e).blocks)
<1> DEFINE some == BlocksToMerge(skip, acc, e)
<1>1. some \in SUBSET Blocks /\ some # {} /\ acc.blocks \in SUBSET Blocks
  BY BlocksToMergeType DEF IsAcc
<1>2. BlocksAreTrue({OwnBlock(skip, acc, e)}) /\ OwnBlock(skip, acc, e).height = e.built.height
  BY DEF BlocksAreTrue, OwnBlock, Added
<1>3. \A b \in some : b.height = e.built.height
  BY <1>2 DEF BlocksToMerge, BlocksAreTrue
<1>4. BlocksAreTrue(some)
  BY <1>2 DEF BlocksToMerge, BlocksAreTrue
<1> HIDE DEF some
<1>5. BlocksAreTrue(MergeBlocks(acc.blocks, some))
  BY <1>1, <1>3, <1>4, MergeBlocksTrue
<1> QED BY <1>5, MergeTxBlocks DEF some

-----------------------------------------------------------------------------
(* Merging a set of entries in order.                                      *)

IsMerging(skip, built, all, set, n, seq, accs) ==
    /\ n \in Nat
    /\ seq \in [1..n -> set]
    /\ \A e \in set : \E i \in 1..n : seq[i] = e
    /\ \A i, j \in 1..n : seq[i] = seq[j] => i = j
    /\ accs[0] = [txs |-> built, blocks |-> all, error |-> "none"]
    /\ \A i \in 1..n : accs[i] = MergeTx(skip, accs[i - 1], seq[i])
    /\ MergeAll(skip, built, all, seq) = accs[n]

LEMMA MergingExists ==
    ASSUME NEW skip, NEW built, NEW all, NEW set, IsFiniteSet(set), NEW seq \in SetToSeqs(set)
    PROVE  \E n, accs : IsMerging(skip, built, all, set, n, seq, accs)
<1> DEFINE n == Cardinality(set)
<1>1. /\ n \in Nat
      /\ seq \in [1..n -> set]
      /\ \A e \in set : \E i \in 1..n : seq[i] = e
      /\ \A i, j \in 1..n : seq[i] = seq[j] => i = j
  BY OrderIsOfAll
<1> HIDE DEF n
<1>2. DOMAIN seq = 1..n
  BY <1>1
<1>3. PICK accs :
         /\ accs[0] = [txs |-> built, blocks |-> all, error |-> "none"]
         /\ \A i \in 1..n : accs[i] = MergeTx(skip, accs[i - 1], seq[i])
         /\ MergeAll(skip, built, all, seq) = accs[n]
  BY <1>1, <1>2, MergeAllSteps
<1>4. IsMerging(skip, built, all, set, n, seq, accs)
  BY <1>1, <1>3 DEF IsMerging
<1> QED BY <1>4

(* The types, step by step.                                                *)
LEMMA MergingType ==
    ASSUME NEW skip, NEW built, Records(built), NEW all \in SUBSET Blocks,
           NEW set, \A e \in set : IsEntry(e), NEW n, NEW seq, NEW accs,
           IsMerging(skip, built, all, set, n, seq, accs)
    PROVE  \A i \in 0..n : IsAcc(accs[i])
<1> DEFINE I == {i \in Nat : i <= n => IsAcc(accs[i])}
<1>1. 0 \in I
  BY DEF IsMerging, IsAcc
<1>2. ASSUME NEW i \in Nat, i \in I
      PROVE  i + 1 \in I
  <2>1. ASSUME i + 1 <= n
        PROVE  IsAcc(accs[i + 1])
    <3>1. i + 1 \in 1..n /\ (i + 1) - 1 = i /\ i <= n
      BY <2>1 DEF IsMerging
    <3>2. accs[i + 1] = MergeTx(skip, accs[i], seq[i + 1]) /\ IsEntry(seq[i + 1])
      BY <3>1 DEF IsMerging
    <3> QED BY <1>2, <3>1, <3>2, MergeTxType
  <2> QED BY <2>1
<1>3. Nat \subseteq I
  <2> HIDE DEF I
  <2> QED BY <1>1, <1>2, SetInduction
<1> QED BY <1>3 DEF IsMerging

LEMMA MergeAllType ==
    ASSUME NEW skip, NEW built, Records(built), NEW all \in SUBSET Blocks,
           NEW set, IsFiniteSet(set), NEW seq \in SetToSeqs(set), \A e \in set : IsEntry(e)
    PROVE  IsAcc(MergeAll(skip, built, all, seq))
<1>1. PICK n, accs : IsMerging(skip, built, all, set, n, seq, accs)
  BY MergingExists
<1>2. n \in 0..n
  BY <1>1 DEF IsMerging
<1>3. \A i \in 0..n : IsAcc(accs[i])
  BY <1>1, MergingType
<1>4. MergeAll(skip, built, all, seq) = accs[n]
  BY <1>1 DEF IsMerging
<1> QED BY <1>2, <1>3, <1>4

(* The transactions: those that were there and, unless the absent are      *)
(* skipped, those of the entries.                                          *)
LEMMA MergingDomain ==
    ASSUME NEW skip \in BOOLEAN, NEW built, NEW all, NEW set, NEW n, NEW seq, NEW accs,
           IsMerging(skip, built, all, set, n, seq, accs)
    PROVE  \A i \in 0..n : \A u :
              u \in DOMAIN accs[i].txs <=>
                 u \in DOMAIN built \/ (~skip /\ \E j \in 1..i : seq[j].tx = u)
<1> DEFINE In(i, u) ==
              u \in DOMAIN built \/ (~skip /\ \E j \in 1..i : seq[j].tx = u)
           I == {i \in Nat : i <= n => \A u : u \in DOMAIN accs[i].txs <=> In(i, u)}
<1>1. 0 \in I
  <2>1. accs[0].txs = built /\ ~ \E j \in 1..0 : TRUE
    BY DEF IsMerging
  <2> QED BY <2>1
<1>2. ASSUME NEW i \in Nat, i \in I
      PROVE  i + 1 \in I
  <2>1. ASSUME i + 1 <= n, NEW u
        PROVE  u \in DOMAIN accs[i + 1].txs <=> In(i + 1, u)
    <3>1. i + 1 \in 1..n /\ (i + 1) - 1 = i /\ i <= n
      BY <2>1 DEF IsMerging
    <3>2. accs[i + 1] = MergeTx(skip, accs[i], seq[i + 1])
      BY <3>1 DEF IsMerging
    <3>3. DOMAIN accs[i + 1].txs = DOMAIN accs[i].txs \cup Added(skip, accs[i], seq[i + 1].tx)
      BY <3>2, MergeTxTxs
    <3>4. \A v : v \in DOMAIN accs[i].txs <=> In(i, v)
      BY <1>2, <3>1
    <3>5. \A j : j \in 1..(i + 1) <=> j \in 1..i \/ j = i + 1
      BY <1>2
    <3>6. CASE skip = TRUE
      BY <3>3, <3>4, <3>6 DEF Added
    <3>7. CASE skip = FALSE
      <4>1. Added(skip, accs[i], seq[i + 1].tx) = {seq[i + 1].tx}
        BY <3>7 DEF Added
      <4> QED BY <3>3, <3>4, <3>5, <3>7, <4>1
    <3> QED BY <3>6, <3>7
  <2>2. i + 1 \in Nat
    OBVIOUS
  <2> HIDE DEF In
  <2> QED BY <2>1, <2>2
<1>3. Nat \subseteq I
  <2> HIDE DEF I
  <2> QED BY <1>1, <1>2, SetInduction
<1>4. \A i \in 0..n : i \in Nat /\ i <= n
  BY DEF IsMerging
<1> QED BY <1>3, <1>4

(* Each transaction that had a block has one, and so has each that was     *)
(* merged.                                                                 *)
LEMMA MergingCovers ==
    ASSUME NEW skip \in BOOLEAN, NEW built, NEW all, NEW set, NEW n, NEW seq, NEW accs,
           IsMerging(skip, built, all, set, n, seq, accs)
    PROVE  \A i \in 0..n :
              /\ \A u : HasBlock(u, all) => HasBlock(u, accs[i].blocks)
              /\ \A j \in 1..i : ~skip \/ seq[j].tx \in DOMAIN built
                                    => HasBlock(seq[j].tx, accs[i].blocks)
<1> DEFINE Covers(i) ==
              /\ \A u : HasBlock(u, all) => HasBlock(u, accs[i].blocks)
              /\ \A j \in 1..i : ~skip \/ seq[j].tx \in DOMAIN built
                                    => HasBlock(seq[j].tx, accs[i].blocks)
           I == {i \in Nat : i <= n => Covers(i)}
<1>0. \A i \in 0..n : \A u :
         u \in DOMAIN accs[i].txs <=>
            u \in DOMAIN built \/ (~skip /\ \E j \in 1..i : seq[j].tx = u)
  BY MergingDomain
<1>1. 0 \in I
  <2>1. accs[0].blocks = all /\ \A j \in 1..0 : FALSE
    BY DEF IsMerging
  <2> QED BY <2>1
<1>2. ASSUME NEW i \in Nat, i \in I
      PROVE  i + 1 \in I
  <2>1. ASSUME i + 1 <= n
        PROVE  Covers(i + 1)
    <3>1. i + 1 \in 1..n /\ (i + 1) - 1 = i /\ i <= n /\ i \in 0..n
      BY <2>1 DEF IsMerging
    <3>2. accs[i + 1] = MergeTx(skip, accs[i], seq[i + 1])
      BY <3>1 DEF IsMerging
    <3>3. Covers(i)
      BY <1>2, <3>1
    <3>4. \A u : HasBlock(u, accs[i].blocks) => HasBlock(u, accs[i + 1].blocks)
      BY <3>2, MergeTxCovers
    <3>5. ~skip \/ seq[i + 1].tx \in DOMAIN built => HasBlock(seq[i + 1].tx, accs[i + 1].blocks)
      <4>1. skip = TRUE => \A u : u \in DOMAIN accs[i].txs <=> u \in DOMAIN built
        <5>1. \A u : u \in DOMAIN accs[i].txs <=>
                 u \in DOMAIN built \/ (~skip /\ \E j \in 1..i : seq[j].tx = u)
          BY <1>0, <3>1
        <5> QED BY <5>1
      <4>2. ~skip \/ seq[i + 1].tx \in DOMAIN accs[i].txs
               => HasBlock(seq[i + 1].tx, accs[i + 1].blocks)
        BY <3>2, MergeTxCovers
      <4> QED BY <4>1, <4>2
    <3>6. \A j : j \in 1..(i + 1) <=> j \in 1..i \/ j = i + 1
      BY <1>2
    <3> QED BY <3>3, <3>4, <3>5, <3>6
  <2> QED BY <2>1
<1>3. Nat \subseteq I
  <2> HIDE DEF I
  <2> QED BY <1>1, <1>2, SetInduction
<1>4. \A i \in 0..n : i \in Nat /\ i <= n
  BY DEF IsMerging
<1> QED BY <1>3, <1>4

LEMMA MergeAllCovers ==
    ASSUME NEW skip \in BOOLEAN, NEW built, NEW all,
           NEW set, IsFiniteSet(set), NEW seq \in SetToSeqs(set), \A e \in set : IsEntry(e)
    PROVE  LET merged == MergeAll(skip, built, all, seq)
           IN  /\ \A u : HasBlock(u, all) => HasBlock(u, merged.blocks)
               /\ \A e \in set : ~skip \/ e.tx \in DOMAIN built => HasBlock(e.tx, merged.blocks)
<1>1. PICK n, accs : IsMerging(skip, built, all, set, n, seq, accs)
  BY MergingExists
<1>2. /\ MergeAll(skip, built, all, seq) = accs[n] /\ n \in 0..n
      /\ \A e \in set : \E i \in 1..n : seq[i] = e
  BY <1>1 DEF IsMerging
<1>3. /\ \A u : HasBlock(u, all) => HasBlock(u, accs[n].blocks)
      /\ \A j \in 1..n : ~skip \/ seq[j].tx \in DOMAIN built
                            => HasBlock(seq[j].tx, accs[n].blocks)
  BY <1>1, <1>2, MergingCovers
<1>4. \A e \in set : ~skip \/ e.tx \in DOMAIN built => HasBlock(e.tx, accs[n].blocks)
  BY <1>2, <1>3
<1> QED BY <1>2, <1>3, <1>4

(* No other transaction has got a block.                                   *)
LEMMA MergeAllOnly ==
    ASSUME NEW skip, NEW built, NEW all,
           NEW set, IsFiniteSet(set), NEW seq \in SetToSeqs(set), \A e \in set : IsEntry(e),
           NEW u, \A e \in set : e.tx # u, ~HasBlock(u, all)
    PROVE  ~HasBlock(u, MergeAll(skip, built, all, seq).blocks)
<1>1. PICK n, accs : IsMerging(skip, built, all, set, n, seq, accs)
  BY MergingExists
<1> DEFINE Without(i) == ~HasBlock(u, accs[i].blocks)
           I == {i \in Nat : i <= n => Without(i)}
<1>2. 0 \in I
  BY <1>1 DEF IsMerging
<1>3. ASSUME NEW i \in Nat, i \in I
      PROVE  i + 1 \in I
  <2>1. ASSUME i + 1 <= n
        PROVE  Without(i + 1)
    <3>1. i + 1 \in 1..n /\ (i + 1) - 1 = i /\ i <= n
      BY <1>1, <2>1 DEF IsMerging
    <3>2. accs[i + 1] = MergeTx(skip, accs[i], seq[i + 1]) /\ seq[i + 1] \in set
      BY <1>1, <3>1 DEF IsMerging
    <3>3. ~HasBlock(u, accs[i].blocks)
      BY <1>3, <3>1
    <3> QED BY <3>2, <3>3, MergeTxOnly
  <2> QED BY <2>1
<1>4. Nat \subseteq I
  <2> HIDE DEF I
  <2> QED BY <1>2, <1>3, SetInduction
<1>5. n \in Nat /\ MergeAll(skip, built, all, seq) = accs[n]
  BY <1>1 DEF IsMerging
<1> QED BY <1>4, <1>5

(* Entries that are in the blocks of their heights leave the blocks true.  *)
LEMMA MergeAllTrue ==
    ASSUME NEW skip, NEW built, Records(built),
           NEW all \in SUBSET Blocks, BlocksAreTrue(all),
           NEW set, IsFiniteSet(set), NEW seq \in SetToSeqs(set), \A e \in set : IsEntry(e),
           \A e \in set : place[e.tx] = "mined" /\ mined[e.tx] = e.built.height
    PROVE  BlocksAreTrue(MergeAll(skip, built, all, seq).blocks)
<1>1. PICK n, accs : IsMerging(skip, built, all, set, n, seq, accs)
  BY MergingExists
<1>2. \A i \in 0..n : IsAcc(accs[i])
  BY <1>1, MergingType
<1> DEFINE I == {i \in Nat : i <= n => BlocksAreTrue(accs[i].blocks)}
<1>3. 0 \in I
  BY <1>1 DEF IsMerging
<1>4. ASSUME NEW i \in Nat, i \in I
      PROVE  i + 1 \in I
  <2>1. ASSUME i + 1 <= n
        PROVE  BlocksAreTrue(accs[i + 1].blocks)
    <3>1. i + 1 \in 1..n /\ (i + 1) - 1 = i /\ i <= n /\ i \in 0..n
      BY <1>1, <2>1 DEF IsMerging
    <3>2. accs[i + 1] = MergeTx(skip, accs[i], seq[i + 1]) /\ seq[i + 1] \in set
      BY <1>1, <3>1 DEF IsMerging
    <3>3. IsAcc(accs[i]) /\ BlocksAreTrue(accs[i].blocks)
      BY <1>2, <1>4, <3>1
    <3> QED BY <3>2, <3>3, MergeTxTrue
  <2> QED BY <2>1
<1>5. Nat \subseteq I
  <2> HIDE DEF I
  <2> QED BY <1>3, <1>4, SetInduction
<1>6. n \in I /\ n <= n /\ MergeAll(skip, built, all, seq) = accs[n]
  BY <1>1, <1>5 DEF IsMerging
<1> QED BY <1>6

-----------------------------------------------------------------------------
(* The errors of merging.                                                  *)

LEMMA MergeTxError ==
    ASSUME NEW skip, NEW acc, NEW e
    PROVE  /\ MergeTx(skip, acc, e).error = "none" =>
                /\ acc.error = "none"
                /\ e.tx \in DOMAIN acc.txs => Reconcilable(acc.txs[e.tx], e.built)
           /\ /\ acc.error = "none"
              /\ e.tx \in DOMAIN acc.txs =>
                    /\ Reconcilable(acc.txs[e.tx], e.built)
                    /\ ~Recurses(acc.blocks, BlocksToMerge(skip, acc, e), e.tx)
              => MergeTx(skip, acc, e).error = "none"
<1> DEFINE known == e.tx \in DOMAIN acc.txs
           agrees == Reconcilable(acc.txs[e.tx], e.built)
           recurses == Recurses(acc.blocks, BlocksToMerge(skip, acc, e), e.tx)
<1>1. MergeTx(skip, acc, e).error =
         CASE acc.error # "none" -> acc.error
           [] acc.error = "none" /\ known /\ ~agrees -> "irreconcilable"
           [] acc.error = "none" /\ known /\ agrees /\ recurses -> "stackOverflow"
           [] OTHER -> "none"
  BY DEF MergeTx, BlocksToMerge, OwnBlock, Added
<1> HIDE DEF known, agrees, recurses
<1>2. MergeTx(skip, acc, e).error = "none" => acc.error = "none" /\ (known => agrees)
  BY <1>1
<1>3. acc.error = "none" /\ (known => agrees /\ ~recurses) => MergeTx(skip, acc, e).error = "none"
  BY <1>1
<1> QED BY <1>2, <1>3 DEF known, agrees, recurses

LEMMA MergedTxFlags ==
    ASSUME NEW a, NEW b
    PROVE  MergedTx(a, b).isLocked = a.isLocked /\ MergedTx(a, b).isFailed = a.isFailed
BY DEF MergedTx

(* Merging that ends well has found all responses to agree.                *)
LEMMA MergingAgrees ==
    ASSUME NEW skip, NEW built, NEW all, NEW set, NEW n, NEW seq, NEW accs,
           IsMerging(skip, built, all, set, n, seq, accs), accs[n].error = "none"
    PROVE  \A e \in set : e.tx \in DOMAIN built => Reconcilable(built[e.tx], e.built)
<1> DEFINE Kept(i) == \A u \in DOMAIN built :
                         /\ u \in DOMAIN accs[i].txs
                         /\ accs[i].txs[u].isLocked = built[u].isLocked
                         /\ accs[i].txs[u].isFailed = built[u].isFailed
           Agree(i) == \A j \in 1..i : seq[j].tx \in DOMAIN built
                                          => Reconcilable(built[seq[j].tx], seq[j].built)
           I == {i \in Nat : i <= n => Kept(i) /\ (accs[i].error = "none" => Agree(i))}
<1>1. 0 \in I
  <2>1. accs[0].txs = built /\ \A j \in 1..0 : FALSE
    BY DEF IsMerging
  <2> QED BY <2>1
<1>2. ASSUME NEW i \in Nat, i \in I
      PROVE  i + 1 \in I
  <2>1. ASSUME i + 1 <= n
        PROVE  Kept(i + 1) /\ (accs[i + 1].error = "none" => Agree(i + 1))
    <3>1. i + 1 \in 1..n /\ (i + 1) - 1 = i /\ i <= n
      BY <2>1 DEF IsMerging
    <3>2. accs[i + 1] = MergeTx(skip, accs[i], seq[i + 1])
      BY <3>1 DEF IsMerging
    <3>3. Kept(i) /\ (accs[i].error = "none" => Agree(i))
      BY <1>2, <3>1
    <3>4. ASSUME NEW u \in DOMAIN built
          PROVE  /\ u \in DOMAIN accs[i + 1].txs
                 /\ accs[i + 1].txs[u].isLocked = built[u].isLocked
                 /\ accs[i + 1].txs[u].isFailed = built[u].isFailed
      <4>1. /\ u \in DOMAIN accs[i].txs
            /\ accs[i].txs[u].isLocked = built[u].isLocked
            /\ accs[i].txs[u].isFailed = built[u].isFailed
        BY <3>3, <3>4
      <4>2. u \in DOMAIN accs[i + 1].txs
        BY <3>2, <4>1, MergeTxTxs
      <4>3. accs[i + 1].txs[u] = IF u = seq[i + 1].tx THEN MergedTx(accs[i].txs[u], seq[i + 1].built)
                                 ELSE accs[i].txs[u]
        BY <3>2, <4>1, MergeTxOld
      <4> QED BY <4>1, <4>2, <4>3, MergedTxFlags
    <3>5. ASSUME accs[i + 1].error = "none", NEW j \in 1..(i + 1), seq[j].tx \in DOMAIN built
          PROVE  Reconcilable(built[seq[j].tx], seq[j].built)
      <4>1. /\ accs[i].error = "none"
            /\ seq[i + 1].tx \in DOMAIN accs[i].txs
                 => Reconcilable(accs[i].txs[seq[i + 1].tx], seq[i + 1].built)
        BY <3>2, <3>5, MergeTxError
      <4>2. CASE j \in 1..i
        BY <3>3, <3>5, <4>1, <4>2
      <4>3. CASE j = i + 1
        BY <3>3, <3>5, <4>1, <4>3 DEF Reconcilable
      <4>4. j \in 1..i \/ j = i + 1
        BY <1>2
      <4> QED BY <4>2, <4>3, <4>4
    <3> QED BY <3>4, <3>5
  <2>2. i + 1 \in Nat
    OBVIOUS
  <2> HIDE DEF Kept, Agree
  <2> QED BY <2>1, <2>2
<1>3. Nat \subseteq I
  <2> HIDE DEF I
  <2> QED BY <1>1, <1>2, SetInduction
<1>4. n \in Nat /\ \A e \in set : \E i \in 1..n : seq[i] = e
  BY DEF IsMerging
<1>5. Agree(n)
  <2> HIDE DEF Kept, Agree
  <2> QED BY <1>3, <1>4
<1> QED BY <1>4, <1>5

LEMMA MergeAllAgrees ==
    ASSUME NEW skip, NEW built, NEW all, NEW set, IsFiniteSet(set), NEW seq \in SetToSeqs(set),
           MergeAll(skip, built, all, seq).error = "none"
    PROVE  \A e \in set : e.tx \in DOMAIN built => Reconcilable(built[e.tx], e.built)
<1>1. PICK n, accs : IsMerging(skip, built, all, set, n, seq, accs)
  BY MergingExists
<1>2. accs[n].error = "none"
  BY <1>1 DEF IsMerging
<1> QED BY <1>1, <1>2, MergingAgrees

\* What is said of the transaction is true at this moment.
FlagsAreTrue(t, tx) == tx.isLocked = IsLocked(t) /\ tx.isFailed = (place[t] = "failed")

LEMMA MergingFlags ==
    ASSUME NEW skip, NEW built, \A u \in DOMAIN built : FlagsAreTrue(u, built[u]),
           NEW all, NEW set, \A e \in set : FlagsAreTrue(e.tx, e.built),
           NEW n, NEW seq, NEW accs, IsMerging(skip, built, all, set, n, seq, accs)
    PROVE  \A i \in 0..n : \A u \in DOMAIN accs[i].txs : FlagsAreTrue(u, accs[i].txs[u])
<1> DEFINE True(i) == \A u \in DOMAIN accs[i].txs : FlagsAreTrue(u, accs[i].txs[u])
           I == {i \in Nat : i <= n => True(i)}
<1>1. 0 \in I
  BY DEF IsMerging
<1>2. ASSUME NEW i \in Nat, i \in I
      PROVE  i + 1 \in I
  <2>1. ASSUME i + 1 <= n, NEW u \in DOMAIN accs[i + 1].txs
        PROVE  FlagsAreTrue(u, accs[i + 1].txs[u])
    <3>1. i + 1 \in 1..n /\ (i + 1) - 1 = i /\ i <= n
      BY <2>1 DEF IsMerging
    <3>2. accs[i + 1] = MergeTx(skip, accs[i], seq[i + 1]) /\ seq[i + 1] \in set
      BY <3>1 DEF IsMerging
    <3>3. True(i) /\ FlagsAreTrue(seq[i + 1].tx, seq[i + 1].built)
      BY <1>2, <3>1, <3>2
    <3>4. u \in DOMAIN accs[i].txs \cup Added(skip, accs[i], seq[i + 1].tx)
      BY <3>2, MergeTxTxs
    <3>5. accs[i + 1].txs[u] =
             IF u # seq[i + 1].tx THEN accs[i].txs[u]
             ELSE IF seq[i + 1].tx \in DOMAIN accs[i].txs
                  THEN MergedTx(accs[i].txs[seq[i + 1].tx], seq[i + 1].built)
                  ELSE seq[i + 1].built
      BY <3>2, <3>4, MergeTxTxs
    <3>6. u # seq[i + 1].tx => u \in DOMAIN accs[i].txs
      BY <3>4 DEF Added
    <3> QED BY <3>3, <3>5, <3>6, MergedTxFlags DEF FlagsAreTrue
  <2>2. i + 1 \in Nat
    OBVIOUS
  <2> HIDE DEF FlagsAreTrue
  <2> QED BY <2>1, <2>2
<1>3. Nat \subseteq I
  <2> HIDE DEF I
  <2> QED BY <1>1, <1>2, SetInduction
<1>4. \A i \in 0..n : i \in Nat /\ i <= n
  BY DEF IsMerging
<1> QED BY <1>3, <1>4

(* Merging ends well if all is true at one moment and nothing recurses.    *)
LEMMA MergingEndsWell ==
    ASSUME NEW skip, NEW built, \A u \in DOMAIN built : FlagsAreTrue(u, built[u]),
           NEW all, NEW set, \A e \in set : FlagsAreTrue(e.tx, e.built),
           NEW n, NEW seq, NEW accs, IsMerging(skip, built, all, set, n, seq, accs),
           \A i \in 1..n :
              seq[i].tx \in DOMAIN accs[i - 1].txs
                => ~Recurses(accs[i - 1].blocks, BlocksToMerge(skip, accs[i - 1], seq[i]), seq[i].tx)
    PROVE  accs[n].error = "none"
<1> DEFINE I == {i \in Nat : i <= n => accs[i].error = "none"}
<1>1. 0 \in I
  BY DEF IsMerging
<1>2. ASSUME NEW i \in Nat, i \in I
      PROVE  i + 1 \in I
  <2>1. ASSUME i + 1 <= n
        PROVE  accs[i + 1].error = "none"
    <3>1. i + 1 \in 1..n /\ (i + 1) - 1 = i /\ i <= n /\ i \in 0..n
      BY <2>1 DEF IsMerging
    <3>2. accs[i + 1] = MergeTx(skip, accs[i], seq[i + 1]) /\ seq[i + 1] \in set
      BY <3>1 DEF IsMerging
    <3>3. accs[i].error = "none"
      BY <1>2, <3>1
    <3>4. seq[i + 1].tx \in DOMAIN accs[i].txs
            => Reconcilable(accs[i].txs[seq[i + 1].tx], seq[i + 1].built)
      <4>1. /\ FlagsAreTrue(seq[i + 1].tx, seq[i + 1].built)
            /\ \A u \in DOMAIN accs[i].txs : FlagsAreTrue(u, accs[i].txs[u])
        BY <3>1, <3>2, MergingFlags
      <4> QED BY <4>1 DEF FlagsAreTrue, Reconcilable
    <3>5. seq[i + 1].tx \in DOMAIN accs[i].txs
            => ~Recurses(accs[i].blocks, BlocksToMerge(skip, accs[i], seq[i + 1]), seq[i + 1].tx)
      BY <3>1
    <3> QED BY <3>2, <3>3, <3>4, <3>5, MergeTxError
  <2> QED BY <2>1
<1>3. Nat \subseteq I
  <2> HIDE DEF I
  <2> QED BY <1>1, <1>2, SetInduction
<1> QED BY <1>3 DEF IsMerging

(* Where merging cannot recurse: among blocks without transactions built   *)
(* from outputs, as are those of these transactions themselves.            *)
LEMMA MergeBlocksResult ==
    ASSUME NEW all, NEW some
    PROVE  LET h == MergedBlock(some).height
               known == {b \in all : h \in b.keys}
           IN  \E final :
                  /\ MergeBlocks(all, some) = (all \ (some \cup known)) \cup {final}
                  /\ final.txs = UNION {b.txs : b \in some \cup known}
                  /\ final.outputTxs = UNION {b.outputTxs : b \in some \cup known}
                  /\ final.keys = {h} \cup UNION {b.keys : b \in some \cup known}
<1> DEFINE merged == MergedBlock(some)
           known == {b \in all : merged.height \in b.keys}
           result == MergedBlock({merged} \cup known)
           final == [result EXCEPT !.keys = @ \cup {merged.height}]
<1>1. /\ merged.txs = UNION {b.txs : b \in some}
      /\ merged.outputTxs = UNION {b.outputTxs : b \in some}
      /\ merged.keys = UNION {b.keys : b \in some}
  BY DEF MergedBlock
<1>2. /\ result.txs = UNION {b.txs : b \in {merged} \cup known}
      /\ result.outputTxs = UNION {b.outputTxs : b \in {merged} \cup known}
      /\ result.keys = UNION {b.keys : b \in {merged} \cup known}
  BY DEF MergedBlock
<1>3. /\ final.txs = result.txs /\ final.outputTxs = result.outputTxs
      /\ final.keys = result.keys \cup {merged.height}
      /\ MergeBlocks(all, some) = (all \ (some \cup known)) \cup {final}
  BY DEF MergeBlocks, MergedBlock
<1> HIDE DEF merged, known, result, final
<1>4. /\ result.txs = UNION {b.txs : b \in some \cup known}
      /\ result.outputTxs = UNION {b.outputTxs : b \in some \cup known}
      /\ result.keys = UNION {b.keys : b \in some \cup known}
  BY <1>1, <1>2
<1>5. /\ final.txs = UNION {b.txs : b \in some \cup known}
      /\ final.outputTxs = UNION {b.outputTxs : b \in some \cup known}
      /\ final.keys = {merged.height} \cup UNION {b.keys : b \in some \cup known}
  BY <1>3, <1>4
<1>6. \E f : /\ MergeBlocks(all, some) = (all \ (some \cup known)) \cup {f}
             /\ f.txs = UNION {b.txs : b \in some \cup known}
             /\ f.outputTxs = UNION {b.outputTxs : b \in some \cup known}
             /\ f.keys = {merged.height} \cup UNION {b.keys : b \in some \cup known}
  BY <1>3, <1>5
<1> QED BY <1>6 DEF merged, known

OfTransfersOnly(all) == \A b \in all : b.outputTxs = {}

LEMMA MergeTxOfTransfersOnly ==
    ASSUME NEW skip, NEW acc, NEW e, OfTransfersOnly(acc.blocks)
    PROVE  OfTransfersOnly(MergeTx(skip, acc, e).blocks)
<1> DEFINE some == BlocksToMerge(skip, acc, e)
           known == {b \in acc.blocks : MergedBlock(some).height \in b.keys}
<1>1. \A b \in some \cup known : b.outputTxs = {}
  BY DEF BlocksToMerge, OwnBlock, OfTransfersOnly
<1>2. PICK final :
         /\ MergeBlocks(acc.blocks, some) = (acc.blocks \ (some \cup known)) \cup {final}
         /\ final.outputTxs = UNION {b.outputTxs : b \in some \cup known}
  BY MergeBlocksResult
<1>3. MergeTx(skip, acc, e).blocks = MergeBlocks(acc.blocks, some)
  BY MergeTxBlocks
<1> HIDE DEF some, known
<1>4. final.outputTxs = {}
  BY <1>1, <1>2
<1> QED BY <1>2, <1>3, <1>4 DEF OfTransfersOnly

LEMMA MergingOfTransfersOnly ==
    ASSUME NEW skip, NEW built, NEW all, OfTransfersOnly(all), NEW set, NEW n, NEW seq, NEW accs,
           IsMerging(skip, built, all, set, n, seq, accs)
    PROVE  \A i \in 0..n : OfTransfersOnly(accs[i].blocks)
<1> DEFINE I == {i \in Nat : i <= n => OfTransfersOnly(accs[i].blocks)}
<1>1. 0 \in I
  BY DEF IsMerging
<1>2. ASSUME NEW i \in Nat, i \in I
      PROVE  i + 1 \in I
  <2>1. ASSUME i + 1 <= n
        PROVE  OfTransfersOnly(accs[i + 1].blocks)
    <3>1. i + 1 \in 1..n /\ (i + 1) - 1 = i /\ i <= n
      BY <2>1 DEF IsMerging
    <3>2. accs[i + 1] = MergeTx(skip, accs[i], seq[i + 1])
      BY <3>1 DEF IsMerging
    <3>3. OfTransfersOnly(accs[i].blocks)
      BY <1>2, <3>1
    <3> QED BY <3>2, <3>3, MergeTxOfTransfersOnly
  <2> QED BY <2>1
<1>3. Nat \subseteq I
  <2> HIDE DEF I
  <2> QED BY <1>1, <1>2, SetInduction
<1>4. \A i \in 0..n : i \in Nat /\ i <= n
  BY DEF IsMerging
<1> QED BY <1>3, <1>4

LEMMA MergeAllOfTransfersOnly ==
    ASSUME NEW skip, NEW built, NEW all, OfTransfersOnly(all),
           NEW set, IsFiniteSet(set), NEW seq \in SetToSeqs(set)
    PROVE  /\ OfTransfersOnly(MergeAll(skip, built, all, seq).blocks)
           /\ /\ \A u \in DOMAIN built : FlagsAreTrue(u, built[u])
              /\ \A e \in set : FlagsAreTrue(e.tx, e.built)
              => MergeAll(skip, built, all, seq).error = "none"
<1>1. PICK n, accs : IsMerging(skip, built, all, set, n, seq, accs)
  BY MergingExists
<1>2. n \in Nat /\ n \in 0..n /\ MergeAll(skip, built, all, seq) = accs[n]
  BY <1>1 DEF IsMerging
<1>3. \A i \in 0..n : OfTransfersOnly(accs[i].blocks)
  BY <1>1, MergingOfTransfersOnly
<1>4. \A i \in 1..n :
         ~Recurses(accs[i - 1].blocks, BlocksToMerge(skip, accs[i - 1], seq[i]), seq[i].tx)
  <2>1. \A i \in 1..n : i - 1 \in 0..n
    BY <1>2
  <2> QED BY <1>3, <2>1 DEF Recurses, OfTransfersOnly
<1>5. /\ \A u \in DOMAIN built : FlagsAreTrue(u, built[u])
      /\ \A e \in set : FlagsAreTrue(e.tx, e.built)
      => accs[n].error = "none"
  BY <1>1, <1>4, MergingEndsWell
<1> QED BY <1>2, <1>3, <1>5

(* Nor can it where each transaction that is mined was built in its block. *)
BuiltInBlocks(built, all) ==
    \A t \in DOMAIN built : place[t] = "mined" => \E b \in all : t \in b.txs /\ mined[t] \in b.keys

KnownAsBuilt(built, all) ==
    \A b \in all : b.keys # {} => \A t \in b.outputTxs : t \in DOMAIN built => t \in b.txs

LEMMA MergeTxKnown ==
    ASSUME NEW skip, NEW acc, IsAcc(acc), BlocksAreTrue(acc.blocks),
           NEW e, IsEntry(e), place[e.tx] = "mined", mined[e.tx] = e.built.height,
           NEW built, BuiltInBlocks(built, acc.blocks), KnownAsBuilt(built, acc.blocks)
    PROVE  /\ BuiltInBlocks(built, MergeTx(skip, acc, e).blocks)
           /\ KnownAsBuilt(built, MergeTx(skip, acc, e).blocks)
<1> DEFINE some == BlocksToMerge(skip, acc, e)
           h == MergedBlock(some).height
           known == {b \in acc.blocks : h \in b.keys}
<1>1. some \in SUBSET Blocks /\ some # {}
  BY BlocksToMergeType
<1>2. \A b \in some : b.height = e.built.height
  BY DEF BlocksToMerge, OwnBlock, BlocksAreTrue
<1>3. h = e.built.height
  <2>1. h \in {b.height : b \in some}
    BY <1>1, MergedBlockType
  <2> HIDE DEF some, h
  <2> QED BY <1>2, <2>1
<1>4. \A b \in some : b \notin acc.blocks => b.outputTxs = {}
  BY DEF BlocksToMerge, OwnBlock
<1>5. PICK final :
         /\ MergeBlocks(acc.blocks, some) = (acc.blocks \ (some \cup known)) \cup {final}
         /\ final.txs = UNION {b.txs : b \in some \cup known}
         /\ final.outputTxs = UNION {b.outputTxs : b \in some \cup known}
         /\ final.keys = {h} \cup UNION {b.keys : b \in some \cup known}
  BY MergeBlocksResult
<1>6. MergeTx(skip, acc, e).blocks = (acc.blocks \ (some \cup known)) \cup {final}
  BY <1>5, MergeTxBlocks
<1>7. \A b \in known : b.height = h
  BY DEF BlocksAreTrue
<1>8. \A b \in acc.blocks : h \in b.keys => b \in known
  OBVIOUS
<1>9. known \subseteq acc.blocks
  OBVIOUS
<1> HIDE DEF some, h, known
<1>10. ASSUME NEW t \in DOMAIN built, place[t] = "mined"
       PROVE  \E b \in MergeTx(skip, acc, e).blocks : t \in b.txs /\ mined[t] \in b.keys
  <2>1. PICK b \in acc.blocks : t \in b.txs /\ mined[t] \in b.keys
    BY <1>10 DEF BuiltInBlocks
  <2>2. CASE b \in some \cup known
    <3>1. t \in final.txs /\ mined[t] \in final.keys
      BY <1>5, <2>1, <2>2
    <3> QED BY <1>6, <3>1
  <2>3. CASE b \notin some \cup known
    BY <1>6, <2>1, <2>3
  <2> QED BY <2>2, <2>3
<1>11. ASSUME NEW t \in DOMAIN built, t \in final.outputTxs
       PROVE  t \in final.txs
  <2>1. PICK c \in some \cup known : t \in c.outputTxs
    BY <1>5, <1>11
  <2>2. c \in acc.blocks /\ c.height = h
    BY <1>2, <1>3, <1>4, <1>7, <1>9, <2>1
  <2>3. place[t] = "mined" /\ mined[t] = h
    BY <2>1, <2>2 DEF BlocksAreTrue
  <2>4. PICK b \in acc.blocks : t \in b.txs /\ h \in b.keys
    BY <1>11, <2>3 DEF BuiltInBlocks
  <2>5. b \in known
    BY <1>8, <2>4
  <2> QED BY <1>5, <2>4, <2>5
<1>12. KnownAsBuilt(built, MergeTx(skip, acc, e).blocks)
  BY <1>6, <1>11 DEF KnownAsBuilt
<1> QED BY <1>10, <1>12 DEF BuiltInBlocks

LEMMA MergingKnown ==
    ASSUME NEW skip, NEW built, Records(built), NEW all \in SUBSET Blocks, BlocksAreTrue(all),
           BuiltInBlocks(built, all), KnownAsBuilt(built, all),
           NEW set, \A e \in set : IsEntry(e),
           \A e \in set : place[e.tx] = "mined" /\ mined[e.tx] = e.built.height,
           NEW n, NEW seq, NEW accs, IsMerging(skip, built, all, set, n, seq, accs)
    PROVE  \A i \in 0..n : KnownAsBuilt(built, accs[i].blocks)
<1> DEFINE Good(i) == /\ BlocksAreTrue(accs[i].blocks)
                      /\ BuiltInBlocks(built, accs[i].blocks)
                      /\ KnownAsBuilt(built, accs[i].blocks)
           I == {i \in Nat : i <= n => Good(i)}
<1>1. 0 \in I
  BY DEF IsMerging
<1>2. ASSUME NEW i \in Nat, i \in I
      PROVE  i + 1 \in I
  <2>1. ASSUME i + 1 <= n
        PROVE  Good(i + 1)
    <3>1. i + 1 \in 1..n /\ (i + 1) - 1 = i /\ i <= n /\ i \in 0..n
      BY <2>1 DEF IsMerging
    <3>2. accs[i + 1] = MergeTx(skip, accs[i], seq[i + 1]) /\ seq[i + 1] \in set
      BY <3>1 DEF IsMerging
    <3>3. IsAcc(accs[i])
      BY <3>1, MergingType
    <3>4. /\ IsEntry(seq[i + 1]) /\ place[seq[i + 1].tx] = "mined"
          /\ mined[seq[i + 1].tx] = seq[i + 1].built.height
      BY <3>2
    <3>5. Good(i)
      BY <1>2, <3>1
    <3>6. BlocksAreTrue(accs[i + 1].blocks)
      BY <3>2, <3>3, <3>4, <3>5, MergeTxTrue
    <3>7. /\ BuiltInBlocks(built, MergeTx(skip, accs[i], seq[i + 1]).blocks)
          /\ KnownAsBuilt(built, MergeTx(skip, accs[i], seq[i + 1]).blocks)
      BY <3>3, <3>4, <3>5, MergeTxKnown
    <3> QED BY <3>2, <3>6, <3>7
  <2> QED BY <2>1
<1>3. Nat \subseteq I
  <2> HIDE DEF I
  <2> QED BY <1>1, <1>2, SetInduction
<1>4. \A i \in 0..n : i \in Nat /\ i <= n
  BY DEF IsMerging
<1>5. \A i \in 0..n : Good(i)
  <2> HIDE DEF Good
  <2> QED BY <1>3, <1>4
<1> QED BY <1>5

LEMMA MergeAllKnown ==
    ASSUME NEW built, Records(built), \A u \in DOMAIN built : FlagsAreTrue(u, built[u]),
           NEW all \in SUBSET Blocks, BlocksAreTrue(all),
           BuiltInBlocks(built, all), KnownAsBuilt(built, all),
           NEW set, IsFiniteSet(set), NEW seq \in SetToSeqs(set), \A e \in set : IsEntry(e),
           \A e \in set : /\ place[e.tx] = "mined" /\ mined[e.tx] = e.built.height
                          /\ FlagsAreTrue(e.tx, e.built)
    PROVE  MergeAll(TRUE, built, all, seq).error = "none"
<1>1. PICK skip \in BOOLEAN : skip = TRUE
  OBVIOUS
<1>2. PICK n, accs : IsMerging(skip, built, all, set, n, seq, accs)
  BY MergingExists
<1>3. n \in Nat /\ MergeAll(skip, built, all, seq) = accs[n]
  BY <1>2 DEF IsMerging
<1>4. \A i \in 0..n : KnownAsBuilt(built, accs[i].blocks)
  BY <1>2, MergingKnown
<1>5. ASSUME NEW i \in 1..n, seq[i].tx \in DOMAIN accs[i - 1].txs
      PROVE  ~Recurses(accs[i - 1].blocks, BlocksToMerge(skip, accs[i - 1], seq[i]), seq[i].tx)
  <2>1. i - 1 \in 0..n
    BY <1>3
  <2>2. seq[i].tx \in DOMAIN built
    <3>1. \A j \in 0..n : \A u :
             u \in DOMAIN accs[j].txs <=>
                u \in DOMAIN built \/ (~skip /\ \E k \in 1..j : seq[k].tx = u)
      BY <1>2, MergingDomain
    <3> QED BY <1>1, <1>5, <2>1, <3>1
  <2> QED BY <1>4, <2>1, <2>2 DEF KnownAsBuilt, Recurses
<1>6. accs[n].error = "none"
  BY <1>2, <1>5, MergingEndsWell
<1> QED BY <1>1, <1>3, <1>6

-----------------------------------------------------------------------------
(* Transactions with outputs are merged into those with transfers: each    *)
(* once, whatever the order.                                               *)

LEMMA MergingWith ==
    ASSUME NEW skip \in BOOLEAN, NEW built, NEW all, NEW with,
           NEW n, NEW seq, NEW accs,
           IsMerging(skip, built, all, EntriesOf(with), n, seq, accs)
    PROVE  \A i \in 0..n : \A u \in DOMAIN built :
              accs[i].txs[u] = IF \E j \in 1..i : seq[j].tx = u THEN MergedTx(built[u], with[u])
                               ELSE built[u]
<1> DEFINE Val(i, u) == IF \E j \in 1..i : seq[j].tx = u THEN MergedTx(built[u], with[u])
                        ELSE built[u]
           I == {i \in Nat : i <= n => \A u \in DOMAIN built : accs[i].txs[u] = Val(i, u)}
<1>0. \A i \in 0..n : \A u :
         u \in DOMAIN accs[i].txs <=>
            u \in DOMAIN built \/ (~skip /\ \E j \in 1..i : seq[j].tx = u)
  BY MergingDomain
<1>1. 0 \in I
  <2>1. accs[0].txs = built /\ ~ \E j \in 1..0 : TRUE
    BY DEF IsMerging
  <2> QED BY <2>1
<1>2. ASSUME NEW i \in Nat, i \in I
      PROVE  i + 1 \in I
  <2>1. ASSUME i + 1 <= n, NEW u \in DOMAIN built
        PROVE  accs[i + 1].txs[u] = Val(i + 1, u)
    <3>1. i + 1 \in 1..n /\ (i + 1) - 1 = i /\ i <= n /\ i \in 0..n /\ n \in Nat
      BY <2>1 DEF IsMerging
    <3>2. accs[i + 1] = MergeTx(skip, accs[i], seq[i + 1])
      BY <3>1 DEF IsMerging
    <3>3. u \in DOMAIN accs[i].txs
      BY <1>0, <3>1
    <3>4. accs[i + 1].txs[u] =
             IF u = seq[i + 1].tx THEN MergedTx(accs[i].txs[u], seq[i + 1].built)
             ELSE accs[i].txs[u]
      <4>1. MergeTx(skip, accs[i], seq[i + 1]).txs[u] =
               IF u = seq[i + 1].tx THEN MergedTx(accs[i].txs[u], seq[i + 1].built)
               ELSE accs[i].txs[u]
        BY <3>3, MergeTxOld
      <4> QED BY <3>2, <4>1
    <3>5. accs[i].txs[u] = Val(i, u)
      BY <1>2, <3>1
    <3>6. \A j : j \in 1..(i + 1) <=> j \in 1..i \/ j = i + 1
      BY <1>2
    <3>7. CASE u # seq[i + 1].tx
      BY <3>4, <3>5, <3>6, <3>7
    <3>8. CASE u = seq[i + 1].tx
      <4>1. \A j \in 1..n : seq[j] = [tx |-> seq[j].tx, built |-> with[seq[j].tx]]
        BY DEF IsMerging, EntriesOf
      <4>2. \A j \in 1..i : j \in 1..n /\ j # i + 1
        BY <3>1
      <4>3. \A j, k \in 1..n : seq[j] = seq[k] => j = k
        BY DEF IsMerging
      <4>4. ASSUME NEW j \in 1..i, seq[j].tx = u PROVE FALSE
        <5>1. j \in 1..n /\ j # i + 1
          BY <4>2
        <5>2. seq[j] = seq[i + 1]
          BY <3>1, <3>8, <4>1, <4>4, <5>1
        <5> QED BY <3>1, <4>3, <5>1, <5>2
      <4>5. accs[i].txs[u] = built[u]
        BY <3>5, <4>4
      <4>6. seq[i + 1].built = with[u]
        <5>1. seq[i + 1] = [tx |-> u, built |-> with[u]]
          BY <3>1, <3>8, <4>1
        <5> QED BY <5>1
      <4>7. accs[i + 1].txs[u] = MergedTx(built[u], with[u])
        BY <3>3, <3>4, <3>8, <4>5, <4>6
      <4> QED BY <3>6, <3>8, <4>7
    <3> QED BY <3>7, <3>8
  <2>2. i + 1 \in Nat
    OBVIOUS
  <2> HIDE DEF Val
  <2> QED BY <2>1, <2>2
<1>3. Nat \subseteq I
  <2> HIDE DEF I
  <2> QED BY <1>1, <1>2, SetInduction
<1>4. \A i \in 0..n : i \in Nat /\ i <= n
  BY DEF IsMerging
<1> QED BY <1>3, <1>4

LEMMA EntriesOfType ==
    ASSUME NEW with, Records(with), \A t \in DOMAIN with : with[t].height \in Heights
    PROVE  /\ IsFiniteSet(EntriesOf(with))
           /\ \A e \in EntriesOf(with) : IsEntry(e) /\ e.tx \in DOMAIN with /\ e.built = with[e.tx]
           /\ \A t \in DOMAIN with : \E e \in EntriesOf(with) : e.tx = t
<1>1. IsFiniteSet(DOMAIN with)
  BY LedgerAssumption, FS_Subset DEF Records
<1>2. IsFiniteSet(EntriesOf(with))
  <2> DEFINE f == [t \in DOMAIN with |-> [tx |-> t, built |-> with[t]]]
  <2>1. f \in Surjection(DOMAIN with, EntriesOf(with))
    BY DEF Surjection, EntriesOf
  <2> HIDE DEF f
  <2> QED BY <1>1, <2>1, FS_Surjection
<1>3. \A e \in EntriesOf(with) : IsEntry(e) /\ e.tx \in DOMAIN with /\ e.built = with[e.tx]
  BY DEF EntriesOf, IsEntry, Records
<1>4. \A t \in DOMAIN with : \E e \in EntriesOf(with) : e.tx = t
  <2>1. ASSUME NEW t \in DOMAIN with
        PROVE  \E e \in EntriesOf(with) : e.tx = t
    <3>1. [tx |-> t, built |-> with[t]] \in EntriesOf(with)
      BY DEF EntriesOf
    <3> QED BY <3>1
  <2> QED BY <2>1
<1> QED BY <1>2, <1>3, <1>4

IsMergedWith(built, with, new) ==
    /\ \A u : u \in DOMAIN new <=> u \in DOMAIN built
    /\ \A u \in DOMAIN built :
          /\ u \in DOMAIN with => new[u] = MergedTx(built[u], with[u])
          /\ u \notin DOMAIN with => new[u] = built[u]

LEMMA MergedWith ==
    ASSUME NEW built, NEW all, NEW with, Records(with),
           \A t \in DOMAIN with : with[t].height \in Heights,
           NEW seq \in SetToSeqs(EntriesOf(with))
    PROVE  IsMergedWith(built, with, MergeAll(TRUE, built, all, seq).txs)
<1>1. PICK skip \in BOOLEAN : skip = TRUE
  OBVIOUS
<1>2. PICK n, accs : IsMerging(skip, built, all, EntriesOf(with), n, seq, accs)
  BY EntriesOfType, MergingExists
<1>3. /\ \A i \in 0..n : \A u :
            u \in DOMAIN accs[i].txs <=>
               u \in DOMAIN built \/ (~skip /\ \E j \in 1..i : seq[j].tx = u)
      /\ \A i \in 0..n : \A u \in DOMAIN built :
            accs[i].txs[u] = IF \E j \in 1..i : seq[j].tx = u THEN MergedTx(built[u], with[u])
                             ELSE built[u]
  <2>1. \A i \in 0..n : \A u :
            u \in DOMAIN accs[i].txs <=>
               u \in DOMAIN built \/ (~skip /\ \E j \in 1..i : seq[j].tx = u)
    BY <1>2, MergingDomain
  <2>2. \A i \in 0..n : \A u \in DOMAIN built :
            accs[i].txs[u] = IF \E j \in 1..i : seq[j].tx = u THEN MergedTx(built[u], with[u])
                             ELSE built[u]
    BY <1>2, MergingWith
  <2> QED BY <2>1, <2>2
<1>4. n \in 0..n /\ MergeAll(skip, built, all, seq) = accs[n]
  BY <1>2 DEF IsMerging
<1>5. MergeAll(TRUE, built, all, seq) = accs[n]
  BY <1>1, <1>4
<1>6. \A u : (\E j \in 1..n : seq[j].tx = u) <=> u \in DOMAIN with
  <2>1. /\ \A j \in 1..n : seq[j] \in EntriesOf(with)
        /\ \A e \in EntriesOf(with) : \E j \in 1..n : seq[j] = e
    BY <1>2 DEF IsMerging
  <2>2. /\ \A e \in EntriesOf(with) : e.tx \in DOMAIN with
        /\ \A t \in DOMAIN with : \E e \in EntriesOf(with) : e.tx = t
    BY EntriesOfType
  <2> QED BY <2>1, <2>2
<1>7. \A u : u \in DOMAIN accs[n].txs <=> u \in DOMAIN built
  BY <1>1, <1>3, <1>4
<1>8. \A u \in DOMAIN built :
         accs[n].txs[u] = IF u \in DOMAIN with THEN MergedTx(built[u], with[u]) ELSE built[u]
  BY <1>3, <1>4, <1>6
<1>9. IsMergedWith(built, with, accs[n].txs)
  BY <1>7, <1>8 DEF IsMergedWith
<1> QED BY <1>5, <1>9

-----------------------------------------------------------------------------
(* Transactions that are built from outputs are merged with each other.    *)

\* What is known of a transaction that was built from outputs.
IsOutputTx(tx) ==
    /\ tx.isConfirmed = TRUE
    /\ tx.inTxPool \in {Null, FALSE}
    /\ tx.isFailed = FALSE
    /\ tx.confirmations = Null
    /\ tx.incoming = {}
    /\ tx.outgoing = Null
    /\ tx.outputs # {}

OutputTxs(built) == Records(built) /\ \A u \in DOMAIN built : IsOutputTx(built[u])
OutputEntries(set) == \A e \in set : IsEntry(e) /\ IsOutputTx(e.built)

LEMMA MergedOutputTx ==
    ASSUME NEW a \in TxRecords, IsOutputTx(a), NEW b \in TxRecords, IsOutputTx(b)
    PROVE  /\ IsOutputTx(MergedTx(a, b))
           /\ MergedTx(a, b).isLocked = a.isLocked
           /\ MergedTx(a, b).outputs = a.outputs \cup b.outputs
BY DEF IsOutputTx, MergedTx, Latest

\* The transactions of built, after the first i entries were merged into them.
OutputsMerged(built, set, seq, i, new) ==
    \A u \in DOMAIN new :
        /\ IsOutputTx(new[u])
        /\ \A r : r \in new[u].outputs <=>
                     \/ u \in DOMAIN built /\ r \in built[u].outputs
                     \/ \E j \in 1..i : seq[j].tx = u /\ r \in seq[j].built.outputs
        /\ u \in DOMAIN built => new[u].isLocked = built[u].isLocked
        /\ u \notin DOMAIN built => \E e \in set : e.tx = u /\ new[u].isLocked = e.built.isLocked

LEMMA MergingOutputs ==
    ASSUME NEW built, OutputTxs(built), NEW all \in SUBSET Blocks, NEW set, OutputEntries(set),
           NEW skip \in BOOLEAN, NEW n, NEW seq, NEW accs,
           IsMerging(skip, built, all, set, n, seq, accs)
    PROVE  \A i \in 0..n : OutputsMerged(built, set, seq, i, accs[i].txs)
<1> DEFINE Has(i, u, r) ==
              \/ u \in DOMAIN built /\ r \in built[u].outputs
              \/ \E j \in 1..i : seq[j].tx = u /\ r \in seq[j].built.outputs
           LockOf(u, lock) ==
              /\ u \in DOMAIN built => lock = built[u].isLocked
              /\ u \notin DOMAIN built => \E e \in set : e.tx = u /\ lock = e.built.isLocked
           Good(i, u) == /\ IsOutputTx(accs[i].txs[u])
                         /\ \A r : r \in accs[i].txs[u].outputs <=> Has(i, u, r)
                         /\ LockOf(u, accs[i].txs[u].isLocked)
           I == {i \in Nat : i <= n => \A u \in DOMAIN accs[i].txs : Good(i, u)}
<1>1. 0 \in I
  <2>1. accs[0].txs = built /\ ~ \E j \in 1..0 : TRUE
    BY DEF IsMerging
  <2> QED BY <2>1 DEF OutputTxs
<1>2. ASSUME NEW i \in Nat, i \in I
      PROVE  i + 1 \in I
  <2>1. ASSUME i + 1 <= n, NEW u \in DOMAIN accs[i + 1].txs
        PROVE  Good(i + 1, u)
    <3> DEFINE e == seq[i + 1]
    <3>1. i + 1 \in 1..n /\ (i + 1) - 1 = i /\ i <= n /\ i \in 0..n
      BY <2>1 DEF IsMerging
    <3>2. accs[i + 1] = MergeTx(skip, accs[i], e) /\ e \in set
      BY <3>1 DEF IsMerging
    <3>3. \A j : j \in 1..(i + 1) <=> j \in 1..i \/ j = i + 1
      BY <1>2
    <3>4. IsAcc(accs[i]) /\ IsEntry(e) /\ IsOutputTx(e.built)
      BY <3>1, <3>2, MergingType DEF OutputTxs, OutputEntries
    <3>5. \A v \in DOMAIN accs[i].txs : accs[i].txs[v] \in TxRecords /\ Good(i, v)
      <4>1. \A v \in DOMAIN accs[i].txs : Good(i, v)
        BY <1>2, <3>1
      <4> HIDE DEF Good
      <4> QED BY <3>4, <4>1 DEF IsAcc, Records
    <3>6. \A r : Has(i + 1, u, r) <=> Has(i, u, r) \/ (e.tx = u /\ r \in e.built.outputs)
      BY <3>3
    <3> HIDE DEF e, Has, LockOf
    <3>7. CASE u \in DOMAIN accs[i].txs /\ u # e.tx
      <4>1. accs[i + 1].txs[u] = accs[i].txs[u]
        BY <3>2, <3>7, MergeTxOld
      <4>2. Good(i, u)
        BY <3>5, <3>7
      <4> QED BY <3>6, <3>7, <4>1, <4>2
    <3>8. CASE u \in DOMAIN accs[i].txs /\ u = e.tx
      <4>1. accs[i + 1].txs[u] = MergedTx(accs[i].txs[u], e.built)
        BY <3>2, <3>8, MergeTxOld
      <4>2. Good(i, u) /\ accs[i].txs[u] \in TxRecords /\ e.built \in TxRecords
        BY <3>4, <3>5, <3>8 DEF IsEntry
      <4>3. /\ IsOutputTx(accs[i + 1].txs[u])
            /\ accs[i + 1].txs[u].isLocked = accs[i].txs[u].isLocked
            /\ accs[i + 1].txs[u].outputs = accs[i].txs[u].outputs \cup e.built.outputs
        BY <3>4, <4>1, <4>2, MergedOutputTx
      <4>4. \A r : r \in accs[i + 1].txs[u].outputs <=> Has(i + 1, u, r)
        BY <3>6, <3>8, <4>2, <4>3
      <4>5. LockOf(u, accs[i + 1].txs[u].isLocked)
        BY <4>2, <4>3
      <4> QED BY <4>3, <4>4, <4>5
    <3>9. CASE u \notin DOMAIN accs[i].txs
      <4>1. u = e.tx /\ accs[i + 1].txs[u] = e.built
        <5>1. u \in DOMAIN accs[i].txs \cup Added(skip, accs[i], e.tx)
          BY <3>2, MergeTxTxs
        <5>2. u = e.tx
          BY <3>9, <5>1 DEF Added
        <5>3. MergeTx(skip, accs[i], e).txs[u] =
                    IF u # e.tx THEN accs[i].txs[u]
                    ELSE IF e.tx \in DOMAIN accs[i].txs THEN MergedTx(accs[i].txs[e.tx], e.built)
                    ELSE e.built
          BY <5>1, MergeTxTxs
        <5> QED BY <3>2, <3>9, <5>2, <5>3
      <4>2. ~ \E j \in 1..i : seq[j].tx = u
        <5>1. ASSUME NEW j \in 1..i, seq[j].tx = u PROVE u \in DOMAIN accs[i].txs
          <6>1. skip = FALSE
            BY <3>2, <3>9, MergeTxTxs DEF Added
          <6> QED BY <3>1, <5>1, <6>1, MergingDomain
        <5> QED BY <3>9, <5>1
      <4>3. u \notin DOMAIN built
        <5>1. u \in DOMAIN built => u \in DOMAIN accs[i].txs
          BY <3>1, MergingDomain
        <5> QED BY <3>9, <5>1
      <4>4. \A r : ~Has(i, u, r)
        BY <4>2, <4>3 DEF Has
      <4>5. \A r : r \in accs[i + 1].txs[u].outputs <=> Has(i + 1, u, r)
        BY <3>6, <4>1, <4>4
      <4>6. LockOf(u, accs[i + 1].txs[u].isLocked)
        BY <3>2, <4>1, <4>3 DEF LockOf
      <4> QED BY <3>4, <4>1, <4>5, <4>6
    <3> QED BY <3>7, <3>8, <3>9
  <2>2. i + 1 \in Nat
    OBVIOUS
  <2> HIDE DEF Good
  <2> QED BY <2>1, <2>2
<1>3. Nat \subseteq I
  <2> HIDE DEF I
  <2> QED BY <1>1, <1>2, SetInduction
<1>4. \A i \in 0..n : i \in Nat /\ i <= n
  BY DEF IsMerging
<1>5. \A i \in 0..n : \A u \in DOMAIN accs[i].txs : Good(i, u)
  <2> HIDE DEF Good
  <2> QED BY <1>3, <1>4
<1> QED BY <1>5 DEF OutputsMerged

\* The transactions of built, with all entries of a set merged into them.
AreMerged(built, set, new) ==
    /\ \A u : u \in DOMAIN new <=> u \in DOMAIN built \/ \E e \in set : e.tx = u
    /\ \A u \in DOMAIN new :
          /\ IsOutputTx(new[u])
          /\ \A r : r \in new[u].outputs <=>
                       \/ u \in DOMAIN built /\ r \in built[u].outputs
                       \/ \E e \in set : e.tx = u /\ r \in e.built.outputs
          /\ u \in DOMAIN built => new[u].isLocked = built[u].isLocked
          /\ u \notin DOMAIN built =>
                \E e \in set : e.tx = u /\ new[u].isLocked = e.built.isLocked

LEMMA MergedOutputs ==
    ASSUME NEW built, OutputTxs(built), NEW all \in SUBSET Blocks,
           NEW set, IsFiniteSet(set), NEW seq \in SetToSeqs(set), OutputEntries(set)
    PROVE  AreMerged(built, set, MergeAll(FALSE, built, all, seq).txs)
<1>1. PICK skip \in BOOLEAN : skip = FALSE
  OBVIOUS
<1>2. PICK n, accs : IsMerging(skip, built, all, set, n, seq, accs)
  BY MergingExists DEF OutputEntries
<1>3. \A i \in 0..n : \A u :
            u \in DOMAIN accs[i].txs <=>
               u \in DOMAIN built \/ (~skip /\ \E j \in 1..i : seq[j].tx = u)
  BY <1>2, MergingDomain
<1>4. \A i \in 0..n : OutputsMerged(built, set, seq, i, accs[i].txs)
  BY <1>2, MergingOutputs
<1>5. n \in 0..n /\ MergeAll(skip, built, all, seq) = accs[n]
  BY <1>2 DEF IsMerging
<1>6. MergeAll(FALSE, built, all, seq) = accs[n]
  BY <1>1, <1>5
<1>7. /\ \A j \in 1..n : seq[j] \in set
      /\ \A e \in set : \E j \in 1..n : seq[j] = e
  BY <1>2 DEF IsMerging
<1>8. \A u : u \in DOMAIN accs[n].txs <=> u \in DOMAIN built \/ \E e \in set : e.tx = u
  <2>1. \A u : u \in DOMAIN accs[n].txs <=>
                  u \in DOMAIN built \/ \E j \in 1..n : seq[j].tx = u
    BY <1>1, <1>3, <1>5
  <2> QED BY <1>7, <2>1
<1>9. \A u, r : (\E j \in 1..n : seq[j].tx = u /\ r \in seq[j].built.outputs) <=>
                (\E e \in set : e.tx = u /\ r \in e.built.outputs)
  BY <1>7
<1>10. \A u \in DOMAIN accs[n].txs :
              /\ IsOutputTx(accs[n].txs[u])
              /\ \A r : r \in accs[n].txs[u].outputs <=>
                           \/ u \in DOMAIN built /\ r \in built[u].outputs
                           \/ \E e \in set : e.tx = u /\ r \in e.built.outputs
              /\ u \in DOMAIN built => accs[n].txs[u].isLocked = built[u].isLocked
              /\ u \notin DOMAIN built =>
                    \E e \in set : e.tx = u /\ accs[n].txs[u].isLocked = e.built.isLocked
  <2>1. ASSUME NEW u \in DOMAIN accs[n].txs, NEW r
        PROVE  r \in accs[n].txs[u].outputs <=>
                  \/ u \in DOMAIN built /\ r \in built[u].outputs
                  \/ \E e \in set : e.tx = u /\ r \in e.built.outputs
    <3>1. r \in accs[n].txs[u].outputs <=>
             \/ u \in DOMAIN built /\ r \in built[u].outputs
             \/ \E j \in 1..n : seq[j].tx = u /\ r \in seq[j].built.outputs
      BY <1>4, <1>5 DEF OutputsMerged
    <3> QED BY <1>9, <3>1
  <2> QED BY <1>4, <1>5, <2>1 DEF OutputsMerged
<1>11. AreMerged(built, set, accs[n].txs)
  BY <1>8, <1>10 DEF AreMerged
<1> QED BY <1>6, <1>11

=============================================================================
