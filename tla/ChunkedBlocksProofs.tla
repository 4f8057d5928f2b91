------------------------- MODULE ChunkedBlocksProofs -------------------------
(***************************************************************************)
(* Proofs about ChunkedBlocks: its inductive invariant, that what is       *)
(* returned is of one chain and without a gap, that chunks are bounded,    *)
(* that only blocks that are too big are rejected, and that with its cache *)
(* and its chunks the client implements BlockService, which has neither.   *)
(***************************************************************************)
EXTENDS ChunkedBlocks, DataInduction, SequenceTheorems

(* The sizes of the cached headers, by height.                             *)
HeaderSizes ==
    [h \in Int |-> IF h \in Heights /\ cachedHeaders[h] # Null
                   THEN cachedHeaders[h].size ELSE 0]

(* The blocks are those from the start of the range on; the range has an   *)
(* end from the moment it is needed.                                       *)
RangeInv ==
    /\ stage = "height" => endHeight = Null /\ blocks = << >>
    /\ stage \in {"loop", "sizing", "request"} => endHeight # Null
    /\ stage # "idle" => lastHeight = startHeight + Len(blocks) - 1
    /\ \A i \in DOMAIN blocks : blocks[i].height = startHeight + i - 1

(* A chunk lies between the last block and the end of the range; that of   *)
(* getBlocksByRange is all of it.                                          *)
ChunkInv ==
    /\ stage = "sizing" =>
          /\ method = "chunked"
          /\ lastHeight <= reqEnd /\ reqEnd <= endHeight /\ lastHeight < endHeight
          /\ reqEnd = lastHeight => reqSize = 0
    /\ stage = "request" =>
          IF method = "range" THEN reqEnd = endHeight
          ELSE lastHeight < reqEnd /\ reqEnd <= endHeight
    /\ stage = "loop" /\ method = "range" => lastHeight >= endHeight

(* The size of a chunk is the sum of the sizes of its headers, unless it   *)
(* overflows.                                                              *)
SizeInv ==
    /\ stage \in {"sizing", "request"}
    /\ method = "chunked"
    /\ maxChunkSize <= MaxInt
    => reqSize = SumFunctionOnSet(HeaderSizes, Requested) /\ reqSize \in 0..maxChunkSize

(* As long as the chain is not reorganized, blocks and headers are its.    *)
BranchInv ==
    /\ called <= reorgs
    /\ called = reorgs =>
          \A i \in DOMAIN blocks :
             OnChain(blocks[i].height) /\ blocks[i].block = BlockAt(blocks[i].height)
    /\ reorgs = 0 =>
          \A h \in Heights :
             cachedHeaders[h] # Null => OnChain(h) /\ cachedHeaders[h] = BlockAt(h)

(* A call that goes on has no outcome yet.                                 *)
OutcomeInv ==
    /\ stage # "idle" => outcome = "none"
    /\ RejectsOnlyBigBlocks

InductiveInv ==
    /\ TypeOK
    /\ RangeInv
    /\ ChunkInv
    /\ SizeInv
    /\ BranchInv
    /\ OutcomeInv

-----------------------------------------------------------------------------
(* The operators of the model.                                             *)

LEMMA MinOfTwo ==
    ASSUME NEW a \in Int, NEW b \in Int
    PROVE  Min({a, b}) \in {a, b} /\ Min({a, b}) <= a /\ Min({a, b}) <= b
BY DEF Min

(* An int holds the sum as it is unless it overflows.                      *)
LEMMA AsIntType ==
    ASSUME NEW n \in Int
    PROVE  /\ AsInt(n) \in -(MaxInt + 1)..MaxInt
           /\ n \in 0..MaxInt => AsInt(n) = n
BY ChunkedBlocksAssumption DEF AsInt

LEMMA NullIsNone ==
    /\ \A h \in Heights : h # Null
    /\ \A b \in Blocks : b # Null
    /\ Heights \subseteq Nat
    /\ HeightsAndNone \subseteq Int
    /\ \A s \in ChunkSizes \cup {MaxReqSize} : s \in Nat
BY ChunkedBlocksAssumption, ChainAssumption DEF Heights, HeightsAndNone

(* The chain is a sequence of blocks, by height.                           *)
LEMMA ChainType ==
    ASSUME ChainTypeOK
    PROVE  /\ Height \in 1..MaxBlocks
           /\ chain \in [1..Height -> Blocks]
           /\ \A h \in Int : OnChain(h) => h \in Heights /\ BlockAt(h) \in Blocks
<1>1. PICK n \in 1..MaxBlocks : chain \in [1..n -> Blocks]
  BY DEF ChainTypeOK, Chains
<1>2. Height = n /\ n \in Nat
  BY <1>1, ChainAssumption DEF Height
<1>3. \A h \in Int : OnChain(h) => h \in Heights /\ h + 1 \in 1..n
  BY <1>2, ChainAssumption DEF OnChain, Heights
<1> QED BY <1>1, <1>2, <1>3 DEF BlockAt

LEMMA HeaderSizesType ==
    ASSUME TypeOK
    PROVE  /\ HeaderSizes \in [Int -> Int]
           /\ \A h \in Heights : cachedHeaders[h] # Null =>
                 cachedHeaders[h].size \in Nat /\ HeaderSizes[h] = cachedHeaders[h].size
<1>1. \A h \in Heights : cachedHeaders[h] # Null => cachedHeaders[h].size \in Nat
  <2>1. \A b \in Blocks : b.size \in Nat
    BY ChainAssumption DEF Blocks
  <2> QED BY <2>1 DEF TypeOK
<1>2. \A h \in Heights : h \in Int
  BY NullIsNone
<1> QED BY <1>1, <1>2 DEF HeaderSizes

(* The chain grows, or it is another one.                                  *)
LEMMA ChainSteps ==
    ASSUME ChainTypeOK, ChainNext
    PROVE  /\ ChainTypeOK'
           /\ \/ /\ reorgs' = reorgs
                 /\ \A h \in Int : OnChain(h) => OnChain(h)' /\ BlockAt(h)' = BlockAt(h)
              \/ reorgs' = reorgs + 1
<1>1. CASE Grow
  <2>1. PICK size \in Sizes : chain' = Append(chain, [branch |-> reorgs, size |-> size])
    BY <1>1 DEF Grow
  <2> DEFINE block == [branch |-> reorgs, size |-> size]
  <2>2. block \in Blocks
    BY DEF ChainTypeOK, Blocks
  <2> HIDE DEF block
  <2>3. chain \in Seq(Blocks) /\ Height \in Nat /\ chain \in [1..Height -> Blocks]
    BY ChainType, ChainAssumption
  <2>4. /\ chain' \in Seq(Blocks)
        /\ Len(chain') = Height + 1
        /\ \A i \in 1..Height : chain'[i] = chain[i]
    BY <2>1, <2>2, <2>3, AppendProperties DEF Height, block
  <2>5. chain' \in [1..(Height + 1) -> Blocks]
    BY <2>4, LenProperties
  <2>5a. Height + 1 \in 1..MaxBlocks
    BY <1>1, <2>3, ChainAssumption DEF Grow
  <2>6. chain' \in Chains
    BY <2>5, <2>5a DEF Chains
  <2>7. reorgs' = reorgs
    BY <1>1 DEF Grow
  <2>8. ASSUME NEW h \in Int, OnChain(h)
        PROVE  OnChain(h)' /\ BlockAt(h)' = BlockAt(h)
    <3>1. h \in 0..(Height - 1) /\ h + 1 \in 1..Height
      BY <2>3, <2>8 DEF OnChain
    <3>2. Height' = Height + 1
      BY <2>4 DEF Height
    <3> QED BY <2>3, <2>4, <3>1, <3>2 DEF OnChain, BlockAt
  <2> QED BY <2>6, <2>7, <2>8 DEF ChainTypeOK
<1>2. CASE Reorganize
  <2>1. PICK kept \in 1..(Height - 1) : \E n \in 1..MaxBlocks :
           /\ n > kept
           /\ \E added \in [1..(n - kept) -> Sizes] :
                 chain' = [i \in 1..n |-> IF i <= kept THEN chain[i]
                                          ELSE [branch |-> reorgs + 1, size |-> added[i - kept]]]
    BY <1>2 DEF Reorganize
  <2>2. PICK n \in 1..MaxBlocks :
           /\ n > kept
           /\ \E added \in [1..(n - kept) -> Sizes] :
                 chain' = [i \in 1..n |-> IF i <= kept THEN chain[i]
                                          ELSE [branch |-> reorgs + 1, size |-> added[i - kept]]]
    BY <2>1
  <2>3. PICK added \in [1..(n - kept) -> Sizes] :
                 chain' = [i \in 1..n |-> IF i <= kept THEN chain[i]
                                          ELSE [branch |-> reorgs + 1, size |-> added[i - kept]]]
    BY <2>2
  <2>4. reorgs' = reorgs + 1 /\ reorgs' \in 0..MaxReorgs
    BY <1>2, ChainAssumption DEF Reorganize, ChainTypeOK
  <2>5. ASSUME NEW i \in 1..n
        PROVE  chain'[i] \in Blocks
    <3>1. CASE i <= kept
      BY <2>3, <3>1, ChainType
    <3>2. CASE ~(i <= kept)
      <4>1. i - kept \in 1..(n - kept)
        BY <3>2, ChainType, ChainAssumption
      <4>2. added[i - kept] \in Sizes
        BY <4>1
      <4> QED BY <2>3, <2>4, <3>2, <4>2 DEF Blocks
    <3> QED BY <3>1, <3>2
  <2>6. chain' \in [1..n -> Blocks]
    BY <2>3, <2>5
  <2> QED BY <2>4, <2>6 DEF ChainTypeOK, Chains
<1> QED BY <1>1, <1>2 DEF ChainNext

-----------------------------------------------------------------------------
(* The steps.                                                              *)

(* A call that throws gives nothing back.                                  *)
LEMMA ThrowKeeps ==
    ASSUME InductiveInv, stage # "idle", NEW reason \in {"failed", "tooBig", "outOfBounds"},
           Throw(reason),
           reason = "tooBig" /\ reorgs = 0 =>
              \E h \in startHeight..endHeight : OnChain(h) /\ BlockAt(h).size > maxChunkSize,
           reason = "outOfBounds" => maxChunkSize = 0
    PROVE  InductiveInv'
<1> USE DEF Throw, args, chainVars
<1>1. << >> \in Seq(BlocksAtHeights) /\ DOMAIN << >> = {}
  OBVIOUS
<1>2. TypeOK'
  BY <1>1 DEF InductiveInv, TypeOK, Stages, Outcomes, ChainTypeOK
<1>3. RangeInv' /\ ChunkInv' /\ SizeInv'
  BY DEF RangeInv, ChunkInv, SizeInv
<1>4. BranchInv'
  BY DEF InductiveInv, BranchInv, OnChain, BlockAt, Height
<1>5. OutcomeInv'
  BY DEF OutcomeInv, RejectsOnlyBigBlocks, OnChain, BlockAt, Height
<1> QED BY <1>2, <1>3, <1>4, <1>5 DEF InductiveInv

(* What stays true while the chain, the cache and the blocks do not        *)
(* change, nor the call end.                                               *)
LEMMA BranchUnchanged ==
    ASSUME InductiveInv, stage # "idle",
           UNCHANGED <<chainVars, cachedHeaders, outcome, args, blocks>>
    PROVE  BranchInv' /\ OutcomeInv' /\ HeaderSizes' = HeaderSizes
<1> USE DEF args, chainVars
<1>1. BranchInv'
  BY DEF InductiveInv, BranchInv, OnChain, BlockAt, Height
<1>2. OutcomeInv'
  BY DEF InductiveInv, OutcomeInv, RejectsOnlyBigBlocks
<1>3. HeaderSizes' = HeaderSizes
  BY DEF HeaderSizes
<1> QED BY <1>1, <1>2, <1>3

LEMMA CallKeeps ==
    ASSUME InductiveInv, NEW m \in {"range", "chunked"}, 
           NEW start \in Heights \cup {Null}, NEW end \in Heights \cup {Null},
           NEW max \in ChunkSizes \cup {Null}, Call(m, start, end, max)
    PROVE  InductiveInv'
<1> USE DEF Call, chainVars
<1>1. /\ startHeight' \in Heights /\ maxChunkSize' \in ChunkSizes \cup {MaxReqSize}
      /\ lastHeight' \in HeightsAndNone /\ reqEnd' \in HeightsAndNone
      /\ endHeight' \in Heights \cup {Null}
      /\ blocks' = << >> /\ DOMAIN blocks' = {} /\ Len(blocks') = 0
      /\ lastHeight' = startHeight' - 1
      /\ end # Null => reqEnd' = end
  BY NullIsNone, ChainAssumption DEF DefaultTo, Heights, HeightsAndNone
<1>2. stage' \in Stages
  BY DEF Stages, Ranged
<1>3. TypeOK'
  BY <1>1, <1>2, ChunkedBlocksAssumption, ChainAssumption DEF InductiveInv, TypeOK, Outcomes, ChainTypeOK
<1>4. RangeInv'
  BY <1>1, NullIsNone DEF RangeInv, Ranged
<1>5. ChunkInv'
  BY <1>1 DEF ChunkInv, Ranged
<1>6. SizeInv'
  BY <1>1 DEF SizeInv, Ranged
<1>7. BranchInv'
  BY <1>1 DEF InductiveInv, BranchInv, OnChain, BlockAt, Height, TypeOK, ChainTypeOK
<1>8. OutcomeInv'
  BY DEF OutcomeInv, RejectsOnlyBigBlocks
<1> QED BY <1>3, <1>4, <1>5, <1>6, <1>7, <1>8 DEF InductiveInv

LEMMA GetHeightKeeps ==
    ASSUME InductiveInv, GetHeight
    PROVE  InductiveInv'
<1> USE DEF GetHeight, args, chainVars
<1>1. Height - 1 \in Heights /\ Height - 1 \in HeightsAndNone
  BY ChainType, ChainAssumption DEF InductiveInv, TypeOK, Heights, HeightsAndNone
<1>2. TypeOK'
  BY <1>1 DEF InductiveInv, TypeOK, Stages, Ranged, ChainTypeOK
<1>3. RangeInv'
  BY <1>1, NullIsNone, ChainAssumption
     DEF InductiveInv, TypeOK, RangeInv, Ranged, Heights, HeightsAndNone
<1>4. ChunkInv' /\ SizeInv'
  <2>1. method = "range" => stage' = "request"
    BY DEF Ranged
  <2>2. method = "chunked" => stage' = "loop"
    BY DEF Ranged
  <2>3. method \in {"range", "chunked"}
    BY DEF InductiveInv, TypeOK
  <2> QED BY <2>1, <2>2, <2>3 DEF ChunkInv, SizeInv
<1>5. BranchInv' /\ OutcomeInv'
  <2>1. outcome = "none"
    BY DEF InductiveInv, OutcomeInv
  <2>2. BranchInv'
    BY DEF InductiveInv, BranchInv, OnChain, BlockAt, Height
  <2> QED BY <2>1, <2>2 DEF OutcomeInv, RejectsOnlyBigBlocks
<1> QED BY <1>2, <1>3, <1>4, <1>5 DEF InductiveInv

LEMMA StartChunkKeeps ==
    ASSUME InductiveInv, StartChunk
    PROVE  InductiveInv'
<1> USE DEF StartChunk, args, chainVars
<1>1. TypeOK'
  BY ChunkedBlocksAssumption DEF InductiveInv, TypeOK, Stages, ChainTypeOK
<1>2. endHeight \in Int /\ lastHeight \in Int /\ method = "chunked"
  BY NullIsNone DEF InductiveInv, TypeOK, RangeInv, ChunkInv
<1>3. RangeInv' /\ ChunkInv'
  BY <1>2 DEF InductiveInv, RangeInv, ChunkInv
<1>4. SizeInv'
  <2>1. Requested' = (lastHeight + 1)..lastHeight /\ lastHeight < lastHeight + 1
    BY <1>2 DEF Requested
  <2>2. HeaderSizes' \in [Int -> Int]
    BY HeaderSizesType, BranchUnchanged DEF InductiveInv
  <2>3. SumFunctionOnSet(HeaderSizes', Requested') = 0
    BY <1>2, <2>1, <2>2, SumOfInterval
  <2>4. maxChunkSize' \in Nat /\ reqSize' = 0
    BY NullIsNone DEF InductiveInv, TypeOK
  <2> QED BY <2>3, <2>4 DEF SizeInv
<1>5. BranchInv' /\ OutcomeInv'
  BY BranchUnchanged
<1> QED BY <1>1, <1>3, <1>4, <1>5 DEF InductiveInv

LEMMA FinishRangeKeeps ==
    ASSUME InductiveInv, FinishRange
    PROVE  InductiveInv'
<1> USE DEF FinishRange, Return, args, chainVars
<1>1. TypeOK'
  BY DEF InductiveInv, TypeOK, Stages, Outcomes, ChainTypeOK
<1>2. RangeInv' /\ ChunkInv' /\ SizeInv'
  BY DEF InductiveInv, RangeInv, ChunkInv, SizeInv
<1>3. BranchInv' /\ OutcomeInv'
  BY DEF InductiveInv, BranchInv, OutcomeInv, RejectsOnlyBigBlocks, OnChain, BlockAt, Height
<1> QED BY <1>1, <1>2, <1>3 DEF InductiveInv

(* The height that getMaxBlocks looks at is in the range, after the blocks.*)
LEMMA LooksAtRange ==
    ASSUME InductiveInv, NEW h \in Int, LooksAt(h)
    PROVE  /\ stage = "sizing" /\ method = "chunked"
           /\ endHeight \in Heights /\ reqEnd \in Int /\ lastHeight \in Int
           /\ h = reqEnd + 1 /\ lastHeight < h /\ h <= endHeight /\ startHeight <= h
           /\ h \in Heights
<1> USE DEF LooksAt, InductiveInv, TypeOK
<1>1. stage = "sizing" /\ method = "chunked" /\ endHeight \in Heights /\ reqEnd \in Int /\ lastHeight \in Int
  BY NullIsNone DEF RangeInv, ChunkInv
<1>2. lastHeight <= reqEnd /\ lastHeight = startHeight + Len(blocks) - 1 /\ Len(blocks) \in Nat /\ startHeight \in Nat
  BY <1>1, NullIsNone DEF RangeInv, ChunkInv
<1>3. h = reqEnd + 1 /\ h <= endHeight /\ startHeight <= h /\ lastHeight < h
  BY <1>1, <1>2, NullIsNone
<1> QED BY <1>1, <1>2, <1>3, ChainAssumption DEF Heights

LEMMA FetchHeadersKeeps ==
    ASSUME InductiveInv, NEW h \in Heights, FetchHeaders(h)
    PROVE  InductiveInv'
<1> DEFINE last == Min({endHeight, h + HeadersPerReq - 1})
<1>1. /\ LooksAt(h) /\ cachedHeaders[h] = Null /\ h \in Int
  BY NullIsNone DEF FetchHeaders
<1>2. last \in Int
  <2>1. endHeight \in Heights
    BY <1>1, LooksAtRange
  <2>2. endHeight \in Int /\ h + HeadersPerReq - 1 \in Int
    BY <2>1, NullIsNone, ChunkedBlocksAssumption
  <2> QED BY <2>2, MinOfTwo
<1>3. CASE OnChain(last)
  <2>1. /\ cachedHeaders' = [k \in Heights |->
                               IF k \in h..last THEN BlockAt(k) ELSE cachedHeaders[k]]
        /\ UNCHANGED <<chainVars, stage, outcome, args, endHeight, lastHeight, reqEnd, reqSize, blocks>>
    BY <1>3 DEF FetchHeaders
  <2> HIDE DEF last
  <2>2. \A k \in h..last : OnChain(k) /\ BlockAt(k) \in Blocks
    BY <1>1, <1>2, <1>3, NullIsNone, ChainType, ChainAssumption DEF OnChain, InductiveInv, TypeOK
  <2>3. TypeOK'
    BY <2>1, <2>2 DEF InductiveInv, TypeOK, ChainTypeOK, chainVars, args
  <2>4. RangeInv' /\ ChunkInv'
    BY <2>1 DEF InductiveInv, RangeInv, ChunkInv, args
  <2>5. SizeInv'
    <3>1. Requested' = Requested /\ Requested = (lastHeight + 1)..reqEnd
      BY <2>1 DEF Requested
    <3>2. \A k \in Requested : HeaderSizes'[k] = HeaderSizes[k]
      <4>1. \A k \in Requested : k \in Int /\ k \notin h..last
        BY <1>1, <1>2, <3>1, LooksAtRange
      <4>2. \A k \in Requested : k \in Heights => cachedHeaders'[k] = cachedHeaders[k]
        BY <2>1, <4>1
      <4> QED BY <4>1, <4>2 DEF HeaderSizes
    <3>3. SumFunctionOnSet(HeaderSizes', Requested') = SumFunctionOnSet(HeaderSizes, Requested)
      BY <3>1, <3>2, SumOfEqual
    <3> QED BY <2>1, <3>3 DEF InductiveInv, SizeInv, args
  <2>6. BranchInv'
    <3>1. OnChain(0)' = OnChain(0) /\ \A k : OnChain(k)' = OnChain(k) /\ BlockAt(k)' = BlockAt(k)
      BY <2>1 DEF OnChain, BlockAt, Height, chainVars
    <3>2. reorgs = 0 => \A k \in Heights : cachedHeaders'[k] # Null =>
             OnChain(k) /\ cachedHeaders'[k] = BlockAt(k)
      BY <2>1, <2>2 DEF InductiveInv, BranchInv
    <3> QED BY <2>1, <3>1, <3>2 DEF InductiveInv, BranchInv, chainVars, args
  <2>7. OutcomeInv'
    BY <1>1, <2>1 DEF InductiveInv, OutcomeInv, RejectsOnlyBigBlocks, LooksAt
  <2> QED BY <2>3, <2>4, <2>5, <2>6, <2>7 DEF InductiveInv
<1>4. CASE ~OnChain(last)
  <2>1. Throw("failed")
    BY <1>4 DEF FetchHeaders
  <2> QED BY <1>1, <2>1, ThrowKeeps DEF LooksAt
<1> QED BY <1>3, <1>4

LEMMA IncludeBlockKeeps ==
    ASSUME InductiveInv, NEW h \in Heights, IncludeBlock(h)
    PROVE  InductiveInv'
<1> DEFINE size == cachedHeaders[h].size
<1>1. TypeOK /\ reqSize \in Int /\ maxChunkSize \in Nat /\ h \in Int
  BY ChunkedBlocksAssumption, NullIsNone DEF InductiveInv, TypeOK
<1>2. LooksAt(h) /\ size \in Nat /\ HeaderSizes[h] = size
  BY <1>1, HeaderSizesType DEF IncludeBlock
<1> HIDE DEF size
<1>3. /\ size <= maxChunkSize /\ reqSize + size <= maxChunkSize
      /\ reqSize' = AsInt(reqSize + size) /\ reqEnd' = h
      /\ UNCHANGED <<chainVars, cachedHeaders, stage, outcome, args, endHeight, lastHeight, blocks>>
  BY <1>1, <1>2 DEF IncludeBlock, ExceedsChunk, size
<1>4. /\ stage = "sizing" /\ method = "chunked" /\ endHeight \in Heights /\ lastHeight \in Int
      /\ h = reqEnd + 1 /\ lastHeight < h /\ h <= endHeight /\ reqEnd \in Int
  BY <1>1, <1>2, LooksAtRange
<1>5. TypeOK'
  <2>1. reqSize' \in -(MaxInt + 1)..MaxInt
    BY <1>1, <1>2, <1>3, AsIntType
  <2>2. reqEnd' \in HeightsAndNone
    BY <1>3, ChainAssumption DEF Heights, HeightsAndNone
  <2> QED BY <1>3, <2>1, <2>2 DEF InductiveInv, TypeOK, ChainTypeOK, chainVars, args
<1>6. RangeInv' /\ ChunkInv'
  BY <1>3, <1>4 DEF InductiveInv, RangeInv, ChunkInv, args
<1>7. BranchInv' /\ OutcomeInv' /\ HeaderSizes' = HeaderSizes
  BY <1>3, <1>4, BranchUnchanged
<1>8. SizeInv'
  <2> SUFFICES ASSUME maxChunkSize <= MaxInt
               PROVE  /\ reqSize' = SumFunctionOnSet(HeaderSizes, (lastHeight + 1)..h)
                      /\ reqSize' \in 0..maxChunkSize
    BY <1>3, <1>7 DEF SizeInv, Requested, args
  <2>1. /\ reqSize = SumFunctionOnSet(HeaderSizes, (lastHeight + 1)..reqEnd)
        /\ reqSize \in 0..maxChunkSize
    BY <1>4 DEF InductiveInv, SizeInv, Requested
  <2>2. lastHeight + 1 \in Int /\ ~(h < lastHeight + 1) /\ h - 1 = reqEnd
    BY <1>1, <1>4
  <2>3. SumFunctionOnSet(HeaderSizes, (lastHeight + 1)..h) = size + reqSize
    BY <1>1, <1>2, <2>1, <2>2, SumOfInterval, HeaderSizesType
  <2>4. reqSize + size \in 0..MaxInt
    BY <1>1, <1>2, <1>3, <2>1, ChunkedBlocksAssumption
  <2>5. reqSize' = reqSize + size
    BY <1>3, <2>4, AsIntType
  <2> QED BY <1>1, <1>2, <1>3, <2>3, <2>4, <2>5
<1> QED BY <1>5, <1>6, <1>7, <1>8 DEF InductiveInv

LEMMA RejectBlockKeeps ==
    ASSUME InductiveInv, NEW h \in Heights, RejectBlock(h)
    PROVE  InductiveInv'
<1>1. LooksAt(h) /\ cachedHeaders[h] # Null /\ cachedHeaders[h].size > maxChunkSize
      /\ Throw("tooBig") /\ h \in Int
  BY NullIsNone DEF RejectBlock
<1>2. stage = "sizing" /\ h \in startHeight..endHeight
  BY <1>1, LooksAtRange, NullIsNone DEF InductiveInv, TypeOK
<1>3. reorgs = 0 => OnChain(h) /\ BlockAt(h).size > maxChunkSize
  BY <1>1 DEF InductiveInv, BranchInv
<1> QED BY <1>1, <1>2, <1>3, ThrowKeeps

(* A chunk without blocks is complete only if it may have no size.         *)
LEMMA EmptyChunkIsOfNoSize ==
    ASSUME InductiveInv, CompleteEmptyChunk
    PROVE  maxChunkSize = 0
<1>1. stage = "sizing" /\ reqEnd = lastHeight /\ ChunkIsComplete
  BY DEF CompleteEmptyChunk, ChunkIsComplete
<1>2. reqSize = 0 /\ lastHeight < endHeight
      /\ endHeight \in Int /\ lastHeight \in Int /\ maxChunkSize \in Nat
  BY <1>1, NullIsNone DEF InductiveInv, TypeOK, ChunkInv, RangeInv
<1>3. ASSUME NEW h \in Heights, LooksAt(h), cachedHeaders[h] # Null,
             cachedHeaders[h].size <= maxChunkSize, ExceedsChunk(cachedHeaders[h].size)
      PROVE  FALSE
  <2>1. cachedHeaders[h].size \in Nat
    BY <1>3, HeaderSizesType DEF InductiveInv
  <2> QED BY <1>2, <1>3, <2>1 DEF ExceedsChunk
<1> QED BY <1>1, <1>2, <1>3 DEF ChunkIsComplete

LEMMA CompleteEmptyChunkKeeps ==
    ASSUME InductiveInv, CompleteEmptyChunk
    PROVE  InductiveInv'
<1>1. stage = "sizing" /\ reqEnd = lastHeight /\ ChunkIsComplete
  BY DEF CompleteEmptyChunk, ChunkIsComplete
<1>2. reqSize = 0 /\ method = "chunked" /\ lastHeight < endHeight
      /\ lastHeight = startHeight + Len(blocks) - 1
      /\ endHeight \in Int /\ lastHeight \in Int /\ maxChunkSize \in Nat /\ startHeight \in Int
  BY <1>1, NullIsNone DEF InductiveInv, TypeOK, ChunkInv, RangeInv
<1>3. maxChunkSize = 0
  BY EmptyChunkIsOfNoSize
<1>4. CASE blocks = << >>
  <2>1. Throw("outOfBounds")
    BY <1>4 DEF CompleteEmptyChunk
  <2> QED BY <1>1, <1>3, <2>1, ThrowKeeps
<1>5. CASE blocks # << >>
  <2>1. /\ lastHeight' = blocks[Len(blocks)].height /\ stage' = "loop"
        /\ UNCHANGED <<chainVars, cachedHeaders, outcome, args, endHeight, reqEnd, reqSize, blocks>>
    BY <1>5 DEF CompleteEmptyChunk
  <2>2. Len(blocks) \in DOMAIN blocks
    BY <1>5, EmptySeq, LenProperties DEF InductiveInv, TypeOK
  <2>3. lastHeight' = lastHeight
    BY <1>2, <2>1, <2>2 DEF InductiveInv, RangeInv
  <2>4. TypeOK'
    BY <2>1, <2>3 DEF InductiveInv, TypeOK, ChainTypeOK, Stages, chainVars, args
  <2>5. RangeInv' /\ ChunkInv' /\ SizeInv'
    BY <1>1, <1>2, <2>1, <2>3 DEF InductiveInv, RangeInv, ChunkInv, SizeInv, args
  <2>6. BranchInv' /\ OutcomeInv'
    BY <1>1, <2>1, BranchUnchanged
  <2> QED BY <2>4, <2>5, <2>6 DEF InductiveInv
<1> QED BY <1>4, <1>5

LEMMA CompleteChunkKeeps ==
    ASSUME InductiveInv, CompleteChunk
    PROVE  InductiveInv'
<1>1. /\ stage = "sizing" /\ reqEnd > lastHeight /\ stage' = "request"
      /\ UNCHANGED <<chainVars, cachedHeaders, outcome, args, endHeight, lastHeight, reqEnd, reqSize, blocks>>
  BY DEF CompleteChunk, ChunkIsComplete
<1>2. TypeOK'
  BY <1>1 DEF InductiveInv, TypeOK, ChainTypeOK, Stages, chainVars, args
<1>3. RangeInv' /\ ChunkInv'
  BY <1>1, NullIsNone DEF InductiveInv, TypeOK, RangeInv, ChunkInv, args
<1>4. SizeInv'
  BY <1>1, BranchUnchanged DEF InductiveInv, SizeInv, Requested, args
<1>5. BranchInv' /\ OutcomeInv'
  BY <1>1, BranchUnchanged
<1> QED BY <1>2, <1>3, <1>4, <1>5 DEF InductiveInv

LEMMA RequestFailsKeeps ==
    ASSUME InductiveInv, RequestFails
    PROVE  InductiveInv'
<1>1. stage # "idle" /\ Throw("failed")
  BY DEF RequestFails, LooksAt
<1> QED BY <1>1, ThrowKeeps

(* The blocks that are received follow those that the client has.          *)
LEMMA ReceivedType ==
    ASSUME InductiveInv, stage = "request", reqEnd > lastHeight, \A h \in Requested : OnChain(h)
    PROVE  LET both == blocks \o Received
           IN  /\ both \in Seq(BlocksAtHeights)
               /\ Len(both) = Len(blocks) + (reqEnd - lastHeight)
               /\ \A i \in DOMAIN both :
                     IF i <= Len(blocks) THEN i \in DOMAIN blocks /\ both[i] = blocks[i]
                     ELSE LET h == startHeight + i - 1
                          IN  both[i] = [height |-> h, block |-> BlockAt(h)] /\ OnChain(h)
<1> DEFINE both == blocks \o Received
           n == reqEnd - lastHeight
<1>1. /\ reqEnd \in Int /\ lastHeight \in Int /\ n \in Nat /\ startHeight \in Int
      /\ lastHeight = startHeight + Len(blocks) - 1
      /\ blocks \in Seq(BlocksAtHeights)
  BY NullIsNone DEF InductiveInv, TypeOK, RangeInv
<1>2. /\ Len(blocks) \in Nat /\ DOMAIN blocks = 1..Len(blocks)
  BY <1>1, LenProperties
<1>3. \A i \in 1..n : OnChain(lastHeight + i) /\ lastHeight + i \in Int
  BY <1>1 DEF Requested
<1>4. ASSUME NEW i \in 1..n
      PROVE  Received[i] = [height |-> lastHeight + i, block |-> BlockAt(lastHeight + i)]
             /\ Received[i] \in BlocksAtHeights
  <2>1. lastHeight + i \in Heights /\ BlockAt(lastHeight + i) \in Blocks
    BY <1>3, ChainType DEF InductiveInv, TypeOK
  <2>2. Received[i] = [height |-> lastHeight + i, block |-> BlockAt(lastHeight + i)]
    BY DEF Received
  <2> QED BY <2>1, <2>2 DEF BlocksAtHeights
<1>5. Received \in [1..n -> BlocksAtHeights]
  BY <1>4 DEF Received
<1>6. Received \in Seq(BlocksAtHeights) /\ Len(Received) = n
  BY <1>1, <1>5
<1>7. /\ both \in Seq(BlocksAtHeights) /\ Len(both) = Len(blocks) + n
      /\ \A i \in 1..(Len(blocks) + n) :
            both[i] = IF i <= Len(blocks) THEN blocks[i] ELSE Received[i - Len(blocks)]
  BY <1>1, <1>6, ConcatProperties
<1>8. DOMAIN both = 1..(Len(blocks) + n)
  BY <1>7, LenProperties
<1> HIDE DEF both
<1>9. ASSUME NEW i \in DOMAIN both
      PROVE  IF i <= Len(blocks) THEN i \in DOMAIN blocks /\ both[i] = blocks[i]
             ELSE LET h == startHeight + i - 1
                  IN  both[i] = [height |-> h, block |-> BlockAt(h)] /\ OnChain(h)
  <2>1. CASE i <= Len(blocks)
    BY <1>2, <1>7, <1>8, <2>1
  <2>2. CASE ~(i <= Len(blocks))
    <3>1. /\ i - Len(blocks) \in 1..n
          /\ lastHeight + (i - Len(blocks)) = startHeight + i - 1
      BY <1>1, <1>2, <1>8, <2>2
    <3>2. both[i] = Received[i - Len(blocks)]
      BY <1>7, <1>8, <2>2
    <3> QED BY <1>3, <1>4, <2>2, <3>1, <3>2
  <2> QED BY <2>1, <2>2
<1> QED BY <1>7, <1>9 DEF both

LEMMA FetchBlocksKeeps ==
    ASSUME InductiveInv, FetchBlocks
    PROVE  InductiveInv'
<1>1. stage = "request"
  BY DEF FetchBlocks
<1>2. CASE ~\A h \in Requested : OnChain(h)
  <2>1. Throw("failed")
    BY <1>2 DEF FetchBlocks
  <2> QED BY <1>1, <2>1, ThrowKeeps
<1>3. CASE \A h \in Requested : OnChain(h)
  <2>1. /\ blocks' = IF reqEnd > lastHeight THEN blocks \o Received ELSE blocks
        /\ lastHeight' = IF reqEnd > lastHeight THEN reqEnd ELSE lastHeight
        /\ stage' = "loop"
        /\ UNCHANGED <<chainVars, cachedHeaders, outcome, args, endHeight, reqEnd, reqSize>>
    BY <1>3 DEF FetchBlocks
  <2>2. /\ reqEnd \in Int /\ lastHeight \in Int /\ startHeight \in Int /\ endHeight \in Int
        /\ Len(blocks) \in Nat
        /\ lastHeight = startHeight + Len(blocks) - 1
        /\ method = "range" => reqEnd = endHeight
    BY <1>1, NullIsNone DEF InductiveInv, TypeOK, RangeInv, ChunkInv
  <2>3. /\ blocks' \in Seq(BlocksAtHeights)
        /\ lastHeight' = startHeight' + Len(blocks') - 1
        /\ \A i \in DOMAIN blocks' : 
              \/ i \in DOMAIN blocks /\ blocks'[i] = blocks[i]
              \/ LET h == startHeight + i - 1
                 IN  blocks'[i] = [height |-> h, block |-> BlockAt(h)] /\ OnChain(h)
    <3>1. CASE reqEnd > lastHeight
      <4>1. blocks' = blocks \o Received /\ lastHeight' = reqEnd /\ startHeight' = startHeight
        BY <2>1, <3>1 DEF args
      <4> QED BY <1>1, <1>3, <2>2, <3>1, <4>1, ReceivedType
    <3>2. CASE ~(reqEnd > lastHeight)
      BY <2>1, <2>2, <3>2 DEF InductiveInv, TypeOK, args
    <3> QED BY <3>1, <3>2
  <2>4. TypeOK'
    BY <2>1, <2>3 DEF InductiveInv, TypeOK, ChainTypeOK, Stages, chainVars, args
  <2>5. RangeInv'
    <3>1. \A i \in DOMAIN blocks' : blocks'[i].height = startHeight + i - 1
      BY <2>3 DEF InductiveInv, RangeInv
    <3> QED BY <1>1, <2>1, <2>3, <3>1 DEF InductiveInv, RangeInv, args
  <2>6. ChunkInv' /\ SizeInv'
    BY <2>1, <2>2 DEF ChunkInv, SizeInv, args
  <2>7. BranchInv'
    <3>1. \A h : OnChain(h)' = OnChain(h) /\ BlockAt(h)' = BlockAt(h)
      BY <2>1 DEF OnChain, BlockAt, Height, chainVars
    <3>2. called = reorgs => \A i \in DOMAIN blocks' :
             OnChain(blocks'[i].height) /\ blocks'[i].block = BlockAt(blocks'[i].height)
      BY <2>3 DEF InductiveInv, BranchInv
    <3> QED BY <2>1, <3>1, <3>2 DEF InductiveInv, BranchInv, chainVars, args
  <2>8. OutcomeInv'
    BY <1>1, <2>1 DEF InductiveInv, OutcomeInv, RejectsOnlyBigBlocks
  <2> QED BY <2>4, <2>5, <2>6, <2>7, <2>8 DEF InductiveInv
<1> QED BY <1>2, <1>3

(* The chain goes on.                                                      *)
LEMMA ChainKeeps ==
    ASSUME InductiveInv, ChainNext, UNCHANGED clientVars
    PROVE  InductiveInv'
<1> USE DEF clientVars, args
<1>1. /\ ChainTypeOK'
      /\ \/ /\ reorgs' = reorgs
            /\ \A h \in Int : OnChain(h) => OnChain(h)' /\ BlockAt(h)' = BlockAt(h)
         \/ reorgs' = reorgs + 1
  BY ChainSteps DEF InductiveInv, TypeOK
<1>2. TypeOK'
  BY <1>1 DEF InductiveInv, TypeOK
<1>3. RangeInv' /\ ChunkInv' /\ SizeInv'
  BY DEF InductiveInv, RangeInv, ChunkInv, SizeInv, HeaderSizes, Requested
<1>4. reorgs \in Nat /\ called \in Nat /\ called <= reorgs
  BY ChainAssumption DEF InductiveInv, TypeOK, ChainTypeOK, BranchInv
<1>5. \A i \in DOMAIN blocks : blocks[i].height \in Int
  <2>1. blocks \in Seq(BlocksAtHeights)
    BY DEF InductiveInv, TypeOK
  <2>2. \A i \in DOMAIN blocks : blocks[i] \in BlocksAtHeights
    BY <2>1, LenProperties
  <2>3. \A b \in BlocksAtHeights : b.height \in Int
    <3>1. \A h \in Heights : h \in Int
      BY NullIsNone
    <3>2. \A b \in BlocksAtHeights : b.height \in Heights
      BY DEF BlocksAtHeights
    <3> QED BY <3>1, <3>2
  <2> QED BY <2>2, <2>3
<1>6. CASE reorgs' = reorgs
  <2>1. \A h \in Int : OnChain(h) => OnChain(h)' /\ BlockAt(h)' = BlockAt(h)
    BY <1>1, <1>4, <1>6
  <2>2. BranchInv'
    BY <1>5, <1>6, <2>1, NullIsNone DEF InductiveInv, BranchInv
  <2>3. OutcomeInv'
    <3>1. \A h \in startHeight..endHeight : h \in Int
      OBVIOUS
    <3> QED BY <1>6, <2>1, <3>1 DEF InductiveInv, OutcomeInv, RejectsOnlyBigBlocks
  <2> QED BY <1>2, <1>3, <2>2, <2>3 DEF InductiveInv
<1>7. CASE reorgs' = reorgs + 1
  <2>1. BranchInv'
    BY <1>4, <1>7 DEF InductiveInv, BranchInv
  <2>2. OutcomeInv'
    BY <1>4, <1>7 DEF InductiveInv, OutcomeInv, RejectsOnlyBigBlocks
  <2> QED BY <1>2, <1>3, <2>1, <2>2 DEF InductiveInv
<1> QED BY <1>1, <1>6, <1>7

LEMMA InductiveInvInit == Init => InductiveInv
<1> SUFFICES ASSUME Init PROVE InductiveInv
  OBVIOUS
<1> USE DEF Init
<1>1. << >> \in Seq(BlocksAtHeights) /\ DOMAIN << >> = {} /\ Len(<< >>) = 0
  OBVIOUS
<1>2. TypeOK
  BY <1>1, ChainAssumption, ChunkedBlocksAssumption
     DEF TypeOK, ChainInit, ChainTypeOK, Heights, HeightsAndNone, Stages, Outcomes
<1>3. RangeInv /\ ChunkInv /\ SizeInv
  BY <1>1 DEF RangeInv, ChunkInv, SizeInv
<1>4. BranchInv /\ OutcomeInv
  BY <1>1 DEF BranchInv, OutcomeInv, RejectsOnlyBigBlocks, ChainInit
<1> QED BY <1>2, <1>3, <1>4 DEF InductiveInv

LEMMA InductiveInvStep == InductiveInv /\ [Next]_vars => InductiveInv'
<1> SUFFICES ASSUME InductiveInv, [Next]_vars PROVE InductiveInv'
  OBVIOUS
<1>1. CASE GetBlocksByRange \/ GetBlocksByRangeChunked
  BY <1>1, CallKeeps DEF GetBlocksByRange, GetBlocksByRangeChunked
<1>2. CASE ClientStep
  BY <1>2, GetHeightKeeps, StartChunkKeeps, FinishRangeKeeps, FetchHeadersKeeps,
     IncludeBlockKeeps, RejectBlockKeeps, CompleteChunkKeeps, CompleteEmptyChunkKeeps,
     FetchBlocksKeeps, RequestFailsKeeps DEF ClientStep
<1>3. CASE ChainNext /\ UNCHANGED clientVars
  BY <1>3, ChainKeeps
<1>4. CASE UNCHANGED vars
  BY <1>4 DEF vars, clientVars, chainVars, args, InductiveInv, TypeOK, ChainTypeOK, RangeInv,
              ChunkInv, SizeInv, BranchInv, OutcomeInv, RejectsOnlyBigBlocks, HeaderSizes,
              Requested, OnChain, BlockAt, Height
<1> QED BY <1>1, <1>2, <1>3, <1>4 DEF Next

(* The invariant holds, whatever the sizes of the blocks, the length of    *)
(* the chain and the limits of chunks and of groups of headers.            *)
THEOREM InductiveInvHolds == Spec => []InductiveInv
BY InductiveInvInit, InductiveInvStep, PTL DEF Spec

(* The variables have their types: above all, the heights that getMaxBlocks*)
(* computes are of blocks that a chain can have, and lastHeight is that of *)
(* the last block received.                                                *)
THEOREM TypeCorrect == Spec => []TypeOK
<1>1. InductiveInv => TypeOK
  BY DEF InductiveInv
<1> QED BY <1>1, InductiveInvHolds, PTL

(* What getBlocksByRange and getBlocksByRangeChunked have received is, if  *)
(* the chain was not reorganized during the call, a part of it: from the   *)
(* start of the range on and without a gap, even if the chunks were made   *)
(* from headers of an older chain.                                         *)
THEOREM AnswersAreOfOneChain == Spec => []AnswerIsOfOneChain
<1>1. InductiveInv => AnswerIsOfOneChain
  BY DEF InductiveInv, RangeInv, BranchInv, AnswerIsOfOneChain
<1> QED BY <1>1, InductiveInvHolds, PTL

(* getMaxBlocks throws for the size of a block, or finds no first block,   *)
(* only if no chunk could hold the blocks of the range - until the chain   *)
(* is reorganized, for the cache of headers then is of another chain.      *)
THEOREM RejectionsAreForSize == Spec => []RejectsOnlyBigBlocks
<1>1. InductiveInv => RejectsOnlyBigBlocks
  BY DEF InductiveInv, OutcomeInv
<1> QED BY <1>1, InductiveInvHolds, PTL

(* The blocks of a chunk that is about to be requested are together not    *)
(* bigger than the limit, if the headers that getMaxBlocks has cached are  *)
(* those of the chain and the limit fits in an int.                        *)
THEOREM ChunksAreBounded == Spec => []ChunkIsBounded
<1>1. ASSUME InductiveInv
      PROVE  ChunkIsBounded
  <2> SUFFICES ASSUME AboutToRequestChunk, maxChunkSize <= MaxInt,
                      \A h \in Requested : cachedHeaders[h] = BlockAt(h)
               PROVE  TrueSize <= maxChunkSize
    BY DEF ChunkIsBounded
  <2>1. /\ reqSize = SumFunctionOnSet(HeaderSizes, Requested)
        /\ reqSize \in 0..maxChunkSize /\ maxChunkSize \in Nat
    BY <1>1, NullIsNone DEF InductiveInv, TypeOK, SizeInv, AboutToRequestChunk
  <2>2. \A h \in Requested : BlockAt(h).size = HeaderSizes[h]
    <3>1. \A h \in Requested : h \in Int /\ OnChain(h)
      BY DEF AboutToRequestChunk, Requested
    <3>2. \A h \in Requested : h \in Heights /\ BlockAt(h) \in Blocks
      BY <1>1, <3>1, ChainType DEF InductiveInv, TypeOK
    <3> QED BY <3>1, <3>2, NullIsNone DEF HeaderSizes
  <2>3. TrueSize = SumFunctionOnSet(HeaderSizes, Requested)
    <3> DEFINE F(g) == g = [s \in SUBSET Requested |->
                              IF s = {} THEN 0
                              ELSE LET x == CHOOSE x \in s : TRUE
                                   IN  BlockAt(x).size + g[s \ {x}]]
    <3>1. TrueSize = (CHOOSE g : F(g))[Requested]
      BY DEF TrueSize, MapThenSumSet, MapThenFoldSet
    <3>2. \A g : F(g) <=> IsFold(HeaderSizes, Requested, g)
      <4>1. \A s \in SUBSET Requested : s # {} =>
               BlockAt(CHOOSE x \in s : TRUE).size = HeaderSizes[CHOOSE x \in s : TRUE]
        BY <2>2
      <4> QED BY <4>1 DEF IsFold
    <3> HIDE DEF F
    <3>3. (CHOOSE g : F(g)) = (CHOOSE g : IsFold(HeaderSizes, Requested, g))
      BY <3>2
    <3> QED BY <3>1, <3>3, SumIsFold
  <2> QED BY <2>1, <2>3
<1> QED BY <1>1, InductiveInvHolds, PTL

-----------------------------------------------------------------------------
(* BlockService.                                                           *)

LEMMA ServiceInit == Init => Service!ServiceInit
<1> SUFFICES ASSUME Init PROVE Service!ServiceInit
  OBVIOUS
<1>1. Service!ChainInit
  BY DEF Init, ChainInit, Service!ChainInit, Chains, Service!Chains, Blocks, Service!Blocks
<1>2. Calling = FALSE /\ startHeight = 0 /\ endHeight = Null /\ blocks = << >>
  BY DEF Init, Calling
<1> QED BY <1>1, <1>2 DEF Service!ServiceInit

LEMMA AskFields ==
    ASSUME NEW o, NEW s, NEW e
    PROVE  /\ [open |-> o, start |-> s, end |-> e].open = o
           /\ [open |-> o, start |-> s, end |-> e].start = s
           /\ [open |-> o, start |-> s, end |-> e].end = e
OBVIOUS

LEMMA AskOpenExcept ==
    ASSUME NEW o, NEW s, NEW e, NEW x
    PROVE  [[open |-> o, start |-> s, end |-> e] EXCEPT !.open = x] =
              [open |-> x, start |-> s, end |-> e]
<1> DEFINE fields == {"open", "start", "end"}
           ask == [[open |-> o, start |-> s, end |-> e] EXCEPT !.open = x]
<1>1. ask = [f \in fields |-> ask[f]]
  OBVIOUS
<1>2. ask.open = x /\ ask.start = s /\ ask.end = e
  OBVIOUS
<1> HIDE DEF ask
<1> QED BY <1>1, <1>2 DEF ask

LEMMA AskEndExcept ==
    ASSUME NEW o, NEW s, NEW e, NEW x
    PROVE  [[open |-> o, start |-> s, end |-> e] EXCEPT !.end = x] =
              [open |-> o, start |-> s, end |-> x]
<1> DEFINE fields == {"open", "start", "end"}
           ask == [[open |-> o, start |-> s, end |-> e] EXCEPT !.end = x]
<1>1. ask = [f \in fields |-> ask[f]]
  OBVIOUS
<1>2. ask.open = o /\ ask.start = s /\ ask.end = x
  OBVIOUS
<1> HIDE DEF ask
<1> QED BY <1>1, <1>2 DEF ask

LEMMA AskClosed ==
    ASSUME NEW o, NEW s, NEW e
    PROVE  [[open |-> o, start |-> s, end |-> e] EXCEPT !.open = FALSE] =
              [open |-> FALSE, start |-> s, end |-> e]
BY AskOpenExcept, Zenon

LEMMA CallingIs ==
    /\ (stage # "idle") <=> Calling = TRUE
    /\ (stage = "idle") <=> Calling = FALSE
    /\ (stage' # "idle") <=> Calling' = TRUE
    /\ (stage' = "idle") <=> Calling' = FALSE
BY DEF Calling

LEMMA ThrowIsFail ==
    ASSUME stage # "idle", NEW reason, Throw(reason)
    PROVE  Service!Fail
<1> DEFINE ask == [open |-> Calling, start |-> startHeight, end |-> endHeight]
<1>1. Calling = TRUE /\ Calling' = FALSE
  BY CallingIs DEF Throw
<1>2. ask.open = TRUE
  BY <1>1
<1>3. startHeight' = startHeight /\ endHeight' = endHeight
  BY DEF Throw, args
<1>4. ask' = [open |-> FALSE, start |-> startHeight, end |-> endHeight]
  BY <1>1, <1>3
<1>5. ask' = [ask EXCEPT !.open = FALSE]
  BY <1>4, AskClosed
<1>6. blocks' = << >> /\ UNCHANGED chainVars
  BY DEF Throw
<1> HIDE DEF ask
<1> QED BY <1>2, <1>5, <1>6 DEF Service!Fail, ask, chainVars, Service!chainVars

(* A chunk that is received is read, all at one moment.                    *)
LEMMA FetchBlocksIsRead ==
    ASSUME InductiveInv, FetchBlocks
    PROVE  [Service!ServiceNext]_Service!serviceVars
<1>1. stage = "request"
  BY DEF FetchBlocks
<1>2. CASE ~\A h \in Requested : OnChain(h)
  <2>1. Throw("failed")
    BY <1>2 DEF FetchBlocks
  <2> QED BY <1>1, <2>1, ThrowIsFail DEF Service!ServiceNext
<1>3. CASE (\A h \in Requested : OnChain(h)) /\ reqEnd > lastHeight
  <2>1. /\ blocks' = blocks \o Received /\ stage' = "loop"
        /\ UNCHANGED <<chain, reorgs, startHeight, endHeight>>
    BY <1>3 DEF FetchBlocks, chainVars, args
  <2>2. /\ reqEnd \in Int /\ lastHeight \in Int /\ startHeight \in Int /\ endHeight \in Int
        /\ endHeight # Null /\ reqEnd <= endHeight
        /\ startHeight + Len(blocks) = lastHeight + 1 /\ Len(blocks) \in Nat
    BY <1>1, NullIsNone DEF InductiveInv, TypeOK, RangeInv, ChunkInv
  <2>3. reqEnd \in (lastHeight + 1)..endHeight /\ OnChain(reqEnd)
    BY <1>3, <2>2 DEF Requested
  <2>4. Received = Service!Segment(lastHeight + 1, reqEnd)
    <3>1. /\ 1..(reqEnd - lastHeight) = 1..(reqEnd + 1 - (lastHeight + 1))
          /\ \A i \in 1..(reqEnd - lastHeight) : (lastHeight + 1) + i - 1 = lastHeight + i
      BY <2>2
    <3> QED BY <3>1 DEF Received, Service!Segment, BlockAt, Service!BlockAt
  <2>5. Service!Read
    BY <1>1, <2>1, <2>2, <2>3, <2>4, AskFields, CallingIs
       DEF Service!Read, OnChain, Service!OnChain, Height, Service!Height
  <2> QED BY <2>5 DEF Service!ServiceNext
<1>4. CASE (\A h \in Requested : OnChain(h)) /\ ~(reqEnd > lastHeight)
  BY <1>1, <1>4, AskFields, CallingIs DEF FetchBlocks, chainVars, args, Service!serviceVars
<1> QED BY <1>2, <1>3, <1>4

LEMMA ServiceStep ==
    InductiveInv /\ [Next]_vars => [Service!ServiceNext]_Service!serviceVars
<1> SUFFICES ASSUME InductiveInv, [Next]_vars
             PROVE  [Service!ServiceNext]_Service!serviceVars
  OBVIOUS
<1> USE DEF Service!ServiceNext
<1>1. ASSUME NEW m \in {"range", "chunked"}, NEW start \in Heights \cup {Null},
             NEW end \in Heights \cup {Null}, NEW max \in ChunkSizes \cup {Null},
             Call(m, start, end, max)
      PROVE  \E s \in Service!Heights, e \in Service!Heights \cup {Null} : Service!Ask(s, e)
  <2>1. DefaultTo(0, start) \in Heights
    BY ChainAssumption DEF DefaultTo, Heights
  <2>2. Service!Ask(DefaultTo(0, start), end)
    BY <1>1, AskFields, CallingIs DEF Call, Service!Ask, chainVars, Service!chainVars, Ranged
  <2> QED BY <2>1, <2>2 DEF Heights, Service!Heights
<1>2. CASE GetBlocksByRange \/ GetBlocksByRangeChunked
  BY <1>1, <1>2 DEF GetBlocksByRange, GetBlocksByRangeChunked
<1>3. CASE GetHeight
  <2>1. endHeight = Null /\ stage' \in {"request", "loop"}
    BY <1>3 DEF InductiveInv, RangeInv, GetHeight, Ranged
  <2>2. /\ stage = "height" /\ endHeight' = Height - 1
        /\ UNCHANGED <<chain, reorgs, startHeight, blocks>>
    BY <1>3 DEF GetHeight, chainVars, args
  <2>3. Calling = TRUE /\ Calling' = TRUE
    BY <2>1, <2>2, CallingIs
  <2>4. [open |-> Calling, start |-> startHeight, end |-> endHeight]' =
           [[open |-> Calling, start |-> startHeight, end |-> endHeight] EXCEPT !.end = Height - 1]
    <3>1. Calling' = Calling /\ endHeight' = Height - 1 /\ startHeight' = startHeight
      BY <2>2, <2>3
    <3> HIDE DEF Calling
    <3> QED BY <3>1, AskEndExcept
  <2> QED BY <2>1, <2>2, <2>3, <2>4, AskFields
          DEF Service!FindEnd, Height, Service!Height
<1>4. CASE FinishRange
  <2>1. /\ endHeight # Null /\ endHeight \in Int /\ startHeight \in Int /\ Len(blocks) \in Nat
        /\ lastHeight = startHeight + Len(blocks) - 1 /\ lastHeight >= endHeight
    BY <1>4, NullIsNone DEF InductiveInv, TypeOK, RangeInv, FinishRange
  <2>2. startHeight + Len(blocks) > endHeight
    BY <2>1
  <2> QED BY <1>4, <2>1, <2>2, AskFields, AskClosed, CallingIs DEF FinishRange, Return, Service!Return, chainVars, args
<1>5. ASSUME NEW h \in Heights, FetchHeaders(h) \/ RejectBlock(h) \/ IncludeBlock(h)
      PROVE  [Service!ServiceNext]_Service!serviceVars
  <2>1. stage = "sizing"
    BY <1>5 DEF FetchHeaders, RejectBlock, IncludeBlock, LooksAt
  <2>2. CASE RejectBlock(h)
    BY <2>1, <2>2, ThrowIsFail DEF RejectBlock
  <2>3. CASE IncludeBlock(h)
    BY <2>3, AskFields, CallingIs DEF IncludeBlock, Service!serviceVars, chainVars, args
  <2>4. CASE FetchHeaders(h)
    <3>1. Throw("failed") \/ UNCHANGED <<chainVars, stage, outcome, args, endHeight, lastHeight,
                                         reqEnd, reqSize, blocks>>
      BY <2>4 DEF FetchHeaders
    <3> QED BY <2>1, <3>1, ThrowIsFail, AskFields, CallingIs DEF Service!serviceVars, chainVars, args
  <2> QED BY <1>5, <2>2, <2>3, <2>4
<1>6. CASE StartChunk \/ CompleteChunk
  BY <1>6, AskFields, CallingIs DEF StartChunk, CompleteChunk, ChunkIsComplete, Service!serviceVars, chainVars, args
<1>7. CASE CompleteEmptyChunk
  <2>1. stage = "sizing"
    BY <1>7 DEF CompleteEmptyChunk, ChunkIsComplete
  <2>2. \/ Throw("outOfBounds")
        \/ stage' = "loop" /\ UNCHANGED <<chainVars, args, endHeight, blocks>>
    BY <1>7 DEF CompleteEmptyChunk
  <2> QED BY <2>1, <2>2, CallingIs, ThrowIsFail DEF Service!serviceVars, chainVars, args
<1>8. CASE FetchBlocks
  BY <1>8, FetchBlocksIsRead
<1>9. CASE RequestFails
  <2>1. stage # "idle" /\ Throw("failed")
    BY <1>9 DEF RequestFails, LooksAt
  <2> QED BY <2>1, ThrowIsFail
<1>10. CASE ChainNext /\ UNCHANGED clientVars
  <2>1. Service!ChainNext
    BY <1>10 DEF ChainNext, Service!ChainNext, Grow, Service!Grow, Reorganize,
                 Service!Reorganize, Height, Service!Height
  <2> QED BY <1>10, <2>1, AskFields, CallingIs DEF clientVars, args
<1>11. CASE UNCHANGED vars
  BY <1>11, AskFields, CallingIs DEF vars, clientVars, chainVars, args, Service!serviceVars
<1> QED BY <1>2, <1>3, <1>4, <1>5, <1>6, <1>7, <1>8, <1>9, <1>10, <1>11 DEF Next, ClientStep

(* With its cache of headers and its chunks, the client does what a client *)
(* without them would: it reads every block of the range once, in order,   *)
(* and returns when it has them all.                                       *)
THEOREM ServiceImplemented == Spec => ImplementsService
BY InductiveInvHolds, ServiceInit, ServiceStep, PTL DEF Spec, ImplementsService, Service!ServiceSpec

-----------------------------------------------------------------------------
(* Every call ends, if its steps are taken: each brings it nearer to its   *)
(* end.                                                                    *)

\* No chunk has a block if a chunk may have no size.
NoChunkInv ==
    method = "chunked" /\ maxChunkSize = 0 =>
        /\ blocks = << >> /\ stage # "request"
        /\ stage = "sizing" => reqEnd = lastHeight

\* A chunk takes two steps for each header, the second if it was not cached,
\* and those that start, complete and request it.
StepsPerChunk == 2 * MaxBlocks + 4

Ahead(h) == IF h < endHeight THEN endHeight - h ELSE 0

StepsOfChunk ==
    CASE stage = "loop" -> StepsPerChunk - 1
      [] stage = "sizing" ->
            2 * Ahead(reqEnd) + 1 +
            (IF reqEnd < endHeight /\ cachedHeaders[reqEnd + 1] = Null THEN 1 ELSE 0)
      [] OTHER -> 0

\* The steps that are left to a call, at most: its chunks have a block each.
StepsLeft ==
    CASE stage = "idle" -> 0
      [] stage = "height" -> StepsPerChunk * (MaxBlocks + 1)
      [] stage = "request" /\ method = "range" -> 2
      [] stage = "loop" /\ method = "range" -> 1
      [] OTHER -> StepsPerChunk * Ahead(lastHeight) + StepsOfChunk

LEMMA StepsOfChunks ==
    ASSUME NEW k \in Nat, NEW a \in Nat, NEW b \in Nat, b < a
    PROVE  k * b + k <= k * a /\ k * a \in Nat /\ k * b \in Nat
<1>1. a = b + 1 + (a - b - 1) /\ a - b - 1 \in Nat
  OBVIOUS
<1>2. PICK d \in Nat : d = a - b - 1
  BY <1>1
<1>3. k * a = k * b + k + k * d
  <2>1. a = b + 1 + d
    BY <1>1, <1>2
  <2> QED BY <2>1
<1>4. k * d \in Nat /\ k * b \in Nat /\ k * a \in Nat
  OBVIOUS
<1> QED BY <1>3, <1>4

LEMMA NoChunkInit == Init => NoChunkInv
BY DEF Init, NoChunkInv

LEMMA NoChunkStep ==
    ASSUME InductiveInv, NoChunkInv, [Next]_vars
    PROVE  NoChunkInv'
<1>1. \A reason : Throw(reason) => NoChunkInv'
  BY DEF Throw, NoChunkInv
<1>2. ASSUME NEW m \in {"range", "chunked"}, NEW start, NEW end, NEW max, Call(m, start, end, max)
      PROVE  NoChunkInv'
  BY <1>2 DEF Call, NoChunkInv, Ranged
<1>3. CASE GetHeight
  BY <1>3 DEF GetHeight, NoChunkInv, Ranged, args
<1>4. CASE StartChunk
  BY <1>4 DEF StartChunk, NoChunkInv, args
<1>5. CASE FinishRange
  BY <1>5 DEF FinishRange, Return, NoChunkInv, args
<1>6. ASSUME NEW h \in Heights, FetchHeaders(h)
      PROVE  NoChunkInv'
  <2>1. Throw("failed") \/ UNCHANGED <<stage, args, lastHeight, reqEnd, blocks>>
    BY <1>6 DEF FetchHeaders
  <2> QED BY <1>1, <2>1 DEF NoChunkInv, args
<1>7. ASSUME NEW h \in Heights, IncludeBlock(h)
      PROVE  NoChunkInv'
  <2>1. stage = "sizing" /\ reqSize < maxChunkSize /\ UNCHANGED <<stage, args>>
    BY <1>7 DEF IncludeBlock, LooksAt
  <2>2. method = "chunked" /\ maxChunkSize = 0 => reqSize \in 0..maxChunkSize
    BY <2>1, ChunkedBlocksAssumption DEF InductiveInv, SizeInv
  <2>3. ~(method = "chunked" /\ maxChunkSize = 0)
    BY <2>1, <2>2
  <2> QED BY <2>1, <2>3 DEF NoChunkInv, args
<1>8. ASSUME NEW h \in Heights, RejectBlock(h)
      PROVE  NoChunkInv'
  BY <1>1, <1>8 DEF RejectBlock
<1>9. CASE CompleteChunk
  <2>1. stage = "sizing" /\ reqEnd > lastHeight /\ UNCHANGED args
    BY <1>9 DEF CompleteChunk, ChunkIsComplete
  <2>2. reqEnd \in Int /\ lastHeight \in Int
    BY NullIsNone DEF InductiveInv, TypeOK
  <2> QED BY <2>1, <2>2 DEF NoChunkInv, args
<1>10. CASE CompleteEmptyChunk
  <2>1. stage = "sizing"
    BY <1>10 DEF CompleteEmptyChunk, ChunkIsComplete
  <2>2. Throw("outOfBounds") \/ (stage' = "loop" /\ UNCHANGED <<args, blocks>>)
    BY <1>10 DEF CompleteEmptyChunk
  <2> QED BY <1>1, <2>1, <2>2 DEF NoChunkInv, args
<1>11. CASE FetchBlocks
  <2>1. stage = "request" /\ (Throw("failed") \/ UNCHANGED args)
    BY <1>11 DEF FetchBlocks
  <2> QED BY <1>1, <2>1 DEF NoChunkInv, args
<1>12. CASE RequestFails
  BY <1>1, <1>12 DEF RequestFails
<1>13. CASE UNCHANGED clientVars
  BY <1>13 DEF clientVars, NoChunkInv, args
<1> QED BY <1>2, <1>3, <1>4, <1>5, <1>6, <1>7, <1>8, <1>9, <1>10, <1>11, <1>12, <1>13
        DEF Next, ClientStep, GetBlocksByRange, GetBlocksByRangeChunked, vars

LEMMA Span ==
    ASSUME NEW e \in Heights, NEW h \in HeightsAndNone
    PROVE  (IF h < e THEN e - h ELSE 0) \in 0..MaxBlocks
BY ChainAssumption DEF Heights, HeightsAndNone

LEMMA AheadType ==
    ASSUME InductiveInv, endHeight # Null, NEW h \in HeightsAndNone
    PROVE  Ahead(h) \in 0..MaxBlocks /\ (Ahead(h) # 0 <=> h < endHeight) /\ h \in Int
              /\ endHeight \in Int
BY ChainAssumption DEF InductiveInv, TypeOK, Ahead, Heights, HeightsAndNone

LEMMA StepsOfChunkType ==
    ASSUME InductiveInv, stage \in {"loop", "sizing", "request"}
    PROVE  StepsOfChunk \in 0..(StepsPerChunk - 1) /\ StepsPerChunk \in Nat
<1>1. Ahead(reqEnd) \in 0..MaxBlocks
  BY AheadType DEF InductiveInv, RangeInv, TypeOK
<1> QED BY <1>1, ChainAssumption DEF StepsOfChunk, StepsPerChunk

LEMMA StepsLeftType ==
    ASSUME InductiveInv
    PROVE  StepsLeft \in 0..(StepsPerChunk * (MaxBlocks + 1))
<1>1. StepsPerChunk \in Nat /\ StepsPerChunk >= 4 /\ MaxBlocks + 1 \in Nat
  BY ChainAssumption DEF StepsPerChunk
<1>2. StepsPerChunk * 0 + StepsPerChunk <= StepsPerChunk * (MaxBlocks + 1)
      /\ StepsPerChunk * 0 = 0 /\ StepsPerChunk * (MaxBlocks + 1) \in Nat
  BY <1>1, StepsOfChunks, ChainAssumption
<1>3. CASE stage \in {"loop", "sizing", "request"}
  <2>1. Ahead(lastHeight) \in 0..MaxBlocks
    BY <1>3, AheadType DEF InductiveInv, RangeInv, TypeOK
  <2>2. /\ StepsPerChunk * Ahead(lastHeight) + StepsPerChunk <= StepsPerChunk * (MaxBlocks + 1)
        /\ StepsPerChunk * Ahead(lastHeight) \in Nat
    BY <1>1, <2>1, StepsOfChunks, ChainAssumption
  <2>3. StepsOfChunk \in 0..(StepsPerChunk - 1)
    BY <1>3, StepsOfChunkType
  <2>4. StepsLeft \in {1, 2, StepsPerChunk * Ahead(lastHeight) + StepsOfChunk}
    BY <1>3 DEF StepsLeft
  <2> HIDE DEF StepsPerChunk
  <2> QED BY <1>1, <1>2, <2>2, <2>3, <2>4
<1>4. CASE stage \in {"idle", "height"}
  BY <1>1, <1>2, <1>4 DEF StepsLeft
<1> QED BY <1>3, <1>4 DEF InductiveInv, TypeOK, Stages

LEMMA StepsPerChunkType ==
    /\ StepsPerChunk \in Nat /\ StepsPerChunk >= 4 /\ StepsPerChunk * 0 = 0
    /\ MaxBlocks \in Nat /\ 2 * MaxBlocks + 2 < StepsPerChunk - 1
BY ChainAssumption DEF StepsPerChunk

\* A call has steps left until it ends.
LEMMA StepsUntilIdle ==
    ASSUME InductiveInv, stage # "idle"
    PROVE  StepsLeft > 0
<1>1. CASE stage = "height"
  <2>1. StepsPerChunk * 0 + StepsPerChunk <= StepsPerChunk * (MaxBlocks + 1)
        /\ StepsPerChunk * (MaxBlocks + 1) \in Nat
    BY StepsOfChunks, StepsPerChunkType
  <2>2. StepsLeft = StepsPerChunk * (MaxBlocks + 1)
    BY <1>1 DEF StepsLeft
  <2> HIDE DEF StepsPerChunk
  <2> QED BY <2>1, <2>2, StepsPerChunkType
<1>2. CASE stage \in {"loop", "sizing", "request"}
  <2>1. Ahead(lastHeight) \in 0..MaxBlocks
    BY <1>2, AheadType DEF InductiveInv, RangeInv, TypeOK
  <2>2. StepsPerChunk * Ahead(lastHeight) \in Nat
    BY <2>1, StepsOfChunks, StepsPerChunkType
  <2>3. StepsOfChunk \in Nat /\ (stage # "request" => StepsOfChunk > 0)
    <3>1. Ahead(reqEnd) \in 0..MaxBlocks
      BY <1>2, AheadType DEF InductiveInv, RangeInv, TypeOK
    <3> QED BY <1>2, <3>1, StepsPerChunkType DEF StepsOfChunk
  <2>4. stage = "request" /\ method # "range" => StepsPerChunk * Ahead(lastHeight) > 0
    <3>1. ASSUME stage = "request", method # "range"
          PROVE  0 < Ahead(lastHeight)
      BY <2>1, <3>1, AheadType DEF InductiveInv, RangeInv, TypeOK, ChunkInv, Ahead, HeightsAndNone
    <3>2. 0 < Ahead(lastHeight) =>
             StepsPerChunk * 0 + StepsPerChunk <= StepsPerChunk * Ahead(lastHeight)
      BY <2>1, StepsOfChunks, StepsPerChunkType
    <3> QED BY <2>2, <3>1, <3>2, StepsPerChunkType
  <2>5. StepsLeft \in {1, 2} \/ StepsLeft = StepsPerChunk * Ahead(lastHeight) + StepsOfChunk
    BY <1>2 DEF StepsLeft
  <2>6. stage = "request" /\ method = "range" => StepsLeft = 2
    BY DEF StepsLeft
  <2> QED BY <2>2, <2>3, <2>4, <2>5, <2>6
<1> QED BY <1>1, <1>2 DEF InductiveInv, TypeOK, Stages

LEMMA ChunkSteps ==
    ASSUME InductiveInv, method = "chunked", stage \in {"loop", "sizing", "request"}
    PROVE  /\ StepsLeft = StepsPerChunk * Ahead(lastHeight) + StepsOfChunk
           /\ StepsPerChunk * Ahead(lastHeight) \in Nat
           /\ StepsOfChunk \in Nat
<1>1. Ahead(lastHeight) \in 0..MaxBlocks
  BY AheadType DEF InductiveInv, RangeInv, TypeOK
<1> QED BY <1>1, StepsOfChunks, StepsPerChunkType, StepsOfChunkType DEF StepsLeft

\* Within a chunk the steps of the chunk decrease.
LEMMA ChunkStepsDecrease ==
    ASSUME InductiveInv, InductiveInv', method = "chunked",
           stage \in {"loop", "sizing", "request"}, stage' \in {"loop", "sizing", "request"},
           UNCHANGED <<args, endHeight, lastHeight>>, StepsOfChunk' < StepsOfChunk
    PROVE  StepsLeft' < StepsLeft
<1>1. /\ StepsLeft = StepsPerChunk * Ahead(lastHeight) + StepsOfChunk
      /\ StepsPerChunk * Ahead(lastHeight) \in Nat
      /\ StepsOfChunk \in Nat
  BY ChunkSteps
<1>2. method' = "chunked" /\ Ahead(lastHeight)' = Ahead(lastHeight)
  BY DEF args, Ahead
<1>3. /\ StepsLeft' = StepsPerChunk * Ahead(lastHeight) + StepsOfChunk'
      /\ StepsOfChunk' \in Nat
  <2>1. /\ StepsLeft' = StepsPerChunk' * Ahead(lastHeight)' + StepsOfChunk'
        /\ StepsOfChunk' \in Nat
    <3>1. Ahead(lastHeight)' \in 0..MaxBlocks
      BY <1>2, AheadType DEF InductiveInv, RangeInv, TypeOK
    <3>2. Ahead(reqEnd)' \in 0..MaxBlocks
      <4>1. endHeight' \in Heights /\ reqEnd' \in HeightsAndNone
        BY NullIsNone DEF InductiveInv, RangeInv, TypeOK
      <4> QED BY <4>1, Span DEF Ahead
    <3>3. StepsOfChunk' \in Nat
      BY <3>2, ChainAssumption DEF StepsOfChunk, StepsPerChunk
    <3> QED BY <1>2, <3>3 DEF StepsLeft
  <2> QED BY <1>2, <2>1 DEF StepsPerChunk
<1> HIDE DEF StepsPerChunk
<1> QED BY <1>1, <1>3

LEMMA StepsDecrease ==
    ASSUME InductiveInv, InductiveInv', NoChunkInv, ClientStep
    PROVE  StepsLeft' < StepsLeft
<1>1. ASSUME stage # "idle", stage' = "idle"
      PROVE  StepsLeft' < StepsLeft
  <2>1. StepsLeft' = 0
    BY <1>1 DEF StepsLeft
  <2>2. StepsLeft \in Nat
    BY StepsLeftType, StepsOfChunks, StepsPerChunkType
  <2> QED BY <1>1, <2>1, <2>2, StepsUntilIdle
<1>2. \A reason : stage # "idle" /\ Throw(reason) => StepsLeft' < StepsLeft
  BY <1>1 DEF Throw
<1>3. CASE GetHeight
  <2>1. /\ stage = "height" /\ stage' = Ranged(method)
        /\ method' = method /\ lastHeight' = lastHeight
    BY <1>3 DEF GetHeight, args
  <2>2. StepsLeft = StepsPerChunk * (MaxBlocks + 1)
    BY <2>1 DEF StepsLeft
  <2>3. /\ StepsPerChunk * 0 + StepsPerChunk <= StepsPerChunk * (MaxBlocks + 1)
        /\ StepsPerChunk * (MaxBlocks + 1) \in Nat
    BY StepsOfChunks, StepsPerChunkType
  <2>4. CASE method = "range"
    <3>1. StepsLeft' = 2
      BY <2>1, <2>4 DEF StepsLeft, Ranged
    <3> HIDE DEF StepsPerChunk
    <3> QED BY <2>2, <2>3, <3>1, StepsPerChunkType
  <2>5. CASE method # "range"
    <3>1. stage' = "loop"
      BY <2>1, <2>5 DEF Ranged
    <3>2. StepsLeft' = StepsPerChunk * Ahead(lastHeight)' + StepsPerChunk - 1
      BY <2>1, <2>5, <3>1, StepsPerChunkType DEF StepsLeft, StepsOfChunk, StepsPerChunk
    <3>3. Ahead(lastHeight)' \in 0..MaxBlocks
      <4>1. endHeight' \in Heights /\ lastHeight' \in HeightsAndNone
        BY <3>1, NullIsNone DEF InductiveInv, RangeInv, TypeOK
      <4> QED BY <4>1, Span DEF Ahead
    <3>4. /\ StepsPerChunk * Ahead(lastHeight)' + StepsPerChunk <= StepsPerChunk * (MaxBlocks + 1)
          /\ StepsPerChunk * Ahead(lastHeight)' \in Nat
      BY <3>3, StepsOfChunks, StepsPerChunkType
    <3> QED BY <2>2, <2>3, <3>2, <3>4, StepsPerChunkType
  <2> QED BY <2>4, <2>5
<1>4. CASE StartChunk
  <2>1. /\ stage = "loop" /\ stage' = "sizing" /\ reqEnd' = lastHeight
        /\ lastHeight < endHeight /\ UNCHANGED <<args, endHeight, lastHeight, cachedHeaders>>
    BY <1>4 DEF StartChunk
  <2>2. method = "chunked" /\ Ahead(lastHeight) \in 0..MaxBlocks
    BY <2>1, AheadType, NullIsNone DEF InductiveInv, RangeInv, TypeOK, ChunkInv
  <2>3. StepsOfChunk = StepsPerChunk - 1
    BY <2>1 DEF StepsOfChunk
  <2>4. Ahead(reqEnd)' = Ahead(lastHeight)
    BY <2>1 DEF Ahead
  <2>5. StepsOfChunk' \in {2 * Ahead(reqEnd)' + 1, 2 * Ahead(reqEnd)' + 2}
    BY <2>1, <2>2, <2>4 DEF StepsOfChunk
  <2>6. StepsOfChunk' < StepsOfChunk
    BY <2>2, <2>3, <2>4, <2>5, StepsPerChunkType
  <2> QED BY <2>1, <2>2, <2>6, ChunkStepsDecrease
<1>5. CASE FinishRange
  BY <1>1, <1>5 DEF FinishRange, Return
<1>6. ASSUME NEW h \in Heights, FetchHeaders(h)
      PROVE  StepsLeft' < StepsLeft
  <2> DEFINE last == Min({endHeight, h + HeadersPerReq - 1})
  <2>1. /\ LooksAt(h) /\ cachedHeaders[h] = Null /\ h \in Int /\ stage = "sizing"
        /\ reqEnd < endHeight /\ h = reqEnd + 1
    BY <1>6, NullIsNone DEF FetchHeaders, LooksAt
  <2>2. /\ method = "chunked" /\ endHeight \in Int /\ h <= endHeight /\ endHeight # Null
        /\ Ahead(reqEnd) \in 0..MaxBlocks
    <3>1. method = "chunked" /\ endHeight \in Heights /\ h <= endHeight
      BY <2>1, LooksAtRange
    <3> QED BY <3>1, NullIsNone, AheadType DEF InductiveInv, TypeOK
  <2>3. CASE ~OnChain(last)
    BY <1>2, <1>6, <2>1, <2>3 DEF FetchHeaders
  <2>4. CASE OnChain(last)
    <3>1. /\ cachedHeaders' = [k \in Heights |->
                                 IF k \in h..last THEN BlockAt(k) ELSE cachedHeaders[k]]
          /\ UNCHANGED <<stage, args, endHeight, lastHeight, reqEnd>>
      BY <1>6, <2>4 DEF FetchHeaders
    <3>2. last \in Int /\ h <= last
      <4>1. h + HeadersPerReq - 1 \in Int /\ h <= h + HeadersPerReq - 1
        BY <2>1, ChunkedBlocksAssumption
      <4>2. last \in {endHeight, h + HeadersPerReq - 1}
        BY <2>2, <4>1, MinOfTwo
      <4> HIDE DEF last
      <4> QED BY <2>1, <2>2, <4>1, <4>2
    <3> HIDE DEF last
    <3>3. OnChain(h)
      <4>1. Height \in Int
        BY ChainType, ChainAssumption DEF InductiveInv, TypeOK
      <4> QED BY <2>1, <2>4, <3>2, <4>1, NullIsNone DEF OnChain
    <3>4. cachedHeaders'[h] = BlockAt(h) /\ BlockAt(h) # Null
      BY <2>1, <3>1, <3>2, <3>3, ChainType, NullIsNone DEF InductiveInv, TypeOK
    <3>5. Ahead(reqEnd)' = Ahead(reqEnd)
      BY <3>1 DEF Ahead
    <3>6. StepsOfChunk = 2 * Ahead(reqEnd) + 2
      BY <2>1, <2>2 DEF StepsOfChunk
    <3>7. StepsOfChunk' = 2 * Ahead(reqEnd) + 1
      <4>1. ~(reqEnd' < endHeight' /\ cachedHeaders'[reqEnd' + 1] = Null)
        BY <2>1, <3>1, <3>4
      <4> QED BY <2>1, <2>2, <3>1, <3>5, <4>1 DEF StepsOfChunk
    <3> QED BY <2>1, <2>2, <3>1, <3>6, <3>7, ChunkStepsDecrease
  <2> QED BY <2>3, <2>4
<1>7. ASSUME NEW h \in Heights, IncludeBlock(h)
      PROVE  StepsLeft' < StepsLeft
  <2>1. /\ LooksAt(h) /\ h \in Int /\ stage = "sizing" /\ reqEnd' = h
        /\ reqEnd < endHeight /\ h = reqEnd + 1 /\ cachedHeaders[h] # Null
        /\ UNCHANGED <<stage, args, endHeight, lastHeight, cachedHeaders>>
    BY <1>7, NullIsNone DEF IncludeBlock, LooksAt
  <2>2. /\ method = "chunked" /\ endHeight \in Int /\ h <= endHeight /\ reqEnd \in Int
    <3>1. method = "chunked" /\ endHeight \in Heights /\ h <= endHeight /\ reqEnd \in Int
      BY <2>1, LooksAtRange
    <3> QED BY <3>1, NullIsNone
  <2>3. Ahead(reqEnd) = endHeight - reqEnd /\ Ahead(reqEnd)' = endHeight - h
    BY <2>1, <2>2 DEF Ahead
  <2>4. StepsOfChunk = 2 * Ahead(reqEnd) + 1
    BY <2>1, <2>2, <2>3 DEF StepsOfChunk
  <2>5. StepsOfChunk' \in {2 * Ahead(reqEnd)' + 1, 2 * Ahead(reqEnd)' + 2}
    BY <2>1, <2>2, <2>3 DEF StepsOfChunk
  <2>6. StepsOfChunk' < StepsOfChunk
    BY <2>1, <2>2, <2>3, <2>4, <2>5
  <2> QED BY <2>1, <2>2, <2>6, ChunkStepsDecrease
<1>8. ASSUME NEW h \in Heights, RejectBlock(h)
      PROVE  StepsLeft' < StepsLeft
  BY <1>2, <1>8 DEF RejectBlock, LooksAt
<1>9. CASE CompleteChunk
  <2>1. /\ stage = "sizing" /\ stage' = "request"
        /\ UNCHANGED <<args, endHeight, lastHeight>>
    BY <1>9 DEF CompleteChunk, ChunkIsComplete
  <2>2. method = "chunked" /\ Ahead(reqEnd) \in 0..MaxBlocks
    BY <2>1, AheadType DEF InductiveInv, RangeInv, TypeOK, ChunkInv
  <2>3. StepsOfChunk' = 0 /\ StepsOfChunk > 0
    BY <2>1, <2>2, ChainAssumption DEF StepsOfChunk
  <2> QED BY <2>1, <2>2, <2>3, ChunkStepsDecrease
<1>10. CASE CompleteEmptyChunk
  <2>1. stage = "sizing"
    BY <1>10 DEF CompleteEmptyChunk, ChunkIsComplete
  <2>2. method = "chunked" /\ maxChunkSize = 0
    BY <1>10, <2>1, EmptyChunkIsOfNoSize DEF InductiveInv, ChunkInv
  <2>3. Throw("outOfBounds")
    BY <1>10, <2>2 DEF NoChunkInv, CompleteEmptyChunk
  <2> QED BY <1>2, <2>1, <2>3
<1>11. CASE FetchBlocks
  <2>1. CASE ~\A h \in Requested : OnChain(h)
    BY <1>2, <1>11, <2>1 DEF FetchBlocks
  <2>2. CASE \A h \in Requested : OnChain(h)
    <3>1. /\ stage = "request" /\ stage' = "loop" /\ UNCHANGED <<args, endHeight, reqEnd>>
          /\ lastHeight' = IF reqEnd > lastHeight THEN reqEnd ELSE lastHeight
      BY <1>11, <2>2 DEF FetchBlocks
    <3>2. CASE method = "range"
      <4>1. StepsLeft = 2 /\ StepsLeft' = 1
        BY <3>1, <3>2 DEF StepsLeft, args
      <4> QED BY <4>1
    <3>3. CASE method # "range"
      <4>1. method = "chunked" /\ lastHeight < reqEnd /\ reqEnd <= endHeight
            /\ endHeight \in Int /\ lastHeight \in Int /\ reqEnd \in Int /\ lastHeight' = reqEnd
        BY <3>1, <3>3, NullIsNone DEF InductiveInv, TypeOK, ChunkInv, RangeInv
      <4>2. /\ Ahead(lastHeight) = endHeight - lastHeight
            /\ Ahead(lastHeight)' = endHeight - reqEnd
        BY <3>1, <4>1 DEF Ahead
      <4>3. Ahead(lastHeight)' \in Nat /\ Ahead(lastHeight) \in Nat
            /\ Ahead(lastHeight)' < Ahead(lastHeight)
        BY <4>1, <4>2
      <4>4. /\ StepsPerChunk * Ahead(lastHeight)' + StepsPerChunk
                  <= StepsPerChunk * Ahead(lastHeight)
            /\ StepsPerChunk * Ahead(lastHeight)' \in Nat
        BY <4>3, StepsOfChunks, StepsPerChunkType
      <4>5. StepsLeft = StepsPerChunk * Ahead(lastHeight)
        BY <3>1, <4>1, <4>4, ChunkSteps DEF StepsOfChunk
      <4>6. StepsLeft' = StepsPerChunk * Ahead(lastHeight)' + StepsPerChunk - 1
        BY <3>1, <3>3, <4>4, StepsPerChunkType DEF StepsLeft, StepsOfChunk, StepsPerChunk, args
      <4> HIDE DEF StepsPerChunk
      <4> QED BY <4>4, <4>5, <4>6, StepsPerChunkType, ChunkSteps, <3>1, <4>1
    <3> QED BY <3>2, <3>3
  <2> QED BY <2>1, <2>2
<1>12. CASE RequestFails
  <2>1. stage # "idle" /\ Throw("failed")
    BY <1>12 DEF RequestFails, LooksAt
  <2> QED BY <1>2, <2>1
<1> QED BY <1>3, <1>4, <1>5, <1>6, <1>7, <1>8, <1>9, <1>10, <1>11, <1>12 DEF ClientStep

\* Each step of a call is one of those that are left to it, or the chain's.
CallsAdvance ==
    /\ [](StepsLeft \in 0..(StepsPerChunk * (MaxBlocks + 1)))
    /\ [][stage # "idle" => \/ ClientStep /\ StepsLeft' < StepsLeft
                            \/ ChainNext /\ StepsLeft' = StepsLeft]_vars

(* A call of getBlocksByRange or getBlocksByRangeChunked ends after a      *)
(* bounded number of steps: each brings it nearer to its end, and neither  *)
(* the chain nor what the cache holds can send it back.                    *)
THEOREM CallsAreBounded == Spec => CallsAdvance
<1>1. InductiveInv => StepsLeft \in 0..(StepsPerChunk * (MaxBlocks + 1))
  BY StepsLeftType
<1>2. Spec => []NoChunkInv
  BY InductiveInvHolds, NoChunkInit, NoChunkStep, PTL DEF Spec
<1>3. InductiveInv /\ InductiveInv' /\ NoChunkInv /\ [Next]_vars =>
         [stage # "idle" => \/ ClientStep /\ StepsLeft' < StepsLeft
                            \/ ChainNext /\ StepsLeft' = StepsLeft]_vars
  <2> SUFFICES ASSUME InductiveInv, InductiveInv', NoChunkInv, Next, stage # "idle"
               PROVE  \/ ClientStep /\ StepsLeft' < StepsLeft
                      \/ ChainNext /\ StepsLeft' = StepsLeft
    OBVIOUS
  <2>1. CASE GetBlocksByRange \/ GetBlocksByRangeChunked
    BY <2>1 DEF GetBlocksByRange, GetBlocksByRangeChunked, Call
  <2>2. CASE ClientStep
    BY <2>2, StepsDecrease
  <2>3. CASE ChainNext /\ UNCHANGED clientVars
    BY <2>3 DEF clientVars, args, StepsLeft, StepsOfChunk, Ahead
  <2> QED BY <2>1, <2>2, <2>3 DEF Next
<1> QED BY <1>1, <1>2, <1>3, InductiveInvHolds, PTL DEF Spec, CallsAdvance
=============================================================================
