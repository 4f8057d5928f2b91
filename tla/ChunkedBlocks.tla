---------------------------- MODULE ChunkedBlocks ----------------------------
(***************************************************************************)
(* getBlocksByRange and getBlocksByRangeChunked of MoneroDaemonRpc, request *)
(* by request, while the chain grows and reorganizes.  The chunks are made *)
(* from the sizes of headers, which are kept in a cache that is never      *)
(* cleared; the blocks are requested by height.  A request may fail.       *)
(*                                                                         *)
(* A block stands for its header too, of which only the size is used.      *)
(***************************************************************************)
EXTENDS BlockChain, Integers, FiniteSetsExt

CONSTANTS
    Null,           \* an argument that is not given, a header that is not cached
    HeadersPerReq,  \* NUM_HEADERS_PER_REQ
    MaxReqSize,     \* MAX_REQ_SIZE
    ChunkSizes,     \* the maximum chunk sizes that applications give
    MaxInt          \* Integer.MAX_VALUE

ASSUME ChunkedBlocksAssumption ==
    /\ Null \notin Int
    /\ Null \notin Blocks
    /\ HeadersPerReq \in Nat \ {0}
    /\ MaxReqSize \in Nat
    /\ ChunkSizes \subseteq Nat
    /\ MaxInt \in Nat

VARIABLES
    cachedHeaders,   \* the cache: by height, a header or Null
    stage,           \* what the call does next; "idle" without a call
    outcome,         \* how the last call ended
    method,          \* the method that was called
    startHeight, endHeight, maxChunkSize,   \* its arguments, completed
    lastHeight,      \* of the blocks that were received
    reqEnd, reqSize, \* getMaxBlocks: the last height of the chunk, and its size
    blocks,          \* what was received, with the heights it was given
    called           \* history: the number of reorganizations at the call

args == <<method, startHeight, maxChunkSize, called>>
clientVars == <<cachedHeaders, stage, outcome, args, endHeight, lastHeight, reqEnd, reqSize, blocks>>
vars == <<chain, reorgs, clientVars>>

Stages == {"idle", "height", "loop", "sizing", "request"}
Outcomes == {"none", "returned", "failed", "tooBig", "outOfBounds"}
HeightsAndNone == -1..(MaxBlocks - 1)
BlocksAtHeights == [height : Heights, block : Blocks]

Init ==
    /\ ChainInit
    /\ cachedHeaders = [h \in Heights |-> Null]
    /\ stage = "idle"
    /\ outcome = "none"
    /\ method = "range"
    /\ startHeight = 0
    /\ endHeight = Null
    /\ maxChunkSize = MaxReqSize
    /\ lastHeight = -1
    /\ reqEnd = -1
    /\ reqSize = 0
    /\ blocks = << >>
    /\ called = 0

(* The value of the sum in an int. *)
AsInt(n) == ((n + MaxInt + 1) % (2 * (MaxInt + 1))) - (MaxInt + 1)

DefaultTo(default, argument) == IF argument = Null THEN default ELSE argument

(* The stage that follows once the range is known: getBlocksByRange        *)
(* requests all of it, as one chunk.                                       *)
Ranged(m) == IF m = "range" THEN "request" ELSE "loop"

Call(m, start, end, max) ==
    /\ stage = "idle"
    /\ method' = m
    /\ startHeight' = DefaultTo(0, start)
    /\ endHeight' = end
    /\ maxChunkSize' = DefaultTo(MaxReqSize, max)
    /\ lastHeight' = startHeight' - 1
    /\ reqEnd' = DefaultTo(lastHeight', end)
    /\ reqSize' = 0
    /\ blocks' = << >>
    /\ stage' = IF end = Null THEN "height" ELSE Ranged(m)
    /\ outcome' = "none"
    /\ called' = reorgs
    /\ UNCHANGED <<chainVars, cachedHeaders>>

GetBlocksByRange ==
    \E start, end \in Heights \cup {Null} : Call("range", start, end, Null)

GetBlocksByRangeChunked ==
    \E start, end \in Heights \cup {Null}, max \in ChunkSizes \cup {Null} :
        Call("chunked", start, end, max)

(* mutation: the end of the range is the height, not the last block *)
GetHeightPastTheEnd ==
    /\ stage = "height"
    /\ endHeight' = Height
    /\ reqEnd' = Height
    /\ stage' = Ranged(method)
    /\ UNCHANGED <<chainVars, cachedHeaders, outcome, args, lastHeight, reqSize, blocks>>

(* get_block_count, if the end of the range was not given. *)
GetHeight ==
    /\ stage = "height"
    /\ endHeight' = Height - 1
    /\ reqEnd' = Height - 1
    /\ stage' = Ranged(method)
    /\ UNCHANGED <<chainVars, cachedHeaders, outcome, args, lastHeight, reqSize, blocks>>

Throw(reason) ==
    /\ stage' = "idle"
    /\ outcome' = reason
    /\ blocks' = << >>
    /\ UNCHANGED <<chainVars, cachedHeaders, args, endHeight, lastHeight, reqEnd, reqSize>>

Return ==
    /\ stage' = "idle"
    /\ outcome' = "returned"
    /\ UNCHANGED <<chainVars, cachedHeaders, args, endHeight, lastHeight, reqEnd, reqSize, blocks>>

(* The loop of getBlocksByRangeChunked: the next chunk, or the end, where  *)
(* getBlocksByRange is after its only request.                             *)
StartChunk ==
    /\ stage = "loop"
    /\ lastHeight < endHeight
    /\ stage' = "sizing"
    /\ reqSize' = 0
    /\ reqEnd' = lastHeight
    /\ UNCHANGED <<chainVars, cachedHeaders, outcome, args, endHeight, lastHeight, blocks>>

FinishRange ==
    /\ stage = "loop"
    /\ lastHeight >= endHeight
    /\ Return

(* mutation: the chunk goes on at the end of the range *)
LooksAtTheEnd(h) ==
    /\ stage = "sizing"
    /\ reqSize < maxChunkSize
    /\ reqEnd <= endHeight
    /\ h = reqEnd + 1

(* getMaxBlocks looks at the next header while the chunk is not full. *)
LooksAt(h) ==
    /\ stage = "sizing"
    /\ reqSize < maxChunkSize
    /\ reqEnd < endHeight
    /\ h = reqEnd + 1

(* The header is not cached: a range of headers is requested.  monerod     *)
(* answers with an error if the range exceeds its chain.                   *)
FetchHeaders(h) ==
    /\ LooksAt(h)
    /\ cachedHeaders[h] = Null
    /\ LET last == Min({endHeight, h + HeadersPerReq - 1})
       IN  IF OnChain(last)
           THEN /\ cachedHeaders' = [k \in Heights |->
                      IF k \in h..last THEN BlockAt(k) ELSE cachedHeaders[k]]
                /\ UNCHANGED <<chainVars, stage, outcome, args, endHeight, lastHeight,
                               reqEnd, reqSize, blocks>>
           ELSE Throw("failed")

(* mutation: only what is in the chunk already is compared with the limit *)
ExceedsChunkAlready(size) == reqSize > maxChunkSize

ExceedsChunk(size) == reqSize + size > maxChunkSize

IncludeBlock(h) ==
    /\ LooksAt(h)
    /\ cachedHeaders[h] # Null
    /\ LET size == cachedHeaders[h].size
       IN  /\ size <= maxChunkSize
           /\ ~ExceedsChunk(size)
           /\ reqSize' = AsInt(reqSize + size)
           /\ reqEnd' = h
    /\ UNCHANGED <<chainVars, cachedHeaders, stage, outcome, args, endHeight, lastHeight, blocks>>

(* mutation: a block is rejected for the size of the chunk before it *)
RejectBlockAfterOthers(h) ==
    /\ LooksAt(h)
    /\ cachedHeaders[h] # Null
    /\ reqSize + cachedHeaders[h].size > maxChunkSize
    /\ Throw("tooBig")

(* No chunk can hold the block. *)
RejectBlock(h) ==
    /\ LooksAt(h)
    /\ cachedHeaders[h] # Null
    /\ cachedHeaders[h].size > maxChunkSize
    /\ Throw("tooBig")

(* The chunk is full, or it reaches the end of the range. *)
ChunkIsComplete ==
    /\ stage = "sizing"
    /\ \/ reqSize >= maxChunkSize
       \/ reqEnd >= endHeight
       \/ \E h \in Heights :
             /\ LooksAt(h)
             /\ cachedHeaders[h] # Null
             /\ cachedHeaders[h].size <= maxChunkSize
             /\ ExceedsChunk(cachedHeaders[h].size)

CompleteChunk ==
    /\ ChunkIsComplete
    /\ reqEnd > lastHeight
    /\ stage' = "request"
    /\ UNCHANGED <<chainVars, cachedHeaders, outcome, args, endHeight, lastHeight,
                   reqEnd, reqSize, blocks>>

(* mutation: an empty chunk is not noticed *)
CompleteEmptyChunkAnyway ==
    /\ ChunkIsComplete
    /\ reqEnd = lastHeight
    /\ stage' = "loop"
    /\ UNCHANGED <<chainVars, cachedHeaders, outcome, args, endHeight, lastHeight,
                   reqEnd, reqSize, blocks>>

(* A chunk without blocks: the caller takes the height of the last block   *)
(* it has, if there is one.                                                *)
CompleteEmptyChunk ==
    /\ ChunkIsComplete
    /\ reqEnd = lastHeight
    /\ IF blocks = << >>
       THEN Throw("outOfBounds")
       ELSE /\ lastHeight' = blocks[Len(blocks)].height
            /\ stage' = "loop"
            /\ UNCHANGED <<chainVars, cachedHeaders, outcome, args, endHeight,
                           reqEnd, reqSize, blocks>>

(* get_blocks_by_height.bin: the blocks at the heights that were asked for *)
(* are paired with these heights by their position.                        *)
Requested == (lastHeight + 1)..reqEnd

(* mutation: every chunk is read from the start of the range *)
ReceivedFromStart ==
    [i \in 1..(reqEnd - lastHeight) |->
        [height |-> lastHeight + i, block |-> BlockAt(startHeight + i - 1)]]

Received ==
    [i \in 1..(reqEnd - lastHeight) |->
        [height |-> lastHeight + i, block |-> BlockAt(lastHeight + i)]]

FetchBlocks ==
    /\ stage = "request"
    /\ IF \A h \in Requested : OnChain(h)
       THEN /\ blocks' = IF reqEnd > lastHeight THEN blocks \o Received ELSE blocks
            /\ lastHeight' = IF reqEnd > lastHeight THEN reqEnd ELSE lastHeight
            /\ stage' = "loop"
            /\ UNCHANGED <<chainVars, cachedHeaders, outcome, args, endHeight, reqEnd, reqSize>>
       ELSE Throw("failed")

(* A request fails: MoneroRpcError or MoneroError leaves the method. *)
RequestFails ==
    /\ \/ stage \in {"height", "request"}
       \/ \E h \in Heights : LooksAt(h) /\ cachedHeaders[h] = Null
    /\ Throw("failed")

ClientStep ==
    \/ GetHeight
    \/ StartChunk
    \/ FinishRange
    \/ \E h \in Heights : FetchHeaders(h) \/ IncludeBlock(h) \/ RejectBlock(h)
    \/ CompleteChunk
    \/ CompleteEmptyChunk
    \/ FetchBlocks
    \/ RequestFails

Next ==
    \/ GetBlocksByRange
    \/ GetBlocksByRangeChunked
    \/ ClientStep
    \/ ChainNext /\ UNCHANGED clientVars

Spec == Init /\ [][Next]_vars

(* A request is answered, or fails, and the caller's thread goes on. *)
FairSpec == Spec /\ WF_vars(ClientStep)

-----------------------------------------------------------------------------
(* The types. *)
TypeOK ==
    /\ ChainTypeOK
    /\ cachedHeaders \in [Heights -> Blocks \cup {Null}]
    /\ stage \in Stages
    /\ outcome \in Outcomes
    /\ method \in {"range", "chunked"}
    /\ startHeight \in Heights
    /\ endHeight \in Heights \cup {Null}
    /\ maxChunkSize \in ChunkSizes \cup {MaxReqSize}
    /\ lastHeight \in HeightsAndNone
    /\ reqEnd \in HeightsAndNone
    /\ reqSize \in -(MaxInt + 1)..MaxInt
    /\ blocks \in Seq(BlocksAtHeights)
    /\ called \in 0..MaxReorgs

(* The size of the request that is about to be made. *)
TrueSize == MapThenSumSet(LAMBDA h : BlockAt(h).size, Requested)

AboutToRequestChunk ==
    /\ stage = "request"
    /\ method = "chunked"
    /\ \A h \in Requested : OnChain(h)

(* As long as the headers of a chunk are those of the chain, its blocks    *)
(* together are not bigger than the chunk may be - whatever the sizes, the *)
(* groups of headers and the calls that filled the cache before - provided *)
(* that the limit fits in an int.                                          *)
ChunkIsBounded ==
    (/\ AboutToRequestChunk
     /\ maxChunkSize <= MaxInt
     /\ \A h \in Requested : cachedHeaders[h] = BlockAt(h))
    => TrueSize <= maxChunkSize

(* If the chain was not reorganized during the call, what was received is  *)
(* the chain's, from the start of the range on and without a gap - even if *)
(* the chunks were made from headers of an older chain.                    *)
AnswerIsOfOneChain ==
    called = reorgs =>
        \A i \in DOMAIN blocks :
            /\ blocks[i].height = startHeight + i - 1
            /\ blocks[i].block = BlockAt(blocks[i].height)

(* A method throws for the size of a block, or for want of one, only if no *)
(* chunk of the size given could hold the blocks of the range: true until  *)
(* the first reorganization.                                               *)
RejectsOnlyBigBlocks ==
    /\ outcome = "tooBig" /\ reorgs = 0 =>
          \E h \in startHeight..endHeight : OnChain(h) /\ BlockAt(h).size > maxChunkSize
    /\ outcome = "outOfBounds" => maxChunkSize = 0

(* Every call ends: a chunk has a block at least, and the range does not   *)
(* grow with the chain.                                                    *)
CallsReturn == stage # "idle" ~> stage = "idle"

(* Without its headers, cache and chunks, the client reads every block of  *)
(* the range once, in order.                                               *)
Calling == stage # "idle"
Service == INSTANCE BlockService WITH
    ask <- [open |-> Calling, start |-> startHeight, end |-> endHeight],
    answer <- blocks

ImplementsService == Service!ServiceSpec

=============================================================================
