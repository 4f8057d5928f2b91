SPECIFICATION FairSpec
CONSTANTS
    Null = Null
    Sizes = {1, 2}
    MaxBlocks = 3
    MaxReorgs = 1
    HeadersPerReq = 2
    MaxReqSize = 3
    ChunkSizes = {0, 1, 9}
    MaxInt = 3
INVARIANTS
    TypeOK
    ChunkIsBounded
    AnswerIsOfOneChain
    RejectsOnlyBigBlocks
PROPERTIES
    CallsReturn
    ImplementsService
