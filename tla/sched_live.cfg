SPECIFICATION FairSpec
CONSTANTS
    r1 = r1
    r2 = r2
    r3 = r3
    r4 = r4
    r5 = r5
    id1 = id1
    id2 = id2
    id3 = id3
    id4 = id4
    id5 = id5
    Req <- FourReqs
    RequestId <- AllIds
    Id <- UniqueIds4
    NumBlocks = 3
    BlockSize = 2
    MaxContext = 8
    Paged = TRUE
    ReserveMaxNew = FALSE
    Prompt <- ShortPrompts
    MaxNewTokens <- ShortLengths
    IgnoreEos <- KeepsEos
    MayLeave <- OneLeaves
    MaxBatch = 3
    Static = FALSE
    Preemption = TRUE
PROPERTIES
    EveryRequestEnds
    ImplementsLifecycle
CHECK_DEADLOCK FALSE
