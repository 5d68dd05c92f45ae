SPECIFICATION Spec
CONSTANTS
    r1 = r1
    r2 = r2
    r3 = r3
    r4 = r4
    r5 = r5
    id1 = id1
    id2 = id2
    id3 = id3
    id4 = id4
    id5 = id5
    Req <- ThreeReqs
    RequestId <- AllIds
    Id <- SharedIds3
    NumBlocks = 14
    BlockSize = 1
    MaxContext = 7
    Paged = TRUE
    ReserveMaxNew = TRUE
    Prompt <- LatePrompts
    MaxNewTokens <- LateLengths
    IgnoreEos <- KeepsEos
    MayLeave <- OneLeaves
    MaxBatch = 3
    Static = FALSE
    Preemption = FALSE
INVARIANTS
    NeverOverCommits
CHECK_DEADLOCK FALSE
