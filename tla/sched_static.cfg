SPECIFICATION Spec
CONSTANTS
    r1 = r1
    r2 = r2
    r3 = r3
    r4 = r4
    r5 = r5
    id1 = id1
    id2 = id2
    id3 = id3
    id4 = id4
    id5 = id5
    Req <- AllReqs
    RequestId <- AllIds
    Id <- SharedIds5
    NumBlocks = 8
    BlockSize = 2
    MaxContext = 11
    Paged = TRUE
    ReserveMaxNew = TRUE
    Prompt <- StaticPrompts
    MaxNewTokens <- StaticLengths
    IgnoreEos <- KeepsEos
    MayLeave <- OneLeaves
    MaxBatch = 3
    Static = TRUE
    Preemption = FALSE
INVARIANTS
    DiesOnlyOfBadReservation
    StaticLockstep
    ServedOnce
    BlocksPartitioned
    RowsCovered
CHECK_DEADLOCK FALSE
