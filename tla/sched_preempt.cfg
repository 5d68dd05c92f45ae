SPECIFICATION Spec
CONSTANTS
    r1 = r1
    r2 = r2
    r3 = r3
    r4 = r4
    r5 = r5
    id1 = id1
    id2 = id2
    id3 = id3
    id4 = id4
    id5 = id5
    Req <- AllReqs
    RequestId <- AllIds
    Id <- UniqueIds5
    NumBlocks = 7
    BlockSize = 2
    MaxContext = 20
    Paged = TRUE
    ReserveMaxNew = FALSE
    Prompt <- LongPrompts
    MaxNewTokens <- LongLengths
    IgnoreEos <- OnlyR3Stops
    MayLeave <- Nobody
    MaxBatch = 3
    Static = FALSE
    Preemption = TRUE
INVARIANTS
    TypeOK
    BlocksPartitioned
    OnlyAdmittedHoldKV
    RowsCovered
    PreemptionPaid
    FirstAdmissionsInOrder
    BatchBounded
PROPERTIES
    EveryStepProgresses
CHECK_DEADLOCK FALSE
