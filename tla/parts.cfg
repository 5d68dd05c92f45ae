SPECIFICATION PartsSpec
CONSTANTS
    kv1 = kv1
    kv2 = kv2
    SLOTS = 2
    COLS = 3
    CELLS = 6
    RESERVE = 3
    MAXREQS = 4
    MINFREE = 2
    ORDER <- ShortOrder
    Streams <- ShortStreams
    Finals <- ShortStreams
    BatchFrames = 4
    MemFrames = 3
    MaxSteps = 6
    Metrics <- TwoMetrics
    LogMetrics <- LogOnes
    Systems <- ThreeSystems
    Rates <- ThreeRates
    Loads <- ManyLoads
    Stalls <- TwoStalls
    RowsOf <- SomeRows
    IW = 12
    IH = 60
    POOL = 32
    MAXTOKENS = 96
    BLOCK_SIZES <- PageBlockSizes
    PHYS <- Shuffled
    Section <- ThreeSections
    BandTop = 4
    BandLen = 6
    MaxPending = 3
    ScrollRange = 520
    Positions <- SomePositions
    KVReq <- TwoKVReqs
    PoolBlocks = 3
    KVBlockSize = 2
    MaxLen = 4
    MaxAdmissions = 2
    Tokens <- EightTokens
    MaxTokens = 4
INVARIANTS
    ContinuousNeverBehind
    LaneShowsTheRun
    MemoryAccountedFor
    ReadoutsTellTheData
    LabelsApartUnlessParted
    AxisCoversTheData
    TableHoldsTheTokens
    HighlightFollowsReading
    RealQueriesSeeTheirPast
    PadQueriesStayInTheirRow
    StreamedTextIsTheText
    NothingHeldButATail
PROPERTIES
    TraceIsFollowable
    PacketFollowsArrows
    EffectsCatchUp
CHECK_DEADLOCK FALSE
