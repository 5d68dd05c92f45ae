SPECIFICATION FairSpec
CONSTANTS
    r1 = r1
    r2 = r2
    r3 = r3
    Req <- ThreeReqs
    MaxNew <- Lengths
    MayStop <- OnlyR1
    Streams <- OnlyR1
    MayLeave <- OnlyR1
    MaxQueue = 1
    MaxBatch = 2
    Backends <- Both
INVARIANTS
    TypeOK
    FreshQueueBounded
    HeldOnce
    NoLostWakeup
    EachTokenOnce
    LastTokenComesLabelled
    NaiveDiesOnlyOfEmptyOutput
PROPERTIES
    EveryRequestAnswered
    StopEndsTheThread
CHECK_DEADLOCK FALSE
