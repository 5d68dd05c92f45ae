SPECIFICATION Spec
CONSTANTS
    r1 = r1
    r2 = r2
    r3 = r3
    Req <- ThreeReqs
    MaxNew <- Lengths
    MayStop <- OnlyR1
    Streams <- OnlyR1
    MayLeave <- OnlyR1
    MaxQueue = 2
    MaxBatch = 2
    Backends <- Both
PROPERTIES
    RefusesOnlyAFullQueue
CHECK_DEADLOCK FALSE
