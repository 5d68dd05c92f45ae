SPECIFICATION SimSpec
CONSTANTS
    SLOTS = 8
    COLS = 26
    CELLS = 48
    RESERVE = 16
    MAXREQS = 12
    MINFREE = 4
    ORDER <- PageOrder
    Streams <- OneStream
    Finals <- PageFinals
    BatchFrames = 4
    MemFrames = 10
    MaxSteps = 10
PROPERTIES
    PagedSimKeepsWorking
CHECK_DEADLOCK FALSE
