SPECIFICATION ChartSpec
CONSTANTS
    Metrics <- TwoMetrics
    LogMetrics <- LogOnes
    Systems <- ThreeSystems
    Rates <- FourRates
    Loads <- Crowded
    Stalls <- SomeStalls
    RowsOf <- SomeRows
    IW = 700
    IH = 286
INVARIANTS
    LabelsNeverOverlap
CHECK_DEADLOCK FALSE
