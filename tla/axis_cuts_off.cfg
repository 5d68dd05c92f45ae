SPECIFICATION ChartSpec
CONSTANTS
    Metrics <- TwoMetrics
    LogMetrics <- LogOnes
    Systems <- TwoSystems
    Rates <- FourRates
    Loads <- Published
    Stalls <- SomeStalls
    RowsOf <- SomeRows
    IW = 12
    IH = 60
INVARIANTS
    NothingAboveTheAxis
CHECK_DEADLOCK FALSE
