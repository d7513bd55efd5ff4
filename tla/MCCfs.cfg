SPECIFICATION CfsSpec
CONSTANTS
    Traces <- MCTraces
    MaxTicks = 16
    MaxProcesses = 4
INVARIANTS
    VruntimesStayClose
    ZeroIncrementNeverYields
    WeightedShares
PROPERTY
    WCSpec
