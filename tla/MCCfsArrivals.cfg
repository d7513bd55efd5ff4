SPECIFICATION CfsSpec
CONSTANTS
    Traces <- MCTraces
    MaxTicks = 16
    MaxProcesses = 4
INVARIANT
    LateArrivalsStartAtMinimum
