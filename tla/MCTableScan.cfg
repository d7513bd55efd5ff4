SPECIFICATION EverySpec
CONSTANTS
    Traces <- MCTraces
    MaxTicks = 12
    MaxProcesses = 4
INVARIANTS
    TickBound
    ElapsedTimeFixed
    OnlyArrivalsPreempt
    LeastWaiting
    MostUrgentIsServed
PROPERTIES
    EverythingFinishes
    WCSpec
