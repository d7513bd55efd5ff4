SPECIFICATION RrSpec
CONSTANTS
    Traces <- MCTraces
    MaxTicks = 12
    MaxProcesses = 3
    Leftover = {1}
    Quanta = {1, 2, 3}
INVARIANTS
    OneTurnEach
    BoundedWait
    LargeQuantumIsFcfs
PROPERTIES
    QueueSpec
