SPECIFICATION MlqSpec
CONSTANTS
    Traces <- MCTraces
    MaxTicks = 14
    MaxProcesses = 4
    Leftover = {0}
    LevelQuantum <- MCLevelQuantum
INVARIANTS
    HigherQueuesFirst
    OneSliceEach
PROPERTIES
    QueueSpec
    OneQueueIsItsPolicy
