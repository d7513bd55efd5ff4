SPECIFICATION BothSpec
CONSTANTS
    Traces <- MCTraces
    MaxTicks = 14
    MaxProcesses = 3
    Leftover = {1}
    EntryLevel <- Column
    NextLevel <- Below
    BoostEvery = 4
    LevelQuanta <- MCLevelQuanta
INVARIANTS
    InTableOrder
    IdleTogether
PROPERTIES
    QueueSpec
    QueuesKeepContract
