SPECIFICATION MlfqSpec
CONSTANTS
    Traces <- MCTraces
    MaxTicks = 23
    MaxProcesses = 4
    Leftover = {0}
    LevelQuantum <- MCLevelQuantum
    BoostInterval = 5
INVARIANT
    BoostInTableOrder
