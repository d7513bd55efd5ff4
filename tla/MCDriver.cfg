SPECIFICATION DriverSpec
CONSTANTS
    Environments <- MCEnvironments
    Names <- MCNames
    TraceFiles <- MCTraceFiles
    TokenOf <- MCTokenOf
    NumberOf <- MCNumberOf
    Files <- MCFiles
    MaxProcesses = 2
INVARIANTS
    LoadsWhatTheFileSays
    RefusesTheFirstOffence
    FilesAppearInOrder
    SuccessMeansEverything
    FailureHasACause
