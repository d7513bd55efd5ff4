SPECIFICATION DriverSpec
CONSTANTS
    Environments <- OneRunOfEachFile
    Names <- MCNames
    TraceFiles <- MCTraceFiles
    TokenOf <- MCTokenOf
    NumberOf <- MCNumberOf
    Files <- MCFiles
    MaxProcesses = 2
INVARIANT
    PidsAreIndices
