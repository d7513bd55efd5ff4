SPECIFICATION DriverSpec
CONSTANTS
    Environments <- OverThree
    Names <- MCNames
    TraceFiles <- MCTraceFiles
    TokenOf <- MCTokenOf
    NumberOf <- MCNumberOf
    Files <- MCFiles
    MaxProcesses = 2
INVARIANT
    SuccessIsAsDocumented
