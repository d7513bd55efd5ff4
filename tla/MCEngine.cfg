SPECIFICATION Spec
CONSTANTS
    Traces <- MCTraces
    MaxTicks = 6
    MaxProcesses = 4
INVARIANTS
    TypeOK
    Accounting
    Window
    SwitchesMatchTimeline
    ChecksNeverFail
    WaitingIsTimeNotRun
PROPERTY
    Returns
