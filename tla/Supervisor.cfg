SPECIFICATION Spec
CONSTANTS
    MaxRun = 3
    MaxRequest = 2
CHECK_DEADLOCK FALSE
INVARIANTS
    TypeOK
    NotedStopReported
    CrashReportedOnce
    StopLeavesNone
PROPERTIES
    LabelledAsAsked
    ComesBack
