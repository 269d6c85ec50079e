SPECIFICATION Spec
CONSTANTS
    w1 = w1
    w2 = w2
    None = None
    MaxJob = 2
    Priority = {0, 1}
    MaxAttempts = 3
    Worker = {w1, w2}
    Name <- OwnName
    LeaseFor = 2
INVARIANTS
    TypeOK
    OneLoopPerRun
PROPERTIES
    StaleReportsDropped
    LifecycleKept
    JobsEnd
