SPECIFICATION Spec
CONSTANTS
    MaxRun = 3
    MaxRequest = 0
CHECK_DEADLOCK FALSE
INVARIANTS
    StopReported
