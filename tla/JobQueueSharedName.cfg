SPECIFICATION SafeSpec
CONSTANTS
    w1 = w1
    w2 = w2
    None = None
    MaxJob = 2
    Priority = {0, 1}
    MaxAttempts = 2
    Worker = {w1, w2}
    Name <- SharedName
    LeaseFor = 1
PROPERTIES
    StaleReportsDropped
