SPECIFICATION SafeSpec
CONSTANTS
    ann = ann
    bob = bob
    t1 = t1
    t2 = t2
    t3 = t3
    None = None
    User = {ann, bob}
    Turn = {t1, t2}
    Owner <- OneEach
    Conn = {c1, c2, c3, c4}
    MaxSessions = 1
    MaxToken = 1
    MaxOrphan = 0
    MayShutDown = FALSE
    KnowsExpiry = FALSE
INVARIANTS
    SessionsCapped
