SPECIFICATION SafeSpec
CONSTANTS
    ann = ann
    bob = bob
    t1 = t1
    t2 = t2
    t3 = t3
    None = None
    User = {ann}
    Turn = {t1, t2}
    Owner <- AllAnn
    Conn = {c1, c2, c3, c4}
    MaxSessions = 2
    MaxToken = 2
    MaxOrphan = 0
    MayShutDown = FALSE
    KnowsExpiry = FALSE
PROPERTIES
    RefreshYieldsFreshToken
