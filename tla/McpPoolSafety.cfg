SPECIFICATION SafeSpec
CONSTANTS
    ann = ann
    bob = bob
    t1 = t1
    t2 = t2
    t3 = t3
    None = None
    User = {ann, bob}
    Turn = {t1, t2, t3}
    Owner <- TwoAndOne
    Conn = {c1, c2, c3, c4, c5}
    MaxSessions = 2
    MaxToken = 2
    MaxOrphan = 0
    MayShutDown = TRUE
    KnowsExpiry = FALSE
SYMMETRY ConnSymmetry
INVARIANTS
    TypeOK
    OwnChildOnly
    UseCounted
    OnePlacePerChild
    OvershootBounded
PROPERTIES
    NeverClosedUnderTurn
    LeasesKept
CHECK_DEADLOCK FALSE
