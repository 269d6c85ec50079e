SPECIFICATION Spec
CONSTANTS
    None = None
    Principal = {ann, bob}
    Request = {r1, r2}
    Sid = {s1, s2, s3}
    MaxTotal = 2
    MaxPerPrincipal = 1
    MaxLate = 1
INVARIANTS
    TypeOK
    InFlightExact
    ServedToOwner
    OvershootIsLate
    PendingExact
PROPERTIES
    BusyClosedByOwnerOnly
    AbandonedSwept
