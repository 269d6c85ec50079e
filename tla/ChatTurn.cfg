SPECIFICATION Spec
CONSTANTS
    t1 = t1
    t2 = t2
    ann = ann
    bob = bob
    None = None
    Turn = {t1, t2}
    User = {ann, bob}
    Owner <- BothAnn
    Batches <- SomeBatches
    MaxCalls = 2
    MaxRetries = 1
INVARIANTS
    TypeOK
    CardsParked
    RunsApproved
    HeldReleased
    BilledOnce
PROPERTIES
    PromiseKept
    TurnEnds
