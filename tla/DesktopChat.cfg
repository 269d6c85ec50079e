SPECIFICATION Spec
CONSTANTS
    t1 = t1
    t2 = t2
    a1 = a1
    a2 = a2
    e1 = e1
    e2 = e2
    None = None
    Turn = {t1, t2}
    Account = {a1, a2}
    First = a1
    Entity = {e1, e2}
    Clicks = 2
    Batches <- SomeBatches
    Soft = 1
    Hard = 2
    Stall = 1
    MaxSame = 1
CHECK_DEADLOCK FALSE
INVARIANTS
    TypeOK
    NoChangeLost
    RevertedOnce
    FirstRequestPinned
    BudgetKept
PROPERTIES
    StoppedUnwinds
