SPECIFICATION FairSpec

CONSTANTS
    Items = {i1, i2}
    Workers = {w1, w2}
    Callers = {c1, c2}
    NoItem = NoItem

INVARIANTS
    ItemsAreInOnePlace
    QueuedItemsHaveWorkers
    WaitersAreNotified

PROPERTIES
    ImplementsPool
    CallsReturn
