SPECIFICATION Spec
CONSTANTS
    Keys = {k1, k2}
    Selectors = {s1}
    EventCapacity = 3
    MaxUpdates = 1
    MayDie = FALSE
    Panels = {"Subscribe"}
    MaxCmds = 3
    MaxSubs = 2
SYMMETRY Symmetry
INVARIANTS
    TypeOK
    WorkerConsistent
    ConnectedMeansSession
    RowsMatchWorker
    PendingHasAnswer
PROPERTY SubscriptionsKept
