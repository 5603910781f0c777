SPECIFICATION Spec
CONSTANTS
    Keys = {k1}
    Selectors = {s1}
    EventCapacity = 3
    MaxUpdates = 1
    MayDie = TRUE
    Panels = {"Publish", "Queryable", "Health"}
    MaxCmds = 2
    MaxSubs = 1
INVARIANTS
    SendingHasAnswer
    EndOfSessionFindsNothingPending
    MonitorFlagTruthful
    ActiveQueryableRuns
