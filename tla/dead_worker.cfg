SPECIFICATION FairSpec
CONSTANTS
    Keys = {k1}
    Selectors = {s1}
    EventCapacity = 2
    MaxUpdates = 0
    MayDie = TRUE
    Panels = {"Publish", "Health"}
    MaxCmds = 2
    MaxSubs = 1
PROPERTY DeadWorkerEndsPublish
