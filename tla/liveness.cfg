SPECIFICATION FairSpec
CONSTANTS
    Keys = {k1}
    Selectors = {s1}
    EventCapacity = 2
    MaxUpdates = 0
    MayDie = TRUE
    Panels = {"Subscribe", "Publish", "Health"}
    MaxCmds = 2
    MaxSubs = 1
PROPERTIES
    ConnectEnds
    SendingEnds
    UnsubscribeEnds
    WorkerRecovers
