SPECIFICATION Spec
CONSTANTS
    Keys = {k1, k2}
    Selectors = {s1}
    EventCapacity = 3
    MaxUpdates = 0
    MayDie = FALSE
    Panels = {"Subscribe"}
    MaxCmds = 3
    MaxSubs = 3
INVARIANT EnabledMeansNoneUnderWay
