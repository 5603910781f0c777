SPECIFICATION FairSpec
CONSTANTS
    Keys = {k1}
    Selectors = {s1, s2}
    EventCapacity = 2
    MaxUpdates = 0
    MayDie = FALSE
    Panels = {"Query"}
    MaxCmds = 2
    MaxSubs = 1
INVARIANT WaitingQueryHasAnswer
PROPERTY WaitingEnds
