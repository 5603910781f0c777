SPECIFICATION FairSpec
CHECK_DEADLOCK FALSE
CONSTANTS
    Loop = loop
    Senders = {loop, task}
    WorkerCapacity = 2
    UiCapacity = 2
    MaxBatch = 2
    MaxItems = 7
    MaxDrops = 1
INVARIANTS
    TypeOK
    InOrder
    SleepsEmptyHanded
    NoLostWakeUp
PROPERTIES
    FifoImplemented
    EverythingArrives
    SendersReleased
    ShutdownEnds
