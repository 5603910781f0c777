SPECIFICATION Spec
CHECK_DEADLOCK FALSE
CONSTANTS
    Topics = {t1, t2, t3}
    Publishers = {p1, p2}
    Sizes = {1, 4, 5}
    ChunkSize = 2
    MaxPlainEntries = 2
    MaxPlainBytes = 4
    StaleAge = 2
    MaxPublications = 3
    MaxTime = 3
SYMMETRY Symmetry
INVARIANTS
    TypeOK
    SaveWorks
    UndisturbedSavable
    StoreWithinTree
PROPERTY
    PlainMakesRoom
