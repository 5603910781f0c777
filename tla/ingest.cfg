SPECIFICATION Spec
CHECK_DEADLOCK FALSE
CONSTANTS
    topic = topic
    chunk = chunk
    Keys = {topic, chunk}
    ChunkKeys = {chunk}
    small = small
    large = large
    Contents = {small, large}
    SizeOf <- Sizes
    Published <- Sent
    Sources = {monitor, user}
    DedupWindow = 2
    RateWindow = 2
    CountLimits = {1, 2}
    MemoryLimits = {2, 3}
    RateLimits = {1}
    MaxPublications = 3
    MaxReplies = 1
    MaxEdits = 1
    MaxTime = 2
SYMMETRY Symmetry
INVARIANTS
    TypeOK
    HeaderAddsUp
    
    CountedOnceAtMost
PROPERTY
    GrowsWithinLimits
