SPECIFICATION Spec
CHECK_DEADLOCK FALSE
CONSTANTS
    topic = topic
    chunk = chunk
    Keys = {topic, chunk}
    ChunkKeys = {chunk}
    small = small
    large = large
    Contents = {small, large}
    SizeOf <- Sizes
    Published <- Sent
    Sources = {monitor, user}
    DedupWindow = 2
    RateWindow = 2
    CountLimits = {4}
    MemoryLimits = {20}
    RateLimits = {4}
    MaxPublications = 3
    MaxReplies = 0
    MaxEdits = 0
    MaxTime = 0
INVARIANT TreeShowsLast
