SPECIFICATION Spec
CONSTANTS
    Size = 3
    ChunkSize = 2
    Default = 1
    Daemon = 0
    Domains = {1, 2}
    Limits <- LostLimits
INVARIANT Durable
CHECK_DEADLOCK FALSE
