SPECIFICATION Spec
CONSTANTS
    Size = 3
    ChunkSize = 2
    Default = 1
    Daemon = 0
    Domains = {1, 2}
    Limits <- LifeLimits
INVARIANTS
    TypeOK
    NothingMissed
    NothingExtra
    ReportsBitmaps
CHECK_DEADLOCK FALSE
