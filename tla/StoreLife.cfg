SPECIFICATION FairSpec
CONSTANTS
    MaxId = 3
    MaxWrites = 1
    MaxOpen = 1
    UseGrace = TRUE
INVARIANTS
    TypeOK
    SnapshotsImmutable
    CopiesFaithful
PROPERTIES
    ImplementsCatalog
    OrphansReclaimed
