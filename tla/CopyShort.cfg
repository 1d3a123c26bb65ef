SPECIFICATION XeFairSpec
CONSTANT LongCopies = FALSE
INVARIANTS
    TypeOK
    CopyBacked
    CopyTidy
    OneCopy
    FarBacked
    CrossTidy
PROPERTY CopyReclaimed
CHECK_DEADLOCK FALSE
