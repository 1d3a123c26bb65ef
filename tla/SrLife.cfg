SPECIFICATION Spec
CONSTANTS
    Uuids = {1, 2}
    Places <- MCPlaces
    Adoptable <- MCAdoptable
    OldFs <- MCOldFs
    OldVol <- MCOldVol
    OldSnap <- MCOldSnap
    Contents <- MCContents
    MaxTries = 2
    MaxFailures = 2
INVARIANTS
    TypeOK
    NoNesting
    Whole
    Served
    Adopted
    ProbeHonest
    OrderSuffices
PROPERTY DestroysOwn
CHECK_DEADLOCK FALSE
