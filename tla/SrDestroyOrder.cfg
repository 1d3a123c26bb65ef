SPECIFICATION Spec
CONSTANTS
    Uuids = {1, 2}
    Places <- MCPlaces
    Adoptable <- MCAdoptable
    OldFs <- MCOldFs
    OldVol <- MCOldVol
    OldSnap <- MCOldSnap
    Contents <- MCContents
    MaxTries = 2
    MaxFailures = 2
INVARIANT DependencyCorrect
CHECK_DEADLOCK FALSE
