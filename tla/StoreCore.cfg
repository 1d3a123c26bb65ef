SPECIFICATION Spec
CONSTANTS
    MaxId = 4
    MaxWrites = 0
    MaxOpen = 0
    UseGrace = TRUE
INVARIANTS
    RowsBacked
    PromotionsSuffice
    InterruptedDestroy
PROPERTIES
    DestroyComplete
    ScanSparesInFlight
