CONSTANTS
    Window = 8
    Candidates = 2
    HazardSets <- CalmAndRough
    CountRestarts = FALSE
    MaxFaults = 4
SPECIFICATION WorkerSpec
INVARIANTS
    PartsTypeOK
    StateIsHonest
    DirectWhenDown
PROPERTIES
    ServiceComesBack
    NotTooOften
    IdentitiesAreKept
    ServicesKeepUp
CHECK_DEADLOCK FALSE
