CONSTANTS
    Window = 8
    Candidates = 2
    HazardSets <- Commands
    CountRestarts = FALSE
    MaxFaults = 4
SPECIFICATION Spec
INVARIANTS
    FailedCleanupIsReported
CHECK_DEADLOCK FALSE
