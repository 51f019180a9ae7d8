CONSTANTS
    Window = 8
    Candidates = 2
    HazardSets <- Calm
    CountRestarts = TRUE
    MaxFaults = 4
SPECIFICATION Spec
INVARIANTS
    AtMostThreeRestarts
CHECK_DEADLOCK FALSE
