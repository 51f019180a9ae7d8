CONSTANTS
    Window = 8
    Candidates = 2
    HazardSets <- Kills
    CountRestarts = FALSE
    MaxFaults = 1
SPECIFICATION Spec
PROPERTIES
    RelaunchCleansUp
CHECK_DEADLOCK FALSE
