SPECIFICATION Spec
CONSTANTS
    a = a
    b = b
    NoConfig = NoConfig
    None = None
    Configs <- Documents
    MaxGen = 3
    MaxQueue = 2
    MaxCrashes = 1
    IoFaults = FALSE
INVARIANT UnpublishedKeepsOldState
CHECK_DEADLOCK FALSE
