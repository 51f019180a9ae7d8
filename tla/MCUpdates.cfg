SPECIFICATION UpdatesSpec
CONSTANTS
    a = a
    b = b
    NoConfig = NoConfig
    None = None
    Configs <- Documents
    MaxGen = 2
    MaxQueue = 1
    MaxCrashes = 1
    IoFaults = TRUE
INVARIANTS
    PartsTypeOK
    PublishedIsSealed
    SourcesAreKept
    StoresMatch
    PoolIsFair
PROPERTIES
    PointerAdvances
    RecoveryIsIdempotent
CHECK_DEADLOCK FALSE
