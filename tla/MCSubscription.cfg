SPECIFICATION SubscriptionSpec
CONSTANTS
    a = a
    b = b
    NoConfig = NoConfig
    None = None
    Configs <- Documents
    MaxGen = 3
    MaxQueue = 2
    MaxCrashes = 2
    IoFaults = FALSE
INVARIANTS
    PartsTypeOK
    TransactionIsWhole
    OutcomeWasServed
PROPERTIES
    SwitchesAreEarned
    WorkEnds
CHECK_DEADLOCK FALSE
