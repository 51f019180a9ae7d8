SPECIFICATION LaunchSpec
CONSTANTS
    Window = 10
    Recovery = 3
    MaxTime = 12
INVARIANTS
    TypeOK
    SingleWorker
    CrashLoopIsThrottled
    OneSupervisor
    UploadIsWhole
PROPERTIES
    SupervisionGoesOn
    NothingIsLost
    ClientsAreServed
CHECK_DEADLOCK FALSE
