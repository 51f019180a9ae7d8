SPECIFICATION DeviceSpec
CONSTANTS
    N = 5
    Restores = {1, 4, 5}
    MaxFaults = 4
INVARIANTS
    PartsTypeOK
    ReceiptCovers
    FailedApplyAddsNothing
    TrafficFollowsPolicy
    AppliedThenGone
    CoreIsAccountedFor
PROPERTIES
    RuleSetsAreCurrent
    DeviceSettles
CHECK_DEADLOCK FALSE
