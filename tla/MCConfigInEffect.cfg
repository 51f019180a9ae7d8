CONSTANTS
    MaxRequests = 0
    MaxTrouble = 0
    MaxHappenings = 2
SPECIFICATION ApplySpec
INVARIANT AcceptedIsInEffect
CHECK_DEADLOCK FALSE
