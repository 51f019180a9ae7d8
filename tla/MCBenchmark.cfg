SPECIFICATION Spec
CONSTANTS
    Pools <- TwoPools
    Members <- GroupMembers
    Delays = {1, 3}
    Tolerance = 1
    MaxOperations = 1
    MaxEvents = 1
PROPERTY MeasuringNeverKills
CHECK_DEADLOCK FALSE
