CONSTANTS
    MaxRequests = 3
    MaxTrouble = 1
    MaxHappenings = 2
SPECIFICATION UsersSpec
INVARIANTS
    StopIsObeyed
    CompletedIsTrue
    NodesKeepTheirMeaning
    ConfigurationIsHonoured
CHECK_DEADLOCK FALSE
