SPECIFICATION Spec
CONSTANTS
    Cameras <- MCCameras
    Senders <- MCSenders
    Profiles <- MCProfiles
    HbPeriod = 2
    Duration = 4
    DropRate = TRUE
    MaxLate = 1
    Timeout = 1
    Interval = 1
    Raw = FALSE
    PollPeriod = 1
    PollLate = 1
    Faults = {"lose", "reorder", "duplicate"}
    Strangers = {"undecodable", "heartbeat_tags", "none"}
    MaxStrangers = 1
    MaxInFlight = 2
    Horizon = 4
INVARIANTS
    NoGapNoLoss
    GapsCountMissingRuns
    PassMeansClean
    GivesUpOnSilence
    GapsAreHeartbeats
    GapsHaveACause
CHECK_DEADLOCK FALSE
