SPECIFICATION FairSpec
CONSTANTS
    MaxBuffers = 1
    MaxIngest = 0
    MaxAhead = 0
    FutureSlack = 0
    SampleKinds = {"good", "discarded", "bad_caps"}
    OpenFailures = {"unbuildable", "not_playing"}
    BusMessages = {"error", "eos"}
    SendFaults = FALSE
    UdpEnabled = FALSE
    HeartbeatPeriod = 0
    DetectPeriod = 0
    WatchdogTimeout = 2
    StatsInterval = 0
    ExitOnEos = TRUE
    ReadTimeout = 2
    PollPeriod = 2
    BackoffMin = 3
    BackoffMax = 6
    RapidWindow = 3
    MaxDetect = 1
    Horizon = 8
    EnvUntil = 3
INVARIANTS
    StopIsPrompt
    ReleasedWhenDone
    WatchdogBound
    FlagsAreCurrent
PROPERTIES
    EosEndsStream
    FaultIsHandled
    RestartsAreSpaced
