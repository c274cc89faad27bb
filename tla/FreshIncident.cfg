SPECIFICATION Spec
CONSTANTS
    MaxBuffers = 1
    MaxIngest = 0
    MaxAhead = 0
    FutureSlack = 0
    SampleKinds = {}
    OpenFailures = {}
    BusMessages = {"eos"}
    SendFaults = FALSE
    UdpEnabled = FALSE
    HeartbeatPeriod = 0
    DetectPeriod = 0
    WatchdogTimeout = 3
    StatsInterval = 0
    ExitOnEos = FALSE
    ReadTimeout = 1
    PollPeriod = 1
    BackoffMin = 1
    BackoffMax = 10
    RapidWindow = 5
    MaxDetect = 0
    Horizon = 20
    EnvUntil = 20
PROPERTIES
    FreshIncidentRanForAWhile
