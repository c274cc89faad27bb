SPECIFICATION Spec
CONSTANTS
    MaxBuffers = 1
    MaxIngest = 0
    MaxAhead = 2
    FutureSlack = 1
    SampleKinds = {"good", "unsupported"}
    OpenFailures = {}
    BusMessages = {}
    SendFaults = TRUE
    UdpEnabled = TRUE
    HeartbeatPeriod = 2
    DetectPeriod = 2
    WatchdogTimeout = 3
    StatsInterval = 3
    ExitOnEos = FALSE
    ReadTimeout = 1
    PollPeriod = 1
    BackoffMin = 1
    BackoffMax = 10
    RapidWindow = 5
    MaxDetect = 2
    Horizon = 10
    EnvUntil = 0
INVARIANTS
    SilenceMeansNoFrames
    FramesAccounted
    PosesAreFresh
PROPERTIES
    NothingSentWithoutFrame
    ImplementsContract
