SPECIFICATION Spec
CONSTANTS
    Watchers = {w1}
    FillFloor = 15
    AdaptAfter = 1
    MinHits = 2
    TargetLists <- MCTargetLists
    Fills = {10, 25}
    Settle = 1
    OpenTimeout = 1
    NoQueue = NoQueue
    MinViews = 2
    Pipelines <- MCPipelines
    MaxFiles = 2
INVARIANTS
    NobodyOversleeps
    ProgressAddsUp
    LoweredIsReachable
    SkipHitsThisOrNext
    StopTakesAtMostOneMore
    SinkIsFound
    FailedRunIsKept
PROPERTIES
    ViewsNotStranded
    NoFrameGivesUp
    SteadyEffortCompletes
