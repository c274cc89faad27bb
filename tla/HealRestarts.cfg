SPECIFICATION Spec
SYMMETRY Invocation
CONSTANTS
    p1 = p1
    p2 = p2
    p3 = p3
    Procs = {p1, p2, p3}
    Invocations <- AnyCommand
    Documents <- AnyPort
    Ports = 8
    DefaultPort = 2
    OtherPort = 1
    Concurrent = FALSE
    Killable = TRUE
    DiskFull = TRUE
    MaxEdits = 1
INVARIANTS
    ConfigAlwaysWhole
    HealsOnce
PROPERTIES
    ApprovedConfigStarts
    ImplementsConfigContract
CHECK_DEADLOCK FALSE
