SPECIFICATION Spec
SYMMETRY Invocation
CONSTANTS
    p1 = p1
    p2 = p2
    p3 = p3
    Procs = {p1, p2, p3}
    Invocations <- NotVerbose
    Documents <- InRange
    Ports = 8
    DefaultPort = 2
    OtherPort = 1
    Concurrent = TRUE
    Killable = FALSE
    DiskFull = FALSE
    MaxEdits = 0
INVARIANTS
    ConfigAlwaysWhole
CHECK_DEADLOCK FALSE
