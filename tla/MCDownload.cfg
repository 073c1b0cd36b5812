\* Two generations of a download alive at a time, cancelled and crashed.
CONSTANTS
    r1 = r1
    p1 = p1
    N = 2
    Window = 2
    ReadAhead = 1
    IdleTimeout = TRUE
    SupportsRange = TRUE
    Readers = {r1}
    Prefetchers = {}
    Evictions = {}
    AtomicOpen = FALSE
    MayCancel = TRUE
    MayCrash = TRUE
    MayCheckpoint = FALSE
    MaxGen = 2
    MaxGo = 1
    MaxIno = 1
SPECIFICATION Spec
INVARIANTS
    RangesOnDisk
    CleanIsComplete
    ServedFromDisk
CHECK_DEADLOCK FALSE
