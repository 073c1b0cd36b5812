\* A prefetch and a reader share one download with two goroutines, which is
\* checkpointed, interrupted by crashes and resumed.
CONSTANTS
    r1 = r1
    p1 = p1
    N = 2
    Window = 1
    ReadAhead = 1
    IdleTimeout = TRUE
    SupportsRange = TRUE
    Readers = {r1}
    Prefetchers = {p1}
    Evictions = {}
    AtomicOpen = TRUE
    MayCancel = FALSE
    MayCrash = TRUE
    MayCheckpoint = TRUE
    MaxGen = 1
    MaxGo = 2
    MaxIno = 1
SPECIFICATION Spec
INVARIANTS
    RangesOnDisk
    ServedFromDisk
CHECK_DEADLOCK FALSE
