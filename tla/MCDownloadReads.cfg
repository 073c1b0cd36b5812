\* Reads return and downloads end although the file is evicted under them; the
\* reader seeks, so that a second goroutine starts.
CONSTANTS
    r1 = r1
    p1 = p1
    N = 2
    Window = 1
    ReadAhead = 1
    IdleTimeout = TRUE
    SupportsRange = TRUE
    Readers = {r1}
    Prefetchers = {}
    Evictions = {"command", "lru"}
    AtomicOpen = TRUE
    MayCancel = FALSE
    MayCrash = FALSE
    MayCheckpoint = FALSE
    MaxGen = 1
    MaxGo = 2
    MaxIno = 2
SPECIFICATION Spec
PROPERTIES
    ReadReturns
    DoneIsForgotten
CHECK_DEADLOCK FALSE
