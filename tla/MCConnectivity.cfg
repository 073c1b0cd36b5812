\* Two failures declare OFFLINE: the smallest threshold at which a single
\* failure while ONLINE is tolerated (the mount uses 3).
CONSTANTS
    p1 = p1
    p2 = p2
    Subs = {"engine", "download"}
    Paths = {p1}
    Prompt = FALSE
    Threshold = 2
    MaxFailures = 2
SPECIFICATION Spec
INVARIANTS
    TypeOK
    CtxMatchesState
    UploadsCancelledOffline
    FailureBudget
