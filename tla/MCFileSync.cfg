\* One file, every strategy, the loop of the engine; nothing delicate is admitted.
CONSTANTS
    p1 = p1
    Paths = {p1}
    Strategies = {"both", "local-wins", "remote-wins", "manual"}
    Workers = {"loop"}
    UserOps = {"create", "write", "chmod", "unlink", "resolve", "download", "evict"}
    PeerOps = {"edit", "delete"}
    Admits = {}
    OpLimit = 2
    MaxTime = 3
    MaxVer = 3
    MaxFaults = 1
    MaxCrashes = 1
SPECIFICATION Spec
INVARIANTS
    LocalWorkKept
    
PROPERTY
    DirtyIsSynced
CHECK_DEADLOCK FALSE
