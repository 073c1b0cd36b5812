\* Three processes: one that leaves traces, one that trips over them and one
\* that is refused; one terminal for umount and status.
CONSTANTS
    p1 = p1
    p2 = p2
    p3 = p3
    c1 = c1
    c2 = c2
    Procs = {p1, p2, p3}
    Commands = {c1}
    Admits = {}
SPECIFICATION Spec
CHECK_DEADLOCK FALSE
INVARIANTS
    OneMount
    RunningIsFound
    WaitedForUploads
PROPERTIES
    LaunchSettles
