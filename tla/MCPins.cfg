\* A directory of two files and a queue with room for one, so that requests
\* wait; one terminal, the evictor and cache clean.
CONSTANTS
    f1 = f1
    f2 = f2
    t1 = t1
    t2 = t2
    Files = {f1, f2}
    Terminals = {t1}
    Reads = {f1}
    Capacity = 1
    Most <- Bounds
    Admits = {}
SPECIFICATION Spec
INVARIANTS
    
    ShownIsQueued
    NoSendOnClosed
PROPERTIES
    
    
    ShutdownEnds
CHECK_DEADLOCK FALSE
