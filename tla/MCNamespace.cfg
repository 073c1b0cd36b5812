\* Two directories with a file each; four operations of the user, two failing
\* calls or crashes, and a replay of two operations at a time, so that some wait.
CONSTANTS
    Paths <- TwoLevels
    Limit = 2
    MaxOps = 4
    MaxFaults = 2
    Admits = {}
SPECIFICATION Spec
INVARIANTS
    NothingLost
    RowHasFile
PROPERTIES
    Converges
