\* Five bytes leave room for three separate intervals; the file may have been
\* cut on the remote. One retry (the adapter allows six) is enough for the
\* budget to run out and for a clean body to renew it.
CONSTANTS
    FileEnd = 5
    s1 = s1
    s2 = s2
    Streams = {s1, s2}
    Sizes = {3, 5}
    MaxRetries = 1
    Admits = {}
SPECIFICATION Spec
INVARIANTS
    AddIsUnion
    ContainsIsSubset
    GapsAreComplement
    BytesInPlace
    SuccessIsWhole
PROPERTIES
    TransferEnds
