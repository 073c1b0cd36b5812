\* Three identifiers: a directory, a file and a successor of one of them.
CONSTANTS
    a = a
    b = b
    v1 = v1
    v2 = v2
    i1 = i1
    i2 = i2
    i3 = i3
    i4 = i4
    loop = loop
    watch = watch
    reader = reader
    docs = docs
    Paths <- MCPaths
    Vers = {v1, v2}
    Ids = {i1, i2, i3}
    Engines = {loop}
    Readers = {reader}
    RootName = docs
    Admits = {}
SPECIFICATION Spec
INVARIANTS
    CacheExact
    ActsOnItsPath
PROPERTIES
    TreeImplemented
SYMMETRY Symmetry
