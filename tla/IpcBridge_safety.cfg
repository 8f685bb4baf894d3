SPECIFICATION MemorySpec
CONSTANTS
    i1 = i1
    i2 = i2
    i3 = i3
    Ids <- MCIds
    Loads <- MCLoads
    MaxEntries = 2
    MaxLines = 4
SYMMETRY Symmetry
CHECK_DEADLOCK FALSE
INVARIANTS
    DuplicatesDropped
    GrantsAreDecisions
    IngressReachesBus
    VectorChangesGranted
