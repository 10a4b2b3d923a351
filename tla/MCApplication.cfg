SPECIFICATION Spec
CONSTANTS
    Interleaving <- MCInterleaving
    InitialCapacity = 5
    MaxZBits = 5
    LengthBits = 3
    InitialSize = 2
    XMax = 8
    NPoints = 2
    Spacing = 2
    NQueries = 2
    MaxZ = 4
    Positions <- MCPositions
    Queries <- MCQueries
CHECK_DEADLOCK FALSE
INVARIANTS
    QueryExact
PROPERTIES
    KeepsOwnership
    ProgramEnds
