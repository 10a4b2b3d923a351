SPECIFICATION Spec
CONSTANTS
    Dims = {1, 2}
    Interleaving <- MCInterleaving
    Boxes <- MCBoxes
    MaxZs = {2, 5}
    InitialCapacity = 5
INVARIANTS
    RegionsAligned
    RegionsUnshared
    PoolExact
PROPERTIES
    Implements
