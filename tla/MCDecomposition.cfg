SPECIFICATION Spec
CONSTANTS
    ZBits = 4
    MaxZs = {1, 4, 5}
    Objects <- MCObjects
INVARIANTS
    TypeOK
    Covers
    Disjoint
    Budget
    NoRegionOutside
    WithinEnclosing
    ExactWhenRoomy
    SiblingsAdjacent
    ExactIsMinimal
PROPERTIES
    OnlyTightens
    Terminates
