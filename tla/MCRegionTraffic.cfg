SPECIFICATION Spec
CONSTANTS
    InitialCapacity = 2
    MaxCapacity = 4
    Capacity = 3
    None = None
    Items <- MCItems
    Garbage <- MCGarbage
    Indeterminate <- MCIndeterminate
INVARIANTS
    PositionsAgree
    HeldIsNotFree
    ExactWithinCapacity
PROPERTIES
    IsFifo
