SPECIFICATION TestsSpec
CONSTANTS
    Keys <- MCKeys
    Least = 0
    EOF = 9999
    Gap = 4
    MaxObjects = 4
    MaxCopies = 3
    CheckEvery = 2
    Prime = 9987001
    Wide = 65536
    AnyKeys <- MCAnyKeys
INVARIANTS
    FrozenInOrder
    TestsPass
PROPERTIES
    IsOrderedCursor
    ObjectsUsable
