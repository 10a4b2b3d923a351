SPECIFICATION ArraySpec
CONSTANTS
    Zs = {1, 2}
    Uninitialized <- MCUninitialized
    InitialCapacity = 2
    MaxLength = 5
PROPERTIES
    IsList
