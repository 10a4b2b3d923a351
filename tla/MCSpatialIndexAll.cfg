SPECIFICATION Spec
CONSTANTS
    ZBits = 2
    MaxZBits = 3
    LengthBits = 2
    Soids = {1, 2}
    Shapes <- MCShapes
    Decompositions <- MCDecompositions
    MaxOutput = 1
INVARIANTS
    FindsAll
