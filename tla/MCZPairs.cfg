SPECIFICATION PairsSpec
CONSTANTS
    ZBits = 4
    MaxZBits = 5
    LengthBits = 3
INVARIANTS
    OrderAgrees
    SiblingsAgree
    IntervalExact
