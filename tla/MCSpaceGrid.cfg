SPECIFICATION GridSpec
CONSTANTS
    Resolutions <- MCResolutions
    ByteBits = 2
    IntBits = 6
    LongBits = 12
    TopBit = 10
INVARIANTS
    DefaultTakesTurns
    KeyIsPath
    GridKeepsOrder
