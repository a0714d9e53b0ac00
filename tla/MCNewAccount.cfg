SPECIFICATION PlatformSpec
CONSTANTS
    FdLimit = 11
    Words = 3
    MaxOps = 5
    LongBits = 5
    ByteBits = 3
    WordSizes = {3, 4}
    Bounds <- MCBounds
    Sizes = {1, 2}
INVARIANT
    NewAccountIsRandom
CHECK_DEADLOCK FALSE
