SPECIFICATION PlatformSpec
CONSTANTS
    FdLimit = 11
    Words = 3
    MaxOps = 5
    LongBits = 5
    ByteBits = 3
    WordSizes = {3, 4}
    Bounds <- MCBounds
    Sizes = {1, 2}
INVARIANTS
    UnreadIsZero
    InRangeAndFair
    CanReturn
PROPERTIES
    HungForEver
    ReturnsOrExhausts
    BitComes
CHECK_DEADLOCK FALSE
