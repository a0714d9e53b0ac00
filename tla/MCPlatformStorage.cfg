SPECIFICATION PlatformSpec
CONSTANTS
    k1 = k1
    k2 = k2
    Keys <- MCKeys
    NoKey = NoKey
    KeyLen = 2
    FlashSize = 6
    DefaultSize = 5
    SketchSizes <- MCSketchSizes
    Addresses <- MCAddresses
    MaxSaves = 3
INVARIANTS
    OsNoTornKey
    BoardReadsBack
CHECK_DEADLOCK FALSE
