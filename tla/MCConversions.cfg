SPECIFICATION Spec
CONSTANTS
    KeyLen = 2
    KeyLimit = 5
    MessageLen = 11
    AddressLen = 5
    WordLen = 8
    UintLen = 2
    PointerSize = 4
    MaxTypos = 2
    Keys <- MCKeys
    Hashes <- MCHashes
    Garbage <- MCGarbage
    KeyTexts <- MCKeyTexts
    MessageTexts <- MCMessageTexts
    DataTexts <- MCDataTexts
    Amounts <- MCAmounts
    Wrong <- MCWrong
INVARIANTS
    TypeOK
    TypedIsRead
    AddressNamesBytes
    TypoIsCaught
    TransferIsAsTyped
    SignedIsTyped
