SPECIFICATION AbiSpec
CONSTANTS
    Abis <- MCAbis
INVARIANTS
    FunctionsInOrder
    SelectorIsCanonical
CHECK_DEADLOCK FALSE
