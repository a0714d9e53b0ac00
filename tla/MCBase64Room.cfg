SPECIFICATION SSpec
CONSTANTS
    Actions <- MCActions
    ChainIds <- MCChainIds
    Nonces <- MCNonces
    Programs <- MCPrograms
    HeadSize = 2
    Capacity = 6
    MaxSends = 3
    MaxOthers = 1
INVARIANT DoubleIsEnough
CHECK_DEADLOCK FALSE
