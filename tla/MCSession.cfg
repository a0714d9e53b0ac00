SPECIFICATION SSpec
CONSTANTS
    Actions <- MCActions
    ChainIds <- MCChainIds
    Nonces <- MCNonces
    Programs <- MCPrograms
    HeadSize = 2
    Capacity = 6
    MaxSends = 3
    MaxOthers = 1
INVARIANTS
    CutIsNeverAccepted
    AcceptedWasAsked
    SuccessOnly
PROPERTIES
    
    PaidOnlyIfRead
    CommandEnds
CHECK_DEADLOCK FALSE
