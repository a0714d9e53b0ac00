SPECIFICATION CSpec
CONSTANTS
    Kinds <- MCKinds
    Start <- MCStart
    HeaderLen = 1
    BodyLen = 2
    MaxPosts = 2
    Names <- MCNames
    Ports <- MCPorts
    Bases <- MCBases
    Garbage <- MCGarbage
    MaxLen = 3
    PortChars = 2
    UIntSize = 1000
    MaxSets = 2
INVARIANTS
    CTypeOK
    
    GoesWhereConfigured
PROPERTIES
    FailureKeepsOutput
CHECK_DEADLOCK FALSE
