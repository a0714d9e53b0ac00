SPECIFICATION PlatformSpec
CONSTANTS
    plain = plain
    accepted = accepted
    page = page
    refused = refused
    lateRefusal = lateRefusal
    lateAcceptance = lateAcceptance
    Kinds <- MCKinds
    Start <- MCStart
    StatusLines <- MCStatusLines
    Status <- MCStatus
    HeaderLen = 2
    BodyLen = 2
    MaxPosts = 3
    Timeout = 2
INVARIANT
    AlwaysCleanup
CHECK_DEADLOCK FALSE
