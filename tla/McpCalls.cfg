CONSTANTS
    c1 = c1
    c2 = c2
    i1 = i1
    i2 = i2
    NoCall = NoCall
    Calls = {c1, c2}
    Ifaces = {i1, i2}
    SameWire = TRUE
    Configs <- AllConfigs
    Requests <- AllRequests
    HardCap = 2
    RcvBuf = 2
    MaxFrames = 3
SPECIFICATION FairSpec
INVARIANTS
    TypeOK
    OnlyAllowedInterfacesAreUsed
    NothingAfterTheSendIsMissed
    OwnFrameIsNoResponse
    CaptureEndsAtItsLimits
PROPERTY CallIsAnswered
CHECK_DEADLOCK FALSE
