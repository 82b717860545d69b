CONSTANTS
    s1 = s1
    s2 = s2
    a1 = a1
    a2 = a2
    Unbounded = Unbounded
    NoSub = NoSub
    NoAddr = NoAddr
    Subs = {s1, s2}
    Addrs = {a1, a2}
    Capacities = {0, Unbounded}
    BatchSize = 0
    MaxBatch = 4
    RcvBuf = 1
    MaxFrames = 1
SPECIFICATION FairSpec
PROPERTIES
    EveryMemberCatchesUp
    FrameReachesSubscriber
    ShutdownCompletes
CHECK_DEADLOCK FALSE
