CONSTANTS
    s1 = s1
    a1 = a1
    Unbounded = Unbounded
    NoSub = NoSub
    NoAddr = NoAddr
    Subs = {s1}
    Addrs = {a1}
    Capacities = {0, Unbounded}
    BatchSize = 2
    MaxBatch = 4
    RcvBuf = 2
    MaxFrames = 2
SPECIFICATION FairSpec
PROPERTY RecvReturnsAfterShutdown
CHECK_DEADLOCK FALSE
