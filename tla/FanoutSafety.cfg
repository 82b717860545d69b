CONSTANTS
    s1 = s1
    s2 = s2
    a1 = a1
    a2 = a2
    Unbounded = Unbounded
    NoSub = NoSub
    NoAddr = NoAddr
    Subs = {s1, s2}
    Addrs = {a1, a2}
    Capacities = {0, 1, Unbounded}
    BatchSize = 2
    MaxBatch = 4
    RcvBuf = 2
    MaxFrames = 2
SPECIFICATION Spec
SYMMETRY Symmetry
INVARIANTS
    TypeOK
    LiveStaysListed
    SeesEveryFrameSinceCreation
    CountersAccountForEveryFrame
    DroppedIsCulledByNextBatch
PROPERTY ImplementsBroadcast
CHECK_DEADLOCK FALSE
