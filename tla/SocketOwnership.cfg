CONSTANTS
    Threads = {t1, t2}
    Fds = {0, 1, 2}
    NoFd = NoFd
    Sockets = {k1, k2, k3}
    NoSocket = NoSocket
    Opts <- OwnershipOpts
    Kinds = {"data"}
    Calls = {"recv"}
    Slots = 1
    MaxBatch = 1
    Slices = {1}
    MaxSent = 0
    RcvBuf = 1
    MaxFrames = 1
    t1 = t1
    t2 = t2
    k1 = k1
    k2 = k2
    k3 = k3
SPECIFICATION Spec
SYMMETRY Symmetry
INVARIANTS
    TypeOK
    HandleKeepsItsSocket
    EveryDescriptorIsOwnedOnce
CHECK_DEADLOCK FALSE
