CONSTANTS
    Threads = {t1}
    Fds = {0}
    NoFd = NoFd
    Sockets = {k1}
    NoSocket = NoSocket
    Opts <- DeliveryOpts
    Kinds = {"data", "fd", "other", "rtr", "error"}
    Calls = {"recv", "recv_decoded", "recv_batch", "send"}
    Slots = 3
    MaxBatch = 2
    Slices = {1, 3}
    MaxSent = 3
    RcvBuf = 3
    MaxFrames = 3
    t1 = t1
    k1 = k1
SPECIFICATION FairSpec
INVARIANTS
    OnlyWantedFramesAreQueued
    ReceivesReturnWhatTheyTook
    SendsLoseAndRepeatNothing
PROPERTY ReceiveWithTimeoutReturns
CHECK_DEADLOCK FALSE
