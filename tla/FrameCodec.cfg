SPECIFICATION Spec
CONSTANTS
    CAN_SFF_MASK <- SffMask
    U16_MASK <- U16Mask
    CAN_EFF_MASK <- EffMask
    EFF = 31
    RTR = 30
    ERR = 29
    BRS = 0
    ESI = 1
    FDF = 2
    CAN_MAX_DLEN = 2
    CANFD_MAX_DLEN = 4
    FdLengths <- FdCodes
    Bytes = {0, 7}
    Ids <- AllIds
    Payloads <- SomePayloads
    Filters <- SomeFilters
    Lens = {0, 1, 3, 5}
    None = None
INVARIANTS
    RequestArrives
    DecodedFits
    FilterPassesWhatItNames
    ReplayIsTheFrame
