CONSTANTS
    SFMaxLen = 2
    FFFirst = 1
    CFPayload = 2
    MaxFFLength = 8
    SeqModulus = 2
    U8 = 4
    BlockSize = 0
    MaxWaits = 1
    Padding = Padding
    FirstCall = 0
    Envs <- OneCallEach
SPECIFICATION SharedSpec
INVARIANTS
    EachOkIsOneWholeResponse
    CallsInTurnGetTheirOwn
CHECK_DEADLOCK FALSE
