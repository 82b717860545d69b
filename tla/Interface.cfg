SPECIFICATION Spec
CONSTANTS
    Threads = {t1, t2}
    Indices = {1, 2, 3}
    Names = {"can0", "can1"}
    Ops = {"set_up", "set_down", "cycle", "state", "is_up", "list", "summary"}
    Initial <- TwoDevices
    Nothing = Nothing
    MaxCalls = 2
    MaxEvents = 2
    MaxFaults = 1
SYMMETRY Symmetry
INVARIANTS
    TypeOK
    CycleRestarts
    CyclesEndUp
    AnswersWereTrue
    ListIsComplete
CHECK_DEADLOCK FALSE
