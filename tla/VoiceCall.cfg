SPECIFICATION Spec
CONSTANTS
    ann = ann
    ben = ben
    c1 = c1
    c2 = c2
    NoCall = NoCall
    Peers = {ann, ben}
    Calls = {c1, c2}
    Caller <- SamePlaces
    MaxRetries = 2
    ProcLimit = 2
    FaultLimit = 1
    Hurried = FALSE
INVARIANTS TypeOK IdleIsClean SessionIsOfCall
SYMMETRY CallSymmetry
CHECK_DEADLOCK FALSE
