SPECIFICATION FairSpec
CONSTANTS
    ann = ann
    ben = ben
    c1 = c1
    c2 = c2
    NoCall = NoCall
    Peers = {ann, ben}
    Calls = {c1}
    Caller <- OnePlaces
    MaxRetries = 3
    ProcLimit = 1
    FaultLimit = 1
    Hurried = FALSE
PROPERTIES CallerHearsEnd AcceptedCallResolves
CHECK_DEADLOCK FALSE
