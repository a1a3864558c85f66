SPECIFICATION FairSpec
CONSTANTS
    w1 = w1
    w2 = w2
    Wallets = {w1, w2}
    Calls = {1, 2, 3, 4}
    MaxPipe = 2
    Limit = 2
INVARIANTS TypeOK StatusIsOfClient
PROPERTIES SignInEnds
CHECK_DEADLOCK FALSE
