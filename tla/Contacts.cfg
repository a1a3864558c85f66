SPECIFICATION FairSpec
CONSTANTS
    ann = ann
    ben = ben
    Users = {ann, ben}
    Settings = {0, 5}
    Writers = {ann}
    MaxTime = 2
    Limit = 2
INVARIANTS TypeOK 
PROPERTIES ProfileArrives
CHECK_DEADLOCK FALSE
