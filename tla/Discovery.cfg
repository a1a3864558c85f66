SPECIFICATION FairSpec
CONSTANTS
    ann = ann
    ben = ben
    Users = {ann, ben}
    Peers = {ann, ben}
    Members = {ann}
    Seeded = FALSE
    Limit = 2
INVARIANTS TypeOK CountsWitnessed
PROPERTIES GroupBecomesKnown CountRecovers
CHECK_DEADLOCK FALSE
