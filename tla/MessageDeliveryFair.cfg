\* What the fairness of the relay, the awaited calls and the burn scheduler
\* guarantees a burning attachment, with two restarts or logouts.
CONSTANTS
    ann = ann
    ben = ben
    hi = hi
    pic = pic
    re = re
    Peers = {ann, ben}
    Texts = {}
    Attachments = {pic}
    Burns = {pic}
    Author <- MCAuthor
    CutLimit = 2
SPECIFICATION FairSpec
CHECK_DEADLOCK FALSE
PROPERTIES ReadIsReported BurnsEverywhere
