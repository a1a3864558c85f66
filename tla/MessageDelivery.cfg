\* A text and an attachment of the same end, the text burning, with every order of
\* packets, duplicates, and one restart or logout.
CONSTANTS
    ann = ann
    ben = ben
    hi = hi
    pic = pic
    re = re
    Peers = {ann, ben}
    Texts = {hi}
    Attachments = {pic}
    Burns = {hi}
    Author <- MCAuthor
    CutLimit = 1
SPECIFICATION Spec
CHECK_DEADLOCK FALSE
INVARIANTS TypeOK StatusHonest  ViewAgrees
PROPERTIES SettledAdvances
