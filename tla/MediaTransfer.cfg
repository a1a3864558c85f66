SPECIFICATION FairSpec
CONSTANTS
    msg = msg
    g1 = g1
    g2 = g2
    Msgs = {msg}
    Hosts = {g1, g2}
    Private = {g1}
    Lists <- MCLists
    Tries = 3
    Slots = {1, 2}
    MaxPipe = 2
    Limit = 2
INVARIANTS TypeOK NoLostDownload RowIsHonest ScreenIsRow
PROPERTIES DownloadEnds
CHECK_DEADLOCK FALSE
