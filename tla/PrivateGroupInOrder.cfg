\* Channels that keep their order and lose nothing: two invitations (two members, or one
\* member removed and invited again), one member removed, one refresh.
SPECIFICATION Spec
CONSTANTS
    o = o
    a = a
    b = b
    Peers = {o, a, b}
    Owner = o
    NoRow = NoRow
    NoGroup = NoGroup
    InOrder = TRUE
    MaxInvites = 2
    MaxKicks = 1
    MaxSyncs = 1
    MaxPosts = 0
    MaxDups = 0
CHECK_DEADLOCK FALSE
INVARIANTS
    NobodyMissing
    KickReachesEveryone
    VersionSettles
