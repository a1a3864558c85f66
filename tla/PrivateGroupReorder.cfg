\* An unordered network that may redeliver one message; one invitation, one member
\* removed, one refresh and one post.
SPECIFICATION Spec
CONSTANTS
    o = o
    a = a
    b = b
    Peers = {o, a}
    Owner = o
    NoRow = NoRow
    NoGroup = NoGroup
    InOrder = FALSE
    MaxInvites = 1
    MaxKicks = 1
    MaxSyncs = 1
    MaxPosts = 1
    MaxDups = 1
CHECK_DEADLOCK FALSE
INVARIANTS
    TypeOK
    RolesNeverEscalate
    MembershipNeedsConsent
    OwnerCountExact
PROPERTIES
    ImplementsRoster
