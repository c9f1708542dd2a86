CONSTANTS
    User = {u1}
    SuperAdmin = {}
    Core = {n1}
    Start = {n1}
    Admin = {}
    Channel = {c1}
    Id = {i1}
    Level = {}
    ChannelMax = 1
    AccessMax = 2
    CSExpire = 1
    NULL = NULL
    MaxTime = 2
    MaxEvents = 2
    Allowed = {}
    u1 = u1
    u2 = u2
    n1 = n1
    n2 = n2
SPECIFICATION FairSpec
PROPERTIES ExpiresUnused
CHECK_DEADLOCK FALSE
