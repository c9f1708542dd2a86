CONSTANTS
    User = {u1}
    SuperAdmin = {}
    Core = {n1, n2}
    Start = {n1, n2}
    Admin = {}
    Channel = {c1, c2}
    Id = {i1, i2}
    Level = {}
    ChannelMax = 1
    AccessMax = 2
    CSExpire = 1
    NULL = NULL
    MaxTime = 2
    MaxEvents = 5
    Allowed = {}
    u1 = u1
    u2 = u2
    n1 = n1
    n2 = n2
SPECIFICATION Spec
SYMMETRY Symmetry
INVARIANTS CountsRight LimitKept
PROPERTIES InUseNeverExpires
CHECK_DEADLOCK FALSE
