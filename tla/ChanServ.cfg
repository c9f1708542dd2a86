CONSTANTS
    User = {u1, u2}
    SuperAdmin = {u2}
    Core = {n1, n2}
    Start = {n1, n2}
    Admin = {n1}
    Channel = {c1}
    Id = {i1}
    Level = {700}
    ChannelMax = 1
    AccessMax = 2
    CSExpire = 1
    NULL = NULL
    MaxTime = 1
    MaxEvents = 4
    Allowed = {"partial_save", "denied_forbid", "suspend_shell", "not_registered", "modify_absent"}
    u1 = u1
    u2 = u2
    n1 = n1
    n2 = n2
SPECIFICATION Spec
SYMMETRY Symmetry
INVARIANT RecordsSound
PROPERTIES FounderStays
CHECK_DEADLOCK FALSE
