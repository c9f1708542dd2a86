CONSTANTS
    User = {u1, u2}
    Nick = {n1, n2}
    NoNick = NoNick
    Core = {c1, c2}
    Alias = {a1, a2}
    Timer = {x1, x2, x3}
    NULL = NULL
    QuickDelay = 1
    SlowDelay = 2
    ReleaseDelay = 1
    MaxTime = 2
    LastEvent = 2
    Verdicts = {"recognized", "unprotected", "immed", "quick", "slow"}
    Allowed = {}
SPECIFICATION Spec
SYMMETRY Symmetry
INVARIANTS
    NoOrphanTimeout
    LinksAgree
    IdentifiedIsEarned
PROPERTIES
    ForbiddenStays
CHECK_DEADLOCK FALSE
