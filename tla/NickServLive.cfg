CONSTANTS
    User = {u1}
    Nick = {n1}
    NoNick = NoNick
    Core = {c1, c2}
    Alias = {a1, a2}
    Timer = {x1, x2, x3}
    NULL = NULL
    QuickDelay = 1
    SlowDelay = 2
    ReleaseDelay = 1
    MaxTime = 3
    LastEvent = 1
    Verdicts = {"immed", "quick"}
    Allowed = {"case_change", "crossing", "revalidate_renaming", "confirm_offline"}
SPECIFICATION FairSpec
INVARIANTS
    PrivateListSound
    EnforcerHasTimeout
PROPERTIES
    EnforcerLeaves
    WarnedUserIsMoved
CHECK_DEADLOCK FALSE
