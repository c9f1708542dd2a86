CONSTANTS
    User = {u1, u2}
    Host = {h1, h2}
    Mask = {all, one}
    h1 = h1
    h2 = h2
    all = all
    one = one
    Matches <- MCMatches
    NULL = NULL
    DefSessionLimit = 2
    DefConSessionLimit = 1
    MaxSessionKill = 1
    Limits = {0, 1}
    Expiries = {1}
    MaxExceptions = 2
    MaxHits = 1
    MaxTime = 1
    Allowed = {"expire", "reload"}
SPECIFICATION Spec
SYMMETRY Symmetry
INVARIANTS TypeOK SessionsCountUsers
PROPERTIES NoHostOverLimit RefusedOnlyAtLimit CommandsKeepNumbers DelRemovesNumbered
CHECK_DEADLOCK FALSE
