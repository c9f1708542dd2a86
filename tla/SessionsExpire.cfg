CONSTANTS
    User = {u1}
    Host = {h1, h2}
    Mask = {all, one}
    h1 = h1
    h2 = h2
    all = all
    one = one
    Matches <- MCMatches
    NULL = NULL
    DefSessionLimit = 2
    DefConSessionLimit = 1
    MaxSessionKill = 0
    Limits = {0}
    Expiries = {0, 1}
    MaxExceptions = 2
    MaxHits = 0
    MaxTime = 1
    Allowed = {"expire"}
SPECIFICATION Spec

PROPERTY DelRemovesListed
CHECK_DEADLOCK FALSE
