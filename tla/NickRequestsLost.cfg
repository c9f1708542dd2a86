CONSTANTS
    n1 = n1
    n2 = n2
    n3 = n3
    Nick = {n1, n2, n3}
    Buckets = 2
    HASH <- MCShared
    NSRExpire = 2
    MaxTime = 3
SPECIFICATION Spec
PROPERTY AbsSpec
CHECK_DEADLOCK FALSE
