CONSTANTS
    Timer = {t1, t2, t3}
    NULL = NULL
    Delay = {0, 1}
    MaxTime = 1
    MaxStamp = 3
SPECIFICATION FairSpec
INVARIANTS
    ListWellFormed
    DueTimersRun
PROPERTIES
    AbsSpec
    DueIsServed
CHECK_DEADLOCK FALSE
