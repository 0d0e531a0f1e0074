SPECIFICATION FairSpec
CONSTANTS
    Callers = {r1, r2}
    NoCaller = nobody
    MaxReplans = 0
    SoftCap = 1
    HardCap = 2
    MaxMessages = 2
    MaxStarts = 1
INVARIANTS
    OneTurnAtATime
PROPERTIES
    RequestEnds
CHECK_DEADLOCK FALSE
