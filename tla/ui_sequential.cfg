SPECIFICATION Spec
CONSTANTS
    Callers = {r1}
    NoCaller = nobody
    MaxReplans = 1
    SoftCap = 2
    HardCap = 4
    MaxMessages = 3
    MaxStarts = 1
INVARIANTS
    HandoffArrives
    OfferPresentedOnce
    HopsBounded
PROPERTIES
    TurnsKept
CHECK_DEADLOCK FALSE
