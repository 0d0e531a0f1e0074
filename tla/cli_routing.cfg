SPECIFICATION CliFairSpec
CONSTANTS
    Callers = {cli}
    NoCaller = nobody
    MaxReplans = 1
    SoftCap = 3
    HardCap = 6
    MaxMessages = 3
INVARIANTS
    TurnsPerMessageBounded
    HandoffArrives
PROPERTIES
    MessageEnds
CHECK_DEADLOCK FALSE
