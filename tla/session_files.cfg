SPECIFICATION Spec
CONSTANTS
    s1 = s1
    s2 = s2
    Sessions <- MCSessions
    Unreadable = Unreadable
    MaxEntries = 1
SYMMETRY Symmetry
INVARIANTS
    Kept
CHECK_DEADLOCK FALSE
