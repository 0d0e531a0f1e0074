SPECIFICATION Spec
CONSTANTS
    Ids = {a, b, c}
    HotMax = 2
    PromoteMax = 2
    Limit = 2
    MaxVersion = 2
    MaxCold = 3
    Nothing = nothing
INVARIANTS
    CachedIsStored
PROPERTIES
    DurableSpec
CHECK_DEADLOCK FALSE
