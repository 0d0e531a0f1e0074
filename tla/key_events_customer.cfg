SPECIFICATION Spec
CONSTANTS
    u1 = u1
    u2 = u2
    s1 = s1
    Sessions = {s1}
    Users = {u1, u2}
    Customers = {u1, u2}
    Unknown = Unknown
    None = None
    DefaultUser = u1
    SeedUsers = {u1}
    SeedPoints <- Seeds
    CustomerSays <- CustomerMessages
    AgentSays <- AgentMessages
    Mentions <- Named
    OldEvents = {"event"}
    OldPoints = {"old"}
    OldGlobals <- OldCounts
    OldRows <- OldSessions
    PointWindow = 3
    OutcomeWindow = 2
    HistoryLimit = 3
    MaxTurns = 3
    MaxStarts = 2
INVARIANTS
    CustomerIsHeard
CHECK_DEADLOCK FALSE
