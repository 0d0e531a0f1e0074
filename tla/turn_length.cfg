SPECIFICATION FairSpec
CONSTANTS
    Required <- OneField
    Values = {good, bad}
    Registered = good
    NoValue = none
    OtherTool = other
    OtherOutputs <- Outputs
    MaxSteps = 3
    MaxRetry = 3
    MaxFailed = 1
    HistoryCap = 2
    NodeBudget = 40
    FailingNodes <- RaisingNodes
    MaxTurns = 1
INVARIANTS
    TurnLengthBounded
PROPERTIES
    TurnEndsByItself
CHECK_DEADLOCK FALSE
