SPECIFICATION Spec
CONSTANTS
    Required <- BothFields
    Values = {good, bad}
    Registered = good
    NoValue = none
    OtherTool = other
    OtherOutputs <- Outputs
    MaxSteps = 3
    MaxRetry = 2
    MaxFailed = 1
    HistoryCap = 3
    NodeBudget = 17
    FailingNodes <- RaisingNodes
    MaxTurns = 2
INVARIANTS
    VerifiedBacked
    SuccessNotLost
    NoRepeatedCheck
    EvidenceChecked
CHECK_DEADLOCK FALSE
