SPECIFICATION FairSpec
CONSTANTS
    MaxMail = 2
    FetchLimit = 1
    ListLimit = 1
    StepLimit = 2
    NodeLimit = 11
    MaxTurns = 2
    MaxFaults = 1
    Texts <- UserTexts
    Started <- Starts
    Planned <- Plans
INVARIANTS
    RowsReferToStored
    ClassifierCatchesUp
    SendsAreLogged
    AnswersRecorded
PROPERTIES
    RefusalStopsMail
    TurnEnds
CHECK_DEADLOCK FALSE
