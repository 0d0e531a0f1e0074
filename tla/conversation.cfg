CONSTANTS
    Payloads <- MCPayloads
    Wordings <- MCWordings
    Tools <- MCTools
    MaxReflect = 2
SPECIFICATION Spec
INVARIANTS
    DiscountStory
    NoDuesBeforeVerification
    SpecialistOnlyVerified
    PlanConsistent
PROPERTIES
    NothingForgotten
    PlanForward
    TurnEnds
