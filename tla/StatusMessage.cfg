SPECIFICATION FairStatusSpec
CONSTANTS
    MaxEdits = 3
    Results = 3
    AutoCleanup = TRUE
PROPERTIES
    ResultsStay
    AnimationEnds
    ResultsGetThrough
CHECK_DEADLOCK FALSE
