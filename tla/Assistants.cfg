SPECIFICATION Spec
CONSTANTS
    Goroutines = {g1, g2}
    NumAssistants = 2
    MaxRequests = 2
    MaxFaults = 1
    MaxCalls = 2
SYMMETRY Symmetry
INVARIANTS
    TypeOK
    StopSilences
    KnownCallIsCurrent
PROPERTIES
    RotationAdvances
CHECK_DEADLOCK FALSE
