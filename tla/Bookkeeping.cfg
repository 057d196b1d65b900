SPECIFICATION Spec
CONSTANTS
    g1 = g1
    g2 = g2
    Goroutines = {g1, g2}
    Editors = {g1, g2}
    Recommenders = {g1, g2}
    Developers = {g1, g2}
    Users = {"u1", "u2"}
    Bot = "bot"
    Assistant = "assistant"
    Asked <- MCAsked
    MaxEvents = 3
    MaxMishaps = 1
    Songs = {"s1", "s2"}
    PlaylistLimit = 2
    MaxLists = 4
    MaxEdits = 4
    MaxDBErrors = 1
    TrackKeys = {"k1", "k2", "k3"}
    MaxHistory = 2
    MaxRecommended = 3
    MaxHistoryFaults = 1
    Targets = 3
    MaxOrders = 4
SYMMETRY MCSymmetry
INVARIANTS
    EntriesTellTheTruth
    VerdictsAreDue
    ListsAreLimited
    CancelStops
PROPERTIES
    HistoryIsKept
CHECK_DEADLOCK FALSE
