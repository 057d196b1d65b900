SPECIFICATION Spec
CONSTANTS
    Goroutines = {g1, g2}
    MaxTracks = 4
    PageSize = 2
    Sorts = {"", "alpha"}
    SortKey <- Key
    Filters = {"", "vid"}
    Passes <- Shown
    Users = {"admin", "user"}
    Admins = {"admin"}
    Requester <- Asked
    Ids = {"x", "a", "b"}
    TrackId <- Known
    MaxRequests = 3
SYMMETRY Symmetry
INVARIANTS
    TypeOK
    ServedPageIsTrue
PROPERTIES
    ButtonsActOnTheirTrack
CHECK_DEADLOCK FALSE
