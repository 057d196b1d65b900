SPECIFICATION Spec
CONSTANTS
    Goroutines = {g1}
    MaxTracks = 4
    PageSize = 2
    Sorts = {"", "alpha"}
    SortKey <- Key
    Filters = {"", "vid"}
    Passes <- Shown
    Users = {"admin", "user"}
    Admins = {"admin"}
    Requester <- Asked
    Ids = {"x", "a", "b"}
    TrackId <- Again
    MaxRequests = 3
INVARIANTS
    ChangesAreDetected
CHECK_DEADLOCK FALSE
