SPECIFICATION Spec
CONSTANTS
    Workers = {w1, w2}
    NTracks = 3
    Ids = {a, b}
    MaxLoop = 1
    QueueLimit = 1
    BatchSize = 2
    MaxTries = 2
    MaxCommands = 3
    Commands = {"play", "playlist", "skip", "stop", "loop", "remove", "jump", "videochat"}
    Faults = {"download", "empty", "play", "send"}
    None = None
    NoPath = NoPath
INVARIANTS
    TypeOK
    OnlyTheHeadRepeats
    FilesBelongToTracks
PROPERTIES
    NoneOvertakesOrReturns
SYMMETRY Symmetric
CHECK_DEADLOCK FALSE
