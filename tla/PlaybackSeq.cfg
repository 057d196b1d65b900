SPECIFICATION HSpec
CONSTANTS
    Workers = {w1}
    NTracks = 3
    Ids = {a, b}
    MaxLoop = 2
    QueueLimit = 1
    BatchSize = 2
    MaxTries = 2
    MaxCommands = 3
    Commands = {"play", "playlist", "skip", "stop", "loop", "remove", "jump", "videochat"}
    Faults = {"download", "empty", "play"}
    None = None
    NoPath = NoPath
INVARIANTS
    QueuedMeansPlaying
    LoopCountHonoured
PROPERTIES
    HandlersReturn
    PlaysOut
CHECK_DEADLOCK FALSE
