SPECIFICATION Spec
CONSTANTS
    Workers = {w1, w2}
    NTracks = 3
    Ids = {a}
    MaxLoop = 1
    QueueLimit = 10
    BatchSize = 3
    MaxTries = 1
    MaxCommands = 2
    Commands = {"playlist", "skip"}
    Faults = {}
    None = None
    NoPath = NoPath
INVARIANT HeadIsPlaying
CHECK_DEADLOCK FALSE
