SPECIFICATION Spec
CONSTANTS
    Chats = {c1, c2}
    Track = {t1, t2, t3, t4}
    Nil = Nil
    Absent = Absent
    MaxCap = 5
    MaxBatch = 2
    MaxLoop = 1
INVARIANTS
    TypeOK
    WindowHoldsTheTracks
    NoTrackTwice
    OnlyTheHeadRepeats
PROPERTIES
    QueueSpec
    IndexedMethods
SYMMETRY Symmetric
