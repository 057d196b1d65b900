SPECIFICATION Spec
CONSTANTS
    Keys = {k1, k2, k3, k4}
    Values = {v1, v2}
    MaxEntries = 2
    TTLs = {0, 1}
    MaxTime = 4
    None = None
INVARIANT MapAndListAgree
PROPERTIES
    EvictsTheLeastRecent
    SweepSparesTheLiving
    LossySpec
SYMMETRY Symmetric
