SPECIFICATION Spec
CONSTANTS
    Requests = {r1, r2, r3}
    Keys = {k1, k2}
    r1 = r1
    r2 = r2
    r3 = r3
    k1 = k1
    k2 = k2
    KeyOf <- Asked
    MaxParallel = 1
    MaxAttempts = 2
    None = None
INVARIANT HitsAreVerified
CHECK_DEADLOCK FALSE
