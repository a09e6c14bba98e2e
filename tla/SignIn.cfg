SPECIFICATION Spec
CONSTANTS
    None = None
    Refill = 2
    Burst = 2
    LockoutBase = 1
    LockoutMax = 4
    MaxShift = 3
    Addresses = {"home"}
    Attempts = {a1, a2, a3}
    Kinds = {"begin", "login", "stepup_begin", "stepup"}
    Window = 4
    Patience = 1
    Slip = 1
    Second = 2
    Threshold = 2
    MaxAttempts = 3
    MaxTime = 5
    MaxFaults = 1
SYMMETRY Alike
INVARIANTS WaitsGrow RateKept AlertOnce BurstAlerted
CHECK_DEADLOCK FALSE
