SPECIFICATION Spec
CONSTANTS
    None = None
    Passkeys = {"phone", "key"}
    Requests = {r1, r2}
    IdleTimeout = 2
    AbsoluteTimeout = 3
    StepUpDuration = 2
    ChallengeTTL = 1
    EnrolTTL = 1
    Patience = 1
    Enrolled = {"phone", "key"}
    MaxRows = 2
    MaxRequests = 4
    MaxTime = 4
    MaxFaults = 1
SYMMETRY Alike
INVARIANT EnrolmentRetried
CHECK_DEADLOCK FALSE
