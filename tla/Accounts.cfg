SPECIFICATION Spec
CONSTANTS
    None = None
    Passkeys = {"phone", "key"}
    Requests = {r1, r2}
    IdleTimeout = 1
    AbsoluteTimeout = 2
    StepUpDuration = 1
    ChallengeTTL = 1
    EnrolTTL = 1
    Patience = 1
    Enrolled = {"phone", "key"}
    MaxRows = 2
    MaxRequests = 4
    MaxTime = 3
    MaxFaults = 1
SYMMETRY Alike
INVARIANTS EnrolledOnce OwnerCanSignIn
PROPERTIES GoneForGood FreshStepUp EnrolTimely
CHECK_DEADLOCK FALSE
