SPECIFICATION Spec
CONSTANTS
    None = None
    RowLimit = 50
    Guests <- TwoGuests
    AlwaysOn <- NoGuests
    DependsOn <- MediaNeedsNas
    Rank <- NasBeforeMedia
    OnAt <- Evening
    GuestActions = {"on", "off", "pause"}
    SameSecond = FALSE
    DryRun = FALSE
    Mishaps = {"outage", "crash", "failure", "missing", "hand"}
    MaxRows = 2
    MaxEvents = 3
    MaxTime = 3
INVARIANT TypeOK
PROPERTIES ChangesCarriedOut ManualStays DependenciesFirst
CHECK_DEADLOCK FALSE
