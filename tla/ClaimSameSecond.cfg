SPECIFICATION Spec
CONSTANTS
    None = None
    RowLimit = 50
    Guests <- OneGuest
    AlwaysOn <- NoGuests
    DependsOn <- NoDependencies
    Rank <- NasBeforeMedia
    OnAt <- Evening
    GuestActions = {"on", "off"}
    SameSecond = TRUE
    DryRun = FALSE
    Mishaps = {}
    MaxEvents = 1
    MaxRows = 1
    MaxTime = 6
PROPERTY OverrideActedOn
CHECK_DEADLOCK FALSE
