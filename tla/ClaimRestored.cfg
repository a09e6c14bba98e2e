SPECIFICATION Spec
CONSTANTS
    None = None
    RowLimit = 50
    Guests <- OneGuest
    AlwaysOn <- NoGuests
    DependsOn <- NoDependencies
    Rank <- NasBeforeMedia
    OnAt <- Evening
    GuestActions = {}
    SameSecond = FALSE
    DryRun = FALSE
    Mishaps = {"outage"}
    MaxEvents = 1
    MaxRows = 0
    MaxTime = 6
PROPERTY ScheduleRestored
CHECK_DEADLOCK FALSE
