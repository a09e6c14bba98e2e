SPECIFICATION Spec
CONSTANTS
    None = None
    RowLimit = 50
    FullDay = 6
    Midnights <- Days
    LastDay = 3
    Week = 1
    Guests = {"edge", "media"}
    Position <- Places
    AlwaysOn = {"edge"}
    HostSchedule <- NightTime
    GuestSchedule <- Evening
    Handlers = {h1, h2}
    Ends = {14}
    Horizon = 8
    MaxIgnore = 2
    FirstTime = 12
    MaxTime = 14
    MaxRows = 2
    MaxFaults = 1
SYMMETRY Alike
INVARIANTS TimelineAgrees UpcomingComplete
PROPERTIES OnlyVacationsEnded UntilTheSchedule PauseTaken IgnoreHarmless
CHECK_DEADLOCK FALSE
