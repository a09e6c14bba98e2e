SPECIFICATION Spec
CONSTANTS
    HostSchedule = {TRUE, FALSE}
    None = None
    Guests <- ThreeGuests
    AlwaysOn <- EdgeAlwaysOn
    DependsOn <- MediaNeedsNas
    Rank <- NasBeforeMedia
    Levels = {0}
    OverrideActions = {"off", "pause"}
    WakeTimeout = 3
    WakeRetries = 2
    Countdown = 0
    Grace = 0
    Enforce = TRUE
    DryRun = FALSE
    Patience = 1
    Rounding = 1
    MaxFaults = 0
PROPERTIES ResendSpacing LastPacketWaited DependentsFirst GuestsStoppedFirst
CHECK_DEADLOCK FALSE
