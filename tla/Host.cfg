SPECIFICATION FairSpec
CONSTANTS
    HostSchedule = {FALSE}
    None = None
    Guests <- NoGuests
    AlwaysOn <- NoGuests
    DependsOn <- NoDependencies
    Rank <- NoRanks
    Levels = {0, 2, 3}
    OverrideActions = {"on"}
    WakeTimeout = 1
    WakeRetries = 2
    Countdown = 1
    Grace = 1
    Enforce = TRUE
    DryRun = FALSE
    Patience = 1
    Rounding = 0
    MaxFaults = 1
INVARIANTS CountdownRespected ToldOnce
PROPERTIES GraceRespected WakesByEpisode StormPowersOff WakeResolves
CHECK_DEADLOCK FALSE
