SPECIFICATION Spec
CONSTANTS
    FullDay = 4
    Midnights <- Days
    LastDay = 5
    Week = 2
    Guests = {1, 2, 3}
    Names = {1, 2, 3, 4}
    Configurations <- Few
    Followed <- Scheduled
INVARIANTS DependenciesComeFirst OrderComplete CycleExact BoundariesExact AsOnTheWall WindowsInsideHost
CHECK_DEADLOCK FALSE
