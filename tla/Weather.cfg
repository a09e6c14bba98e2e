SPECIFICATION Spec
CONSTANTS
    None = None
    Sources = {"lightning", "warnings", "forecast", "local"}
    Feeds <- FewFeeds
    Forecasts <- FewForecasts
    Skies <- FewSkies
    DangerRadius = 1
    WarningRadius = 2
    Lookahead = 1
    WarningsInterval = 2
    ForecastInterval = 3
    StaleAfter = 2
    Window = 2
    Retain = 1
    Patience = 1
    MaxEvents = 3
    MaxTime = 5
INVARIANTS SilenceNoticed WarningFollowed LevelTold
PROPERTIES PairConfirmed StaleToldOnce
CHECK_DEADLOCK FALSE
