---------------------------- MODULE WeatherClaims ----------------------------
(* What the comments of internal/weather say of stale data. *)
EXTENDS MCWeather

\* "If data is older than stale_after while the level is Warning or higher,
\* treat as Danger": when the warnings are that old and the last of them known
\* has not expired yet, the evaluation says Danger.
StaleWarningIsDanger ==
    pc = "report" /\ "warnings" \in result.stale /\ Active(cache.warnings, result.now)
        => result.level = Danger
==============================================================================
