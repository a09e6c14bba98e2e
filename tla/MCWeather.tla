------------------------------ MODULE MCWeather ------------------------------
(* Small instances of Weather. *)
EXTENDS Weather

Warn(color, until) == [thunder |-> TRUE, color |-> color, expires |-> until]

\* A warning that expires soon beside one of no concern and one that is not
\* usable, and a long one.
FewFeeds == {{Warn("orange", 3), Warn("yellow", 5), Warn("orange", None)}, {Warn("orange", 5)}}
\* Clear, thunder now, thunder beyond the look-ahead.
FewForecasts == {{}, {0}, {2}}
\* No strike, one within the danger radius, one within the warning radius.
FewSkies == {{}, {1, 3}, {2}}
==============================================================================
