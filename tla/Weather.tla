------------------------------- MODULE Weather -------------------------------
(***************************************************************************)
(* The storm threat that a tick computes and what people hear of it: the   *)
(* Monitor of internal/weather/weather.go with its caches and staleness,   *)
(* the goroutine of internal/sensor/as3935/watcher.go that records         *)
(* detections while the Monitor waits for its sources, and                 *)
(* reconcileWeather of internal/engine/weather.go, which announces a level *)
(* before it remembers it.  What the engine makes of the level is in       *)
(* module HostPower.                                                       *)
(***************************************************************************)
EXTENDS Integers, Sequences, FiniteSetsExt

CONSTANTS
    None,
    Sources,           \* the sources that are configured
    Feeds,             \* what the warnings feed may hold: sets of entries
    Forecasts,         \* forecasts: the hours ahead that have a thunder code
    Skies,             \* distances of the strikes reported by the network
    DangerRadius, WarningRadius,
    Lookahead,         \* LookaheadHours
    WarningsInterval, ForecastInterval,
    StaleAfter,        \* 0 switches staleness off
    Window,            \* LocalCorroborationWindow
    Retain,            \* how long the watcher keeps detections, whatever the Window
    Patience,          \* how long the timeouts let an evaluation wait
    MaxEvents,         \* changes, storms, outages, crashes and failing calls
    MaxTime            \* the last instant

AllSources == {"lightning", "warnings", "forecast", "local"}
Times == 1..MaxTime

\* The zero time of an entry without a usable date is before every instant.
Never == 0
AlertWarnings == [thunder : BOOLEAN, color : {"yellow", "orange"}, expires : {Never} \cup Times]
\* An entry of the feed: its date may be missing or unreadable.
Entries == [thunder : BOOLEAN, color : {"yellow", "orange"}, expires : {None} \cup Times]

ASSUME WeatherAssumption ==
    /\ Sources \subseteq AllSources
    /\ \A feed \in Feeds : feed \subseteq Entries
    /\ \A forecast \in Forecasts : forecast \subseteq Nat
    /\ \A sky \in Skies : sky \subseteq Nat /\ IsFiniteSet(sky)
    /\ {DangerRadius, WarningRadius, Lookahead, StaleAfter} \subseteq Nat
    /\ {WarningsInterval, ForecastInterval, Window} \subseteq Nat \ {0}
    /\ {Retain, Patience} \subseteq Nat
    /\ MaxEvents \in Nat /\ MaxTime \in Nat \ {0}
    /\ None \notin Nat /\ None \notin BOOLEAN

Normal == 0
Watch == 1
Warning == 2
Danger == 3
Levels == Normal..Danger

VARIABLES
    clock,
    feed,       \* what the warnings feed holds
    down,       \* the sources that do not answer
    detections, \* Watcher.detections
    lastOK,     \* Monitor.lastOK
    cache,      \* the Monitor's last good warnings and forecast
    pc,         \* next step of the evaluation in progress
    result,     \* its local variables and its Result
    seen,       \* Engine.lastWeather
    stored,     \* weather_level and weather_stale_notified of the state table
    \* Observers.
    events,     \* what has happened so far
    changed,    \* when the feed last changed
    heard,      \* the last evaluation that really reached each source
    strokes,    \* every detection since the start of the process
    told        \* what people know of the level and of stale data

world == <<clock, feed, down, changed>>
watch == <<detections, strokes>>
vars == <<world, watch, lastOK, cache, pc, result, seen, stored, events, heard, told>>

Caches ==
    [warnings : SUBSET AlertWarnings, warningsAt : {Never} \cup Times,
     expected : BOOLEAN, forecastAt : {Never} \cup Times]
EmptyCache == [warnings |-> {}, warningsAt |-> Never, expected |-> FALSE, forecastAt |-> Never]

\* The local variables of Evaluate and its Result.
Results ==
    [now : Times, strike : Nat \cup {None}, warned : BOOLEAN, thunder : BOOLEAN,
     confirmed : BOOLEAN, level : Levels, stale : SUBSET Sources]

ASSUME ResultsAssumption == None \notin Results

Fresh(now) ==
    [now |-> now, strike |-> None, warned |-> FALSE, thunder |-> FALSE,
     confirmed |-> FALSE, level |-> Normal, stale |-> {}]

\* The types of every variable; instants lie between the first and the last.
TypeOK ==
    /\ clock \in Times /\ feed \in Feeds /\ down \subseteq Sources
    /\ detections \in Seq(Times) /\ strokes \in Seq(Times)
    /\ lastOK \in [Sources -> Times] /\ cache \in Caches
    /\ pc \in {"idle", "lightning", "warnings", "forecast", "local",
               "report", "remember", "stale", "rememberStale"}
    /\ result \in Results /\ seen \in Results \cup {None}
    /\ stored \in [level : Levels, stale : BOOLEAN]
    /\ events \in 0..MaxEvents /\ changed \in {Never} \cup Times
    /\ heard \in [Sources -> Times]
    /\ told \in [level : Levels \cup {None}, stale : BOOLEAN \cup {None}]

-----------------------------------------------------------------------------
(* What happens is counted: the bound MaxEvents. *)

May == events < MaxEvents
Happens == May /\ events' = events + 1
Quiet == UNCHANGED events

Configured(source) == source \in Sources
Answers(source) == Configured(source) /\ source \notin down

-----------------------------------------------------------------------------
(* The parts of Evaluate *)

IsThunderstorm(w) == w.thunder
SeriousColor(w) == w.color = "orange"

\* MeteoAlarm's answer: the entries of the feed, those without a date at Never.
ActiveWarnings == {[w EXCEPT !.expires = IF @ = None THEN Never ELSE @] : w \in feed}

Active(warnings, now) ==
    \E w \in warnings : IsThunderstorm(w) /\ SeriousColor(w) /\ w.expires >= now

\* Open-Meteo's answer, given the hours ahead that have a thunder code.
ThunderstormExpected(hours) == \E hour \in hours : hour < Lookahead

Nearest(sky) == IF sky = {} THEN None ELSE Min(sky)
Within(strike, radius) == strike # None /\ strike <= radius

Mutant_WarningsCached == cache.warningsAt # Never /\ result.now - cache.warningsAt <= WarningsInterval
WarningsCached == cache.warningsAt # Never /\ result.now - cache.warningsAt < WarningsInterval
ForecastCached == cache.forecastAt # Never /\ result.now - cache.forecastAt < ForecastInterval

\* Watcher.Detections: which of the detections kept are asked for.
DetectionsSince(since) == {i \in DOMAIN detections : detections[i] >= since}

\* confirmLocal
Confirms(dets, strike) ==
    /\ dets # {}
    /\ \/ Within(strike, DangerRadius)
       \/ \E i, j \in dets : i < j /\ detections[j] - detections[i] <= Window

\* The order of the cases decides.
Tentative(r) ==
    IF Within(r.strike, DangerRadius) \/ r.confirmed THEN Danger
    ELSE IF r.warned \/ Within(r.strike, WarningRadius) THEN Warning
    ELSE IF r.thunder THEN Watch ELSE Normal

\* Stale data makes a Warning a Danger.
Escalated(level, stale) == IF stale # {} /\ level >= Warning THEN Danger ELSE level

Staleness(ok, now) == {s \in Sources : StaleAfter > 0 /\ now - ok[s] > StaleAfter}

-----------------------------------------------------------------------------
(* Evaluate asks one source after the other, and each may keep it waiting. *)

Goto(step) == pc' = step

\* Tick reads the clock once.
Begin ==
    /\ pc = "idle" /\ (seen # None => clock > seen.now)
    /\ result' = Fresh(clock)
    /\ Goto("lightning")
    /\ UNCHANGED <<world, watch, lastOK, cache, seen, stored, events, heard, told>>

Reused(s) == lastOK' = [lastOK EXCEPT ![s] = result.now] /\ UNCHANGED heard
Reached(s) == lastOK' = [lastOK EXCEPT ![s] = result.now] /\ heard' = [heard EXCEPT ![s] = result.now]
Unreached == UNCHANGED <<lastOK, heard, cache, result>>

AskLightning ==
    /\ pc = "lightning" /\ Goto("warnings")
    /\ IF Answers("lightning")
       THEN \E sky \in Skies :
               /\ IF sky = {} THEN Quiet ELSE Happens
               /\ result' = [result EXCEPT !.strike = Nearest(sky)]
               /\ Reached("lightning") /\ UNCHANGED cache
       ELSE Unreached /\ Quiet
    /\ UNCHANGED <<world, watch, seen, stored, told>>

Mutant_WarningsFailed == Reused("warnings") /\ UNCHANGED <<cache, result>>
WarningsFailed == Unreached

\* warningsCached, and what Evaluate makes of its answer.
AskWarnings ==
    /\ pc = "warnings" /\ Goto("forecast")
    /\ IF Configured("warnings") /\ WarningsCached
       THEN /\ result' = [result EXCEPT !.warned = Active(cache.warnings, result.now)]
            /\ Reused("warnings") /\ UNCHANGED cache
       ELSE IF Answers("warnings")
       THEN /\ result' = [result EXCEPT !.warned = Active(ActiveWarnings, result.now)]
            /\ Reached("warnings")
            /\ cache' = [cache EXCEPT !.warnings = ActiveWarnings, !.warningsAt = result.now]
       ELSE WarningsFailed
    /\ UNCHANGED <<world, watch, seen, stored, events, told>>

\* forecastCached, and what Evaluate makes of its answer.
AskForecast ==
    /\ pc = "forecast" /\ Goto("local")
    /\ IF Configured("forecast") /\ ForecastCached
       THEN /\ result' = [result EXCEPT !.thunder = cache.expected]
            /\ Reused("forecast") /\ UNCHANGED cache /\ Quiet
       ELSE IF Answers("forecast")
       THEN \E hours \in Forecasts :
               LET expected == ThunderstormExpected(hours)
               IN  /\ IF hours = {} THEN Quiet ELSE Happens
                   /\ result' = [result EXCEPT !.thunder = expected]
                   /\ Reached("forecast")
                   /\ cache' = [cache EXCEPT !.expected = expected, !.forecastAt = result.now]
       ELSE Unreached /\ Quiet
    /\ UNCHANGED <<world, watch, seen, stored, told>>

\* The rest of Evaluate; the sensor never fails.
AskLocal ==
    LET confirmed ==
            Configured("local") /\ Confirms(DetectionsSince(result.now - Window), result.strike)
        ok == [s \in Sources |-> IF s = "local" THEN result.now ELSE lastOK[s]]
        level == Tentative([result EXCEPT !.confirmed = confirmed])
        stale == Staleness(ok, result.now)
    IN  /\ pc = "local" /\ Goto("report")
        /\ lastOK' = ok
        /\ heard' = [s \in Sources |-> IF s = "local" THEN result.now ELSE heard[s]]
        /\ result' = [result EXCEPT !.confirmed = confirmed, !.stale = stale,
                                    !.level = Escalated(level, stale)]
        /\ UNCHANGED <<world, watch, cache, seen, stored, events, told>>

-----------------------------------------------------------------------------
(* reconcileWeather: each notice is sent before it is remembered. *)

\* The tick has the result, whatever becomes of the notices.
Done == Goto("idle") /\ seen' = result

\* storedWeatherLevel fails, and with it all notices of this tick.
LoadFails ==
    /\ pc \in {"report", "stale"} /\ Happens
    /\ Done
    /\ UNCHANGED <<world, watch, lastOK, cache, result, stored, heard, told>>

Mutant_WorthTelling(old, new) == new >= Warning
WorthTelling(old, new) == new >= Warning \/ old >= Warning

\* A notice is sent once, and lost if that fails: people then know nothing sure.
Notify(what, value) ==
    \/ Quiet /\ told' = [told EXCEPT ![what] = value]
    \/ Happens /\ told' = [told EXCEPT ![what] = None]

Report ==
    /\ pc = "report"
    /\ IF result.level = stored.level
       THEN Goto("stale") /\ Quiet /\ UNCHANGED told
       ELSE /\ Goto("remember")
            /\ IF WorthTelling(stored.level, result.level)
               THEN Notify("level", result.level)
               ELSE Quiet /\ UNCHANGED told
    /\ UNCHANGED <<world, watch, lastOK, cache, result, seen, stored, heard>>

\* SetState, which may fail: what people were told is then not remembered.
Remember ==
    /\ pc = "remember" /\ Goto("stale")
    /\ \/ Quiet /\ stored' = [stored EXCEPT !.level = result.level] /\ UNCHANGED told
       \/ Happens /\ told' = [told EXCEPT !.level = None] /\ UNCHANGED stored
    /\ UNCHANGED <<world, watch, lastOK, cache, result, seen, heard>>

ShouldNotify == result.stale # {} /\ result.level < Warning

\* reconcileStaleNotification, once per episode of stale data.
ReportStale ==
    /\ pc = "stale"
    /\ \/ /\ ShouldNotify /\ ~stored.stale
          /\ Notify("stale", TRUE)
          /\ Goto("rememberStale") /\ UNCHANGED <<seen, stored>>
       \/ /\ ~ShouldNotify
          /\ \/ Quiet /\ stored' = [stored EXCEPT !.stale = FALSE] /\ told' = [told EXCEPT !.stale = FALSE]
             \/ stored.stale /\ Happens /\ told' = [told EXCEPT !.stale = None] /\ UNCHANGED stored
          /\ Done
       \/ /\ ShouldNotify /\ stored.stale /\ Quiet
          /\ Done /\ UNCHANGED <<stored, told>>
    /\ UNCHANGED <<world, watch, lastOK, cache, result, heard>>

Mutant_MarkStale == stored' = [stored EXCEPT !.stale = seen = None]
MarkStale == stored' = [stored EXCEPT !.stale = TRUE]

RememberStale ==
    /\ pc = "rememberStale"
    /\ \/ Quiet /\ MarkStale /\ UNCHANGED told
       \/ Happens /\ told' = [told EXCEPT !.stale = None] /\ UNCHANGED stored
    /\ Done
    /\ UNCHANGED <<world, watch, lastOK, cache, result, heard>>

\* The process dies and starts again: the Monitor and the sensor know nothing,
\* and NewMonitor grants every source a fresh start.
Restart ==
    /\ Happens
    /\ detections' = <<>> /\ strokes' = <<>>
    /\ lastOK' = [s \in Sources |-> clock] /\ heard' = [s \in Sources |-> clock]
    /\ cache' = EmptyCache
    /\ Goto("idle") /\ result' = Fresh(clock) /\ seen' = None
    /\ told' = [level |-> IF pc = "remember" THEN None ELSE told.level,
                stale |-> IF pc = "rememberStale" THEN None ELSE told.stale]
    /\ UNCHANGED <<world, stored>>

-----------------------------------------------------------------------------
(* The world *)

\* Time passes; a source that does not answer is given up after its timeout.
Advance ==
    /\ clock < MaxTime /\ clock' = clock + 1
    /\ pc \in {"lightning", "warnings", "forecast", "local"} => clock < result.now + Patience
    /\ UNCHANGED <<feed, down, changed, watch, lastOK, cache, pc, result, seen, stored, events, heard, told>>

FeedChanges ==
    /\ Happens
    /\ feed' \in Feeds \ {feed} /\ changed' = clock
    /\ UNCHANGED <<clock, down, watch, lastOK, cache, pc, result, seen, stored, heard, told>>

\* A source stops answering, or answers again.
Outage ==
    /\ \E s \in Sources \ {"local"} :
          IF s \in down THEN down' = down \ {s} /\ Quiet ELSE down' = down \cup {s} /\ Happens
    /\ UNCHANGED <<clock, feed, changed, watch, lastOK, cache, pc, result, seen, stored, heard, told>>

Mutant_Kept(at) == at > clock - Retain
Kept(at) == at >= clock - Retain

\* Watcher.record, in a goroutine of its own: those before the first that is
\* kept are dropped.
Record ==
    /\ Configured("local") /\ Happens
    /\ LET all == Append(detections, clock)
       IN  \E first \in DOMAIN all :
              /\ Kept(all[first]) /\ \A i \in 1..first - 1 : ~Kept(all[i])
              /\ detections' = SubSeq(all, first, Len(all))
    /\ strokes' = Append(strokes, clock)
    /\ UNCHANGED <<world, lastOK, cache, pc, result, seen, stored, heard, told>>

-----------------------------------------------------------------------------
Init ==
    /\ clock = 1 /\ feed \in Feeds /\ down = {}
    /\ detections = <<>> /\ strokes = <<>>
    /\ lastOK = [s \in Sources |-> 1] /\ heard = [s \in Sources |-> 1]
    /\ cache = EmptyCache
    /\ pc = "idle" /\ result = Fresh(1) /\ seen = None
    /\ stored = [level |-> Normal, stale |-> FALSE]
    /\ events = 0 /\ changed = Never
    /\ told = [level |-> Normal, stale |-> FALSE]

Next ==
    \/ Begin \/ AskLightning \/ AskWarnings \/ AskForecast \/ AskLocal
    \/ LoadFails \/ Report \/ Remember \/ ReportStale \/ RememberStale \/ Restart
    \/ Advance \/ FeedChanges \/ Outage \/ Record

Spec == Init /\ [][Next]_vars

-----------------------------------------------------------------------------
(* Properties *)

Interval(s) ==
    CASE s = "warnings" -> WarningsInterval - 1
      [] s = "forecast" -> ForecastInterval - 1
      [] OTHER -> 0

\* Silence is noticed: an evaluation reports a source as stale only if no
\* evaluation has really reached it for longer than StaleAfter, and at the
\* latest when that has lasted as long as a cached answer may in addition
\* hide the silence.
SilenceNoticed ==
    pc = "report" /\ StaleAfter > 0 =>
        \A s \in Sources :
            IF s \in result.stale
            THEN result.now - heard[s] > StaleAfter
            ELSE result.now - heard[s] <= StaleAfter + Interval(s)

Announced == \E w \in feed : w.thunder /\ w.color = "orange" /\ w.expires # None /\ w.expires >= result.now

\* A storm warning is followed: an evaluation that has an answer says a serious
\* thunderstorm is announced exactly if the feed says so, once the feed has
\* stayed as it is for as long as the cache is used.
WarningFollowed ==
    /\ pc = "report" /\ Configured("warnings")
    /\ lastOK["warnings"] = result.now /\ cache.warningsAt # Never
    /\ changed = Never \/ result.now >= changed + WarningsInterval
    => result.warned = Announced

\* Two of all detections since the process started, no further apart than the
\* window and neither of them before it.
Pair(i, j) ==
    i < j /\ strokes[j] - strokes[i] <= Window /\ strokes[i] >= result.now - Window

\* Without a strike near by, the sensor makes a Danger only of a pair within the
\* window before the evaluation, and does so for every such pair that is no
\* older than what the watcher retains, whatever it records and drops while the
\* evaluation waits.  Nothing ties the two durations to each other: a pair older
\* than that is dropped with the next detection, within the window or not.
PairConfirmed ==
    [][AskLocal /\ Configured("local") /\ ~Within(result.strike, DangerRadius) =>
          /\ result'.confirmed => \E i, j \in DOMAIN strokes : Pair(i, j)
          /\ \A i, j \in DOMAIN strokes :
                Pair(i, j) /\ strokes[i] >= clock - Retain => result'.confirmed]_vars

\* Once a tick has compared its level with the one stored, people know the
\* level if it is a Warning or worse, and know that there is none otherwise,
\* unless a notice was lost or what was told could not be remembered.
LevelTold ==
    pc = "stale" /\ told.level # None =>
        told.level = result.level \/ (told.level < Warning /\ result.level < Warning)

\* Stale data below Warning is told once per episode, and again only after a
\* tick without it or when the notice was lost or could not be remembered.
StaleToldOnce ==
    [][ReportStale =>
          /\ ShouldNotify => told'.stale # FALSE
          /\ pc' = "rememberStale" => told.stale # TRUE]_vars
==============================================================================
