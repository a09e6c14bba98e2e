----------------------------- MODULE WeatherProofs -----------------------------
(***************************************************************************)
(* Proofs about Weather for every configuration: any sources, intervals,   *)
(* windows and radii, whatever the sources answer and whenever they stop   *)
(* answering, any number of lost notices, failing writes and restarts.     *)
(***************************************************************************)
EXTENDS Weather, WellFoundedInduction, SequenceTheorems, TLAPS

LEMMA Settings ==
    /\ Sources \subseteq AllSources
    /\ StaleAfter \in Nat /\ Lookahead \in Nat /\ DangerRadius \in Nat /\ WarningRadius \in Nat
    /\ WarningsInterval \in Nat \ {0} /\ ForecastInterval \in Nat \ {0} /\ Window \in Nat \ {0}
    /\ Retain \in Nat /\ Patience \in Nat
    /\ MaxEvents \in Nat /\ MaxTime \in Nat \ {0} /\ None \notin Nat /\ None \notin BOOLEAN
  BY WeatherAssumption DEF WeatherAssumption

LEMMA TimesAre == Times \subseteq Nat /\ \A t \in Times : t >= 1 /\ t <= MaxTime
  BY Settings DEF Times

-----------------------------------------------------------------------------
(* Type correctness *)

LEMMA NearestType ==
    ASSUME NEW sky \in Skies
    PROVE  Nearest(sky) \in Nat \cup {None}
<1>1. sky \subseteq Nat
  BY WeatherAssumption DEF WeatherAssumption
<1>2. ASSUME sky # {} PROVE \E x \in sky : \A y \in sky : x <= y
  <2>1. \E x \in sky : \A y \in sky : <<y, x>> \notin OpToRel(<, Nat)
    BY <1>1, <1>2, NatLessThanWellFounded, WFMin, Zenon
  <2>2. \A x, y \in Nat : <<y, x>> \notin OpToRel(<, Nat) => x <= y
    BY DEF OpToRel
  <2> QED
    BY <1>1, <2>1, <2>2
<1>3. sky # {} => Min(sky) \in sky
  BY <1>2 DEF Min
<1> QED
  BY <1>1, <1>3 DEF Nearest

LEMMA WarningsType ==
    ASSUME feed \in Feeds
    PROVE  ActiveWarnings \subseteq AlertWarnings
<1>1. feed \subseteq Entries
  BY WeatherAssumption DEF WeatherAssumption
<1> QED
  BY <1>1 DEF ActiveWarnings, Entries, AlertWarnings

LEMMA LevelType ==
    ASSUME NEW r, NEW stale
    PROVE  Tentative(r) \in Levels /\ Escalated(Tentative(r), stale) \in Levels
  BY DEF Tentative, Escalated, Levels, Normal, Watch, Warning, Danger

LEMMA FreshType ==
    ASSUME NEW t \in Times
    PROVE  Fresh(t) \in Results /\ Fresh(t).now = t
  BY DEF Fresh, Results, Levels, Normal, Danger

LEMMA ResultTypes ==
    ASSUME result \in Results
    PROVE  /\ result.now \in Times /\ result.strike \in Nat \cup {None} /\ result.level \in Levels
           /\ result.warned \in BOOLEAN /\ result.stale \subseteq Sources
           /\ \A x \in Nat \cup {None} : [result EXCEPT !.strike = x] \in Results
           /\ \A b \in BOOLEAN : [result EXCEPT !.warned = b] \in Results
           /\ \A b \in BOOLEAN : [result EXCEPT !.thunder = b] \in Results
           /\ \A b \in BOOLEAN, l \in Levels : \A s \in SUBSET Sources :
                 [result EXCEPT !.confirmed = b, !.stale = s, !.level = l] \in Results
  BY DEF Results

LEMMA InitTyped == Init => TypeOK
<1> SUFFICES ASSUME Init PROVE TypeOK
  OBVIOUS
<1>1. 1 \in Times /\ 0 \in 0..MaxEvents /\ Normal \in Levels
  BY Settings DEF Times, Levels, Normal, Danger
<1>2. Fresh(1) \in Results
  BY <1>1, FreshType
<1>3. EmptyCache \in Caches
  BY DEF EmptyCache, Caches
<1> QED
  BY <1>1, <1>2, <1>3 DEF Init, TypeOK

\* What the steps of an evaluation write.
EventsOK == events' \in 0..MaxEvents

LEMMA EventsCounted ==
    ASSUME events \in 0..MaxEvents, Happens \/ Quiet
    PROVE  EventsOK
  BY Settings DEF Happens, May, Quiet, EventsOK

LEMMA AskTyped == TypeOK /\ (Begin \/ AskLightning \/ AskWarnings \/ AskForecast \/ AskLocal) => TypeOK'
<1> SUFFICES ASSUME TypeOK, Begin \/ AskLightning \/ AskWarnings \/ AskForecast \/ AskLocal PROVE TypeOK'
  OBVIOUS
<1>1. result \in Results /\ result.now \in Times /\ events \in 0..MaxEvents /\ clock \in Times
  BY ResultTypes DEF TypeOK
<1>2. ASSUME NEW s
      PROVE  /\ Reused(s) => lastOK' \in [Sources -> Times] /\ heard' \in [Sources -> Times]
             /\ Reached(s) => lastOK' \in [Sources -> Times] /\ heard' \in [Sources -> Times]
             /\ Unreached => lastOK' \in [Sources -> Times] /\ heard' \in [Sources -> Times]
                             /\ cache' \in Caches /\ result' \in Results
  BY <1>1 DEF TypeOK, Reused, Reached, Unreached
<1>3. CASE Begin
  BY <1>1, <1>3, FreshType DEF Begin, Goto, TypeOK, world, watch
<1>4. CASE AskLightning
  <2>1. EventsOK
    BY <1>1, <1>4, EventsCounted DEF AskLightning
  <2>2. /\ lastOK' \in [Sources -> Times] /\ heard' \in [Sources -> Times]
        /\ cache' \in Caches /\ result' \in Results
    <3>1. CASE Answers("lightning")
      <4>1. PICK sky \in Skies : result' = [result EXCEPT !.strike = Nearest(sky)]
        BY <1>4, <3>1 DEF AskLightning
      <4>2. result' \in Results
        BY <1>1, <4>1, NearestType, ResultTypes
      <4>3. Reached("lightning") /\ UNCHANGED cache
        BY <1>4, <3>1 DEF AskLightning
      <4> QED
        BY <1>2, <4>2, <4>3 DEF TypeOK
    <3>2. CASE ~Answers("lightning")
      BY <1>2, <1>4, <3>2 DEF AskLightning
    <3> QED
      BY <3>1, <3>2
  <2> QED
    BY <1>4, <2>1, <2>2 DEF AskLightning, Goto, EventsOK, TypeOK, world, watch
<1>5. CASE AskWarnings
  <2>1. /\ lastOK' \in [Sources -> Times] /\ heard' \in [Sources -> Times]
        /\ cache' \in Caches /\ result' \in Results
    <3>1. CASE Configured("warnings") /\ WarningsCached
      <4>1. result' = [result EXCEPT !.warned = Active(cache.warnings, result.now)] /\ Reused("warnings") /\ UNCHANGED cache
        BY <1>5, <3>1 DEF AskWarnings
      <4>2. Active(cache.warnings, result.now) \in BOOLEAN
        BY DEF Active
      <4> QED
        BY <1>1, <1>2, <4>1, <4>2, ResultTypes DEF TypeOK
    <3>2. CASE ~(Configured("warnings") /\ WarningsCached) /\ Answers("warnings")
      <4>1. /\ result' = [result EXCEPT !.warned = Active(ActiveWarnings, result.now)] /\ Reached("warnings")
            /\ cache' = [cache EXCEPT !.warnings = ActiveWarnings, !.warningsAt = result.now]
        BY <1>5, <3>2 DEF AskWarnings
      <4>2. Active(ActiveWarnings, result.now) \in BOOLEAN
        BY DEF Active
      <4>3. ActiveWarnings \subseteq AlertWarnings
        BY WarningsType DEF TypeOK
      <4>4. cache' \in Caches
        BY <1>1, <4>1, <4>3 DEF TypeOK, Caches
      <4> QED
        BY <1>1, <1>2, <4>1, <4>2, <4>4, ResultTypes DEF TypeOK
    <3>3. CASE ~(Configured("warnings") /\ WarningsCached) /\ ~Answers("warnings")
      BY <1>2, <1>5, <3>3 DEF AskWarnings, WarningsFailed
    <3> QED
      BY <3>1, <3>2, <3>3
  <2> QED
    BY <1>5, <2>1 DEF AskWarnings, Goto, TypeOK, world, watch
<1>6. CASE AskForecast
  <2>1. EventsOK
    BY <1>1, <1>6, EventsCounted DEF AskForecast
  <2>2. /\ lastOK' \in [Sources -> Times] /\ heard' \in [Sources -> Times]
        /\ cache' \in Caches /\ result' \in Results
    <3>1. CASE Configured("forecast") /\ ForecastCached
      <4>1. result' = [result EXCEPT !.thunder = cache.expected] /\ Reused("forecast") /\ UNCHANGED cache
        BY <1>6, <3>1 DEF AskForecast
      <4>2. cache.expected \in BOOLEAN
        BY DEF TypeOK, Caches
      <4> QED
        BY <1>1, <1>2, <4>1, <4>2, ResultTypes DEF TypeOK
    <3>2. CASE ~(Configured("forecast") /\ ForecastCached) /\ Answers("forecast")
      <4>1. PICK hours \in Forecasts :
              /\ result' = [result EXCEPT !.thunder = ThunderstormExpected(hours)] /\ Reached("forecast")
              /\ cache' = [cache EXCEPT !.expected = ThunderstormExpected(hours), !.forecastAt = result.now]
        BY <1>6, <3>2 DEF AskForecast
      <4>2. ThunderstormExpected(hours) \in BOOLEAN
        BY DEF ThunderstormExpected
      <4>3. cache' \in Caches
        BY <1>1, <4>1, <4>2 DEF TypeOK, Caches
      <4> QED
        BY <1>1, <1>2, <4>1, <4>2, <4>3, ResultTypes DEF TypeOK
    <3>3. CASE ~(Configured("forecast") /\ ForecastCached) /\ ~Answers("forecast")
      BY <1>2, <1>6, <3>3 DEF AskForecast
    <3> QED
      BY <3>1, <3>2, <3>3
  <2> QED
    BY <1>6, <2>1, <2>2 DEF AskForecast, Goto, EventsOK, TypeOK, world, watch
<1>7. CASE AskLocal
  <2> DEFINE confirmed ==
               Configured("local") /\ Confirms(DetectionsSince(result.now - Window), result.strike)
             ok == [s \in Sources |-> IF s = "local" THEN result.now ELSE lastOK[s]]
             level == Tentative([result EXCEPT !.confirmed = confirmed])
             stale == Staleness(ok, result.now)
  <2>1. confirmed \in BOOLEAN /\ stale \subseteq Sources /\ Escalated(level, stale) \in Levels
    BY LevelType DEF Staleness, Configured
  <2>2. result' = [result EXCEPT !.confirmed = confirmed, !.stale = stale, !.level = Escalated(level, stale)]
    BY <1>7 DEF AskLocal
  <2> HIDE DEF confirmed, stale, level
  <2>3. result' \in Results
    BY <1>1, <2>1, <2>2, ResultTypes
  <2>4. lastOK' \in [Sources -> Times] /\ heard' \in [Sources -> Times]
    BY <1>1, <1>7 DEF AskLocal, TypeOK
  <2> QED
    BY <1>7, <2>3, <2>4 DEF AskLocal, Goto, TypeOK, world, watch
<1> QED
  BY <1>3, <1>4, <1>5, <1>6, <1>7

ReportSteps == LoadFails \/ Report \/ Remember \/ ReportStale \/ RememberStale

LEMMA ReportTyped == TypeOK /\ ReportSteps => TypeOK'
<1> SUFFICES ASSUME TypeOK, ReportSteps PROVE TypeOK'
  OBVIOUS
<1>1. result \in Results /\ result.level \in Levels /\ events \in 0..MaxEvents
  BY ResultTypes DEF TypeOK
<1>2. EventsOK
  BY <1>1, EventsCounted DEF ReportSteps, LoadFails, Report, Remember, ReportStale, RememberStale, Notify
<1>3. /\ Notify("level", result.level) => told' \in [level : Levels \cup {None}, stale : BOOLEAN \cup {None}]
      /\ Notify("stale", TRUE) => told' \in [level : Levels \cup {None}, stale : BOOLEAN \cup {None}]
  BY <1>1 DEF TypeOK, Notify
<1>4. Done => pc' = "idle" /\ seen' \in Results \cup {None}
  BY <1>1 DEF Done, Goto
<1>5. CASE LoadFails
  BY <1>2, <1>4, <1>5 DEF LoadFails, EventsOK, TypeOK, world, watch
<1>6. CASE Report
  <2>1. told' \in [level : Levels \cup {None}, stale : BOOLEAN \cup {None}]
    BY <1>3, <1>6 DEF Report, TypeOK
  <2>2. pc' \in {"stale", "remember"}
    BY <1>6 DEF Report, Goto
  <2> QED
    BY <1>2, <1>6, <2>1, <2>2 DEF Report, EventsOK, TypeOK, world, watch
<1>7. CASE Remember
  <2>1. told' \in [level : Levels \cup {None}, stale : BOOLEAN \cup {None}]
    BY <1>7 DEF Remember, TypeOK
  <2>2. stored' \in [level : Levels, stale : BOOLEAN]
    BY <1>1, <1>7 DEF Remember, TypeOK
  <2> QED
    BY <1>2, <1>7, <2>1, <2>2 DEF Remember, Goto, EventsOK, TypeOK, world, watch
<1>8. CASE ReportStale
  <2>1. told' \in [level : Levels \cup {None}, stale : BOOLEAN \cup {None}]
    BY <1>3, <1>8 DEF ReportStale, TypeOK
  <2>2. stored' \in [level : Levels, stale : BOOLEAN]
    BY <1>8 DEF ReportStale, TypeOK
  <2>3. pc' \in {"idle", "rememberStale"} /\ seen' \in Results \cup {None}
    BY <1>4, <1>8 DEF ReportStale, Goto, TypeOK
  <2> QED
    BY <1>2, <1>8, <2>1, <2>2, <2>3 DEF ReportStale, EventsOK, TypeOK, world, watch
<1>9. CASE RememberStale
  <2>1. told' \in [level : Levels \cup {None}, stale : BOOLEAN \cup {None}]
    BY <1>9 DEF RememberStale, TypeOK
  <2>2. stored' \in [level : Levels, stale : BOOLEAN]
    BY <1>9 DEF RememberStale, MarkStale, TypeOK
  <2> QED
    BY <1>2, <1>4, <1>9, <2>1, <2>2 DEF RememberStale, EventsOK, TypeOK, world, watch
<1> QED
  BY <1>5, <1>6, <1>7, <1>8, <1>9 DEF ReportSteps

WorldSteps == Restart \/ Advance \/ FeedChanges \/ Outage \/ Record

LEMMA WorldTyped == TypeOK /\ WorldSteps => TypeOK'
<1> SUFFICES ASSUME TypeOK, WorldSteps PROVE TypeOK'
  OBVIOUS
<1>1. events \in 0..MaxEvents /\ clock \in Times
  BY DEF TypeOK
<1>2. CASE Restart
  <2>1. EventsOK
    BY <1>1, <1>2, EventsCounted DEF Restart
  <2>2. EmptyCache \in Caches /\ Fresh(clock) \in Results
    BY <1>1, FreshType DEF EmptyCache, Caches
  <2>3. told' \in [level : Levels \cup {None}, stale : BOOLEAN \cup {None}]
    BY <1>2 DEF Restart, TypeOK
  <2>4. lastOK' \in [Sources -> Times] /\ heard' \in [Sources -> Times]
    BY <1>1, <1>2 DEF Restart
  <2> QED
    BY <1>2, <2>1, <2>2, <2>3, <2>4 DEF Restart, Goto, EventsOK, TypeOK, world
<1>3. CASE Advance
  <2>1. clock' \in Times
    BY <1>1, <1>3, Settings DEF Advance, Times
  <2> QED
    BY <1>3, <2>1 DEF Advance, TypeOK, watch
<1>4. CASE FeedChanges
  <2>1. EventsOK
    BY <1>1, <1>4, EventsCounted DEF FeedChanges
  <2> QED
    BY <1>1, <1>4, <2>1 DEF FeedChanges, EventsOK, TypeOK, watch
<1>5. CASE Outage
  <2>1. PICK s \in Sources \ {"local"} :
           IF s \in down THEN down' = down \ {s} /\ Quiet ELSE down' = down \cup {s} /\ Happens
    BY <1>5 DEF Outage
  <2>2. EventsOK
    BY <1>1, <2>1, EventsCounted
  <2>3. down' \subseteq Sources
    BY <2>1 DEF TypeOK
  <2> QED
    BY <1>5, <2>2, <2>3 DEF Outage, EventsOK, TypeOK, watch
<1>6. CASE Record
  <2>1. EventsOK
    BY <1>1, <1>6, EventsCounted DEF Record
  <2> DEFINE all == Append(detections, clock)
  <2>2. all \in Seq(Times)
    BY <1>1 DEF TypeOK
  <2>3. PICK first \in DOMAIN all : detections' = SubSeq(all, first, Len(all))
    BY <1>6 DEF Record
  <2> HIDE DEF all
  <2>4. detections' \in Seq(Times)
    BY <2>2, <2>3
  <2>5. strokes' \in Seq(Times)
    BY <1>1, <1>6 DEF Record, TypeOK
  <2> QED
    BY <1>6, <2>1, <2>4, <2>5 DEF Record, EventsOK, TypeOK, world
<1> QED
  BY <1>2, <1>3, <1>4, <1>5, <1>6 DEF WorldSteps

Ask == AskLightning \/ AskWarnings \/ AskForecast \/ AskLocal

LEMMA NextIs == [Next]_vars => Begin \/ Ask \/ ReportSteps \/ WorldSteps \/ UNCHANGED vars
  BY DEF Next, Ask, ReportSteps, WorldSteps

LEMMA StepTyped == TypeOK /\ [Next]_vars => TypeOK'
<1>1. TypeOK /\ UNCHANGED vars => TypeOK'
  BY DEF TypeOK, vars, world, watch
<1> QED
  BY <1>1, AskTyped, ReportTyped, WorldTyped, NextIs DEF Ask

\* The Monitor's caches and results, the watcher's detections, what is stored
\* and what people know keep their types, whatever the sources answer.
THEOREM TypesCorrect == Spec => []TypeOK
<1>1. Init => TypeOK
  BY InitTyped
<1>2. TypeOK /\ [Next]_vars => TypeOK'
  BY StepTyped
<1> QED
  BY <1>1, <1>2, PTL DEF Spec

-----------------------------------------------------------------------------
(* What the steps change, and what they leave alone. *)

Asking == {"lightning", "warnings", "forecast", "local"}

\* A source is reached, or its cached answer used, or neither.
Took(s) == lastOK'[s] = result.now /\ heard'[s] = result.now
Held(s) ==
    /\ lastOK'[s] = result.now /\ heard'[s] = heard[s]
    /\ (s = "warnings" /\ WarningsCached) \/ (s = "forecast" /\ ForecastCached)
Missed(s) == lastOK'[s] = lastOK[s] /\ heard'[s] = heard[s]

LEMMA AskKeeps ==
    ASSUME TypeOK, Ask
    PROVE  /\ pc \in Asking /\ pc' \in {"warnings", "forecast", "local", "report"}
           /\ pc = "lightning" => pc' = "warnings"
           /\ result'.now = result.now /\ result'.level \in Levels
           /\ UNCHANGED <<clock, feed, changed, detections, strokes, seen, stored, told>>
           /\ \A s \in Sources : Took(s) \/ Held(s) \/ Missed(s)
<1>1. lastOK \in [Sources -> Times] /\ heard \in [Sources -> Times] /\ result \in Results
  BY DEF TypeOK
<1>2. /\ \A x \in Sources : Reached(x) => (Took(x) /\ \A s \in Sources \ {x} : Missed(s))
      /\ \A x \in Sources : Reused(x) /\ ((x = "warnings" /\ WarningsCached) \/ (x = "forecast" /\ ForecastCached))
             => (Held(x) /\ \A s \in Sources \ {x} : Missed(s))
      /\ Unreached => \A s \in Sources : Missed(s)
  BY <1>1 DEF Reached, Reused, Unreached, Took, Held, Missed
<1>3. CASE AskLightning
  <2>1. ("lightning" \in Sources /\ Reached("lightning")) \/ Unreached
    BY <1>3 DEF AskLightning, Answers, Configured
  <2>2. result'.now = result.now /\ result'.level = result.level
    BY <1>1, <1>3 DEF AskLightning, Unreached, Results
  <2> QED
    BY <1>1, <1>2, <1>3, <2>1, <2>2, ResultTypes DEF AskLightning, Goto, Asking, world, watch
<1>4. CASE AskWarnings
  <2>1. \/ "warnings" \in Sources /\ WarningsCached /\ Reused("warnings")
        \/ "warnings" \in Sources /\ Reached("warnings")
        \/ Unreached
    BY <1>4 DEF AskWarnings, Answers, Configured, WarningsFailed
  <2>2. result'.now = result.now /\ result'.level = result.level
    BY <1>1, <1>4 DEF AskWarnings, WarningsFailed, Unreached, Results
  <2> QED
    BY <1>1, <1>2, <1>4, <2>1, <2>2, ResultTypes DEF AskWarnings, Goto, Asking, world, watch
<1>5. CASE AskForecast
  <2>1. \/ "forecast" \in Sources /\ ForecastCached /\ Reused("forecast")
        \/ "forecast" \in Sources /\ Reached("forecast")
        \/ Unreached
    BY <1>5 DEF AskForecast, Answers, Configured
  <2>2. result'.now = result.now /\ result'.level = result.level
    BY <1>1, <1>5 DEF AskForecast, Unreached, Results
  <2> QED
    BY <1>1, <1>2, <1>5, <2>1, <2>2, ResultTypes DEF AskForecast, Goto, Asking, world, watch
<1>6. CASE AskLocal
  <2>1. \A s \in Sources : Took(s) \/ Missed(s)
    BY <1>1, <1>6 DEF AskLocal, Took, Missed
  <2>2. result'.now = result.now
    BY <1>1, <1>6 DEF AskLocal, Results
  <2>3. result'.level \in Levels
    BY <1>6, AskTyped, ResultTypes DEF TypeOK, Results
  <2> QED
    BY <1>6, <2>1, <2>2, <2>3 DEF AskLocal, Goto, Asking, world, watch
<1> QED
  BY <1>3, <1>4, <1>5, <1>6 DEF Ask

LEMMA CacheKept ==
    ASSUME TypeOK, Ask
    PROVE  \/ UNCHANGED cache
           \/ /\ AskWarnings /\ "warnings" \in Sources /\ Took("warnings")
              /\ cache'.warnings = ActiveWarnings /\ cache'.warningsAt = result.now
              /\ cache'.forecastAt = cache.forecastAt
           \/ /\ AskForecast /\ "forecast" \in Sources /\ Took("forecast")
              /\ cache'.warnings = cache.warnings /\ cache'.warningsAt = cache.warningsAt
              /\ cache'.forecastAt = result.now
<1>1. lastOK \in [Sources -> Times] /\ heard \in [Sources -> Times] /\ cache \in Caches
  BY DEF TypeOK
<1>2. \A s \in Sources : Reached(s) => Took(s)
  BY <1>1 DEF Reached, Took
<1>3. CASE AskWarnings
  <2>1. \/ UNCHANGED cache
        \/ /\ "warnings" \in Sources /\ Reached("warnings")
           /\ cache' = [cache EXCEPT !.warnings = ActiveWarnings, !.warningsAt = result.now]
    BY <1>3 DEF AskWarnings, Answers, Configured, WarningsFailed, Unreached
  <2> QED
    BY <1>1, <1>2, <1>3, <2>1 DEF Caches
<1>4. CASE AskForecast
  <2>1. \/ UNCHANGED cache
        \/ /\ "forecast" \in Sources /\ Reached("forecast")
           /\ \E expected : cache' = [cache EXCEPT !.expected = expected, !.forecastAt = result.now]
    BY <1>4 DEF AskForecast, Answers, Configured, Unreached
  <2> QED
    BY <1>1, <1>2, <1>4, <2>1 DEF Caches
<1>5. CASE AskLightning \/ AskLocal
  BY <1>5 DEF AskLightning, AskLocal, Unreached
<1> QED
  BY <1>3, <1>4, <1>5 DEF Ask

LEMMA ReportKeeps ==
    ASSUME ReportSteps
    PROVE  /\ UNCHANGED <<clock, feed, changed, detections, strokes, lastOK, cache, result, heard>>
           /\ pc \in {"report", "remember", "stale", "rememberStale"}
           /\ \/ pc' \in {"remember", "stale", "rememberStale"} /\ seen' = seen
              \/ pc' = "idle" /\ seen' = result
<1>1. CASE LoadFails
  BY <1>1 DEF LoadFails, Done, Goto, world, watch
<1>2. CASE Report
  BY <1>2 DEF Report, Goto, world, watch
<1>3. CASE Remember
  BY <1>3 DEF Remember, Goto, world, watch
<1>4. CASE ReportStale
  BY <1>4 DEF ReportStale, Done, Goto, world, watch
<1>5. CASE RememberStale
  BY <1>5 DEF RememberStale, Done, Goto, world, watch
<1> QED
  BY <1>1, <1>2, <1>3, <1>4, <1>5 DEF ReportSteps

\* The steps of the world but for a restart leave the engine alone.
Around == Advance \/ FeedChanges \/ Outage \/ Record

LEMMA AroundKeeps ==
    ASSUME Around \/ UNCHANGED vars
    PROVE  /\ UNCHANGED <<lastOK, cache, pc, result, seen, stored, heard, told>>
           /\ UNCHANGED <<clock, changed>> \/ Advance \/ FeedChanges
<1>1. CASE Around
  BY <1>1 DEF Around, Advance, FeedChanges, Outage, Record, world, watch
<1>2. CASE UNCHANGED vars
  BY <1>2 DEF vars, world, watch
<1> QED
  BY <1>1, <1>2

LEMMA AllSteps == [Next]_vars => Begin \/ Ask \/ ReportSteps \/ Restart \/ Around \/ UNCHANGED vars
  BY NextIs DEF WorldSteps, Around

-----------------------------------------------------------------------------
(* Instants *)

InTime ==
    /\ result.now <= clock /\ changed <= clock /\ cache.warningsAt <= clock
    /\ \A s \in Sources : heard[s] <= lastOK[s] /\ lastOK[s] <= clock
    /\ pc # "idle" => \A s \in Sources : lastOK[s] <= result.now
    /\ pc = "idle" /\ seen # None => \A s \in Sources : lastOK[s] <= seen.now
    /\ pc \in Asking => clock <= result.now + Patience

LEMMA Instants ==
    ASSUME TypeOK
    PROVE  /\ clock \in Nat /\ result.now \in Nat /\ changed \in Nat
           /\ cache.warningsAt \in Nat /\ cache.forecastAt \in Nat
           /\ \A s \in Sources : lastOK[s] \in Nat /\ heard[s] \in Nat
           /\ clock >= 1 /\ result.now >= 1
<1>1. Times \subseteq Nat /\ \A t \in Times : t >= 1
  BY TimesAre
<1>2. /\ clock \in Times /\ result.now \in Times /\ changed \in {Never} \cup Times
      /\ cache.warningsAt \in {Never} \cup Times /\ cache.forecastAt \in {Never} \cup Times
      /\ \A s \in Sources : lastOK[s] \in Times /\ heard[s] \in Times
  BY ResultTypes DEF TypeOK, Caches
<1>3. \A t \in {Never} \cup Times : t \in Nat
  BY <1>1 DEF Never
<1>4. clock >= 1 /\ result.now >= 1 /\ clock \in Nat /\ result.now \in Nat
  BY <1>1, <1>2
<1> HIDE DEF Times
<1> QED
  BY <1>1, <1>2, <1>3, <1>4

LEMMA InTimeStep == TypeOK /\ InTime /\ [Next]_vars => InTime'
<1> SUFFICES ASSUME TypeOK, InTime, [Next]_vars PROVE InTime'
  OBVIOUS
<1>1. /\ clock \in Nat /\ result.now \in Nat /\ changed \in Nat /\ cache.warningsAt \in Nat /\ Patience \in Nat
      /\ \A s \in Sources : lastOK[s] \in Nat /\ heard[s] \in Nat
  BY Instants, Settings
<1>2. CASE Begin
  <2>1. result'.now = clock /\ pc' = "lightning" /\ UNCHANGED <<clock, changed, cache, lastOK, heard>>
    BY <1>2, FreshType DEF Begin, Goto, world, TypeOK
  <2> QED
    BY <1>1, <2>1 DEF InTime, Asking
<1>3. CASE Ask
  <2>1. /\ pc \in Asking /\ pc' \in {"warnings", "forecast", "local", "report"}
        /\ result'.now = result.now /\ UNCHANGED <<clock, changed>>
        /\ \A s \in Sources : Took(s) \/ Held(s) \/ Missed(s)
    BY <1>3, AskKeeps
  <2>2. pc # "idle" /\ pc' # "idle"
    BY <2>1 DEF Asking
  <2>3. \A s \in Sources : heard'[s] <= lastOK'[s] /\ lastOK'[s] <= result.now
    BY <1>1, <2>1, <2>2 DEF InTime, Took, Held, Missed
  <2>4. cache'.warningsAt <= clock
    BY <1>3, CacheKept DEF InTime
  <2>5. \A s \in Sources : lastOK'[s] <= clock
    <3>1. \A s \in Sources : lastOK'[s] \in Nat
      BY <1>1, <2>1 DEF Took, Held, Missed
    <3> QED
      BY <1>1, <2>3, <3>1 DEF InTime
  <2> QED
    BY <2>1, <2>2, <2>3, <2>4, <2>5 DEF InTime
<1>4. CASE ReportSteps
  <2>1. /\ UNCHANGED <<clock, changed, lastOK, cache, result, heard>>
        /\ pc # "idle" /\ pc' \notin Asking /\ (pc' # "idle" \/ seen' = result)
    BY <1>4, ReportKeeps DEF Asking
  <2> QED
    BY <2>1 DEF InTime
<1>5. CASE Restart
  <2>1. /\ UNCHANGED <<clock, changed>> /\ cache'.warningsAt = 0 /\ pc' = "idle" /\ seen' = None
        /\ result'.now = clock /\ \A s \in Sources : lastOK'[s] = clock /\ heard'[s] = clock
    BY <1>5, FreshType DEF Restart, Goto, world, EmptyCache, Never, TypeOK
  <2> QED
    BY <1>1, <2>1 DEF InTime, Asking
<1>6. CASE Around \/ UNCHANGED vars
  <2>1. UNCHANGED <<lastOK, cache, pc, result, seen, heard>>
    BY <1>6, AroundKeeps
  <2>2. CASE UNCHANGED <<clock, changed>>
    BY <2>1, <2>2 DEF InTime
  <2>3. CASE Advance
    <3>1. clock' = clock + 1 /\ changed' = changed /\ (pc \in Asking => clock < result.now + Patience)
      BY <2>3 DEF Advance, Asking
    <3> QED
      BY <1>1, <2>1, <3>1 DEF InTime
  <2>4. CASE FeedChanges
    <3>1. clock' = clock /\ changed' = clock
      BY <2>4 DEF FeedChanges
    <3> QED
      BY <1>1, <2>1, <3>1 DEF InTime
  <2> QED
    BY <1>6, <2>2, <2>3, <2>4, AroundKeeps
<1> QED
  BY <1>2, <1>3, <1>4, <1>5, <1>6, AllSteps

-----------------------------------------------------------------------------
(* Silence is noticed. *)

\* A cached answer hides the silence of its source for less than an interval.
Heard ==
    /\ \A s \in Sources : lastOK[s] - heard[s] <= Interval(s)
    /\ cache.warningsAt # Never => "warnings" \in Sources /\ heard["warnings"] >= cache.warningsAt
    /\ cache.forecastAt # Never => "forecast" \in Sources /\ heard["forecast"] >= cache.forecastAt
    /\ pc = "report" => result.stale = Staleness(lastOK, result.now)

LEMMA Intervals ==
    /\ \A s \in Sources : Interval(s) \in Nat
    /\ Interval("warnings") = WarningsInterval - 1 /\ Interval("forecast") = ForecastInterval - 1
  BY Settings DEF Interval

LEMMA HeardStep == TypeOK /\ InTime /\ Heard /\ [Next]_vars => Heard'
<1> SUFFICES ASSUME TypeOK, InTime, Heard, [Next]_vars PROVE Heard'
  OBVIOUS
<1>1. /\ clock \in Nat /\ result.now \in Nat /\ cache.warningsAt \in Nat /\ cache.forecastAt \in Nat
      /\ \A s \in Sources : lastOK[s] \in Nat /\ heard[s] \in Nat
      /\ WarningsInterval \in Nat /\ ForecastInterval \in Nat
  BY Instants, Settings
<1>2. CASE Begin
  <2>1. pc' = "lightning" /\ UNCHANGED <<cache, lastOK, heard>>
    BY <1>2 DEF Begin, Goto
  <2> QED
    BY <2>1 DEF Heard
<1>3. CASE Ask
  <2>1. /\ pc \in Asking /\ pc # "idle" /\ \A s \in Sources : Took(s) \/ Held(s) \/ Missed(s)
    BY <1>3, AskKeeps DEF Asking
  <2>2. ASSUME NEW s \in Sources PROVE lastOK'[s] - heard'[s] <= Interval(s)
    <3>1. CASE Took(s)
      BY <1>1, <3>1, Intervals DEF Took
    <3>2. CASE Missed(s)
      BY <3>2 DEF Missed, Heard
    <3>3. CASE Held(s) /\ s = "warnings" /\ WarningsCached
      <4>1. result.now - cache.warningsAt < WarningsInterval /\ heard["warnings"] >= cache.warningsAt
        BY <3>3 DEF WarningsCached, Heard
      <4> QED
        BY <1>1, <3>3, <4>1, Intervals DEF Held
    <3>4. CASE Held(s) /\ s = "forecast" /\ ForecastCached
      <4>1. result.now - cache.forecastAt < ForecastInterval /\ heard["forecast"] >= cache.forecastAt
        BY <3>4 DEF ForecastCached, Heard
      <4> QED
        BY <1>1, <3>4, <4>1, Intervals DEF Held
    <3> QED
      BY <2>1, <3>1, <3>2, <3>3, <3>4 DEF Held
  <2>3. \A s \in Sources : heard'[s] \in Nat /\ heard'[s] >= heard[s]
    <3>1. \A s \in Sources : heard[s] <= result.now
      BY <1>1, <2>1 DEF InTime
    <3> QED
      BY <1>1, <2>1, <3>1 DEF Took, Held, Missed
  <2>4. cache'.warningsAt # Never => "warnings" \in Sources /\ heard'["warnings"] >= cache'.warningsAt
    <3>1. CASE cache'.warningsAt = cache.warningsAt
      BY <1>1, <2>3, <3>1 DEF Heard
    <3>2. CASE "warnings" \in Sources /\ Took("warnings") /\ cache'.warningsAt = result.now
      BY <1>1, <3>2 DEF Took
    <3> QED
      BY <1>3, <3>1, <3>2, CacheKept
  <2>5. cache'.forecastAt # Never => "forecast" \in Sources /\ heard'["forecast"] >= cache'.forecastAt
    <3>1. CASE cache'.forecastAt = cache.forecastAt
      BY <1>1, <2>3, <3>1 DEF Heard
    <3>2. CASE "forecast" \in Sources /\ Took("forecast") /\ cache'.forecastAt = result.now
      BY <1>1, <3>2 DEF Took
    <3> QED
      BY <1>3, <3>1, <3>2, CacheKept
  <2>6. pc' = "report" => result'.stale = Staleness(lastOK', result'.now)
    <3>1. CASE AskLocal
      <4> DEFINE ok == [s \in Sources |-> IF s = "local" THEN result.now ELSE lastOK[s]]
                 confirmed ==
                   Configured("local") /\ Confirms(DetectionsSince(result.now - Window), result.strike)
                 level == Tentative([result EXCEPT !.confirmed = confirmed])
                 stale == Staleness(ok, result.now)
      <4>1. /\ lastOK' = ok
            /\ result' = [result EXCEPT !.confirmed = confirmed, !.stale = stale,
                                        !.level = Escalated(level, stale)]
        BY <3>1 DEF AskLocal
      <4> HIDE DEF ok, confirmed, level, stale
      <4>2. result'.stale = stale /\ result'.now = result.now
        BY <4>1 DEF TypeOK, Results
      <4> QED
        BY <4>1, <4>2 DEF stale
    <3>2. CASE AskLightning \/ AskWarnings \/ AskForecast
      BY <3>2 DEF AskLightning, AskWarnings, AskForecast, Goto
    <3> QED
      BY <1>3, <3>1, <3>2 DEF Ask
  <2> QED
    BY <2>2, <2>4, <2>5, <2>6 DEF Heard
<1>4. CASE ReportSteps
  <2>1. UNCHANGED <<lastOK, cache, heard>> /\ pc' # "report"
    BY <1>4, ReportKeeps
  <2> QED
    BY <2>1 DEF Heard
<1>5. CASE Restart
  <2>1. /\ cache'.warningsAt = Never /\ cache'.forecastAt = Never /\ pc' = "idle"
        /\ \A s \in Sources : lastOK'[s] = clock /\ heard'[s] = clock
    BY <1>5 DEF Restart, Goto, EmptyCache
  <2> QED
    BY <1>1, <2>1, Intervals DEF Heard
<1>6. CASE Around \/ UNCHANGED vars
  <2>1. UNCHANGED <<lastOK, cache, pc, result, heard>>
    BY <1>6, AroundKeeps
  <2> QED
    BY <2>1 DEF Heard
<1> QED
  BY <1>2, <1>3, <1>4, <1>5, <1>6, AllSteps

-----------------------------------------------------------------------------
(* Warnings are followed. *)

\* The cached warnings are those of the feed unless it changed since, and an
\* evaluation judges by them.
Followed ==
    /\ pc = "idle" /\ seen = None => cache.warningsAt = Never
    /\ cache.warningsAt # Never =>
          /\ cache.warnings = ActiveWarnings \/ changed >= cache.warningsAt
          /\ pc \in {"lightning", "warnings"} => lastOK["warnings"] < result.now
          /\ pc \in {"forecast", "local", "report"} /\ lastOK["warnings"] = result.now =>
                /\ result.warned = Active(cache.warnings, result.now)
                /\ result.now - cache.warningsAt < WarningsInterval

\* What an evaluation says of warnings is settled after it asked for them.
LEMMA WarnedKept ==
    ASSUME TypeOK, AskForecast \/ AskLocal
    PROVE  result'.warned = result.warned
  BY DEF AskForecast, AskLocal, Unreached, TypeOK, Results

LEMMA FollowedStep == TypeOK /\ InTime /\ Heard /\ Followed /\ [Next]_vars => Followed'
<1> SUFFICES ASSUME TypeOK, InTime, Heard, Followed, [Next]_vars PROVE Followed'
  OBVIOUS
<1>1. /\ clock \in Nat /\ result.now \in Nat /\ cache.warningsAt \in Nat /\ changed \in Nat
      /\ \A s \in Sources : lastOK[s] \in Nat /\ heard[s] \in Nat
      /\ WarningsInterval \in Nat /\ WarningsInterval >= 1
      /\ cache.warningsAt # Never => "warnings" \in Sources
  BY Instants, Settings DEF Heard
<1>2. CASE Begin
  <2>1. /\ pc = "idle" /\ pc' = "lightning" /\ result'.now = clock /\ UNCHANGED <<feed, changed, cache, lastOK, seen>>
        /\ seen # None => clock > seen.now
    BY <1>2, FreshType DEF Begin, Goto, world, TypeOK
  <2>2. ActiveWarnings' = ActiveWarnings
    BY <2>1 DEF ActiveWarnings
  <2>3. ASSUME cache.warningsAt # Never PROVE lastOK["warnings"] < clock
    <3>1. seen # None
      BY <2>1, <2>3 DEF Followed
    <3>2. seen.now \in Nat
      BY <3>1, TimesAre DEF TypeOK, Results
    <3> QED
      BY <1>1, <2>1, <2>3, <3>1, <3>2 DEF InTime
  <2> QED
    BY <2>1, <2>2, <2>3 DEF Followed
<1>3. CASE Ask
  <2>1. /\ result'.now = result.now /\ pc' # "idle" /\ UNCHANGED <<feed, changed>> /\ pc # "idle"
        /\ \A s \in Sources : Took(s) \/ Held(s) \/ Missed(s)
    BY <1>3, AskKeeps DEF Asking
  <2>2. ActiveWarnings' = ActiveWarnings
    BY <2>1 DEF ActiveWarnings
  <2>3. CASE AskLightning
    <3>1. pc = "lightning" /\ pc' = "warnings" /\ UNCHANGED cache
      BY <2>3 DEF AskLightning, Goto, Unreached
    <3>2. lastOK'["warnings"] = lastOK["warnings"] \/ "warnings" \notin Sources
      BY <2>3 DEF AskLightning, Reached, Unreached, TypeOK
    <3> QED
      BY <1>1, <2>1, <2>2, <3>1, <3>2 DEF Followed
  <2>4. CASE AskWarnings
    <3>1. pc = "warnings" /\ pc' = "forecast"
      BY <2>4 DEF AskWarnings, Goto
    <3>2. CASE Configured("warnings") /\ WarningsCached
      <4>1. result' = [result EXCEPT !.warned = Active(cache.warnings, result.now)] /\ UNCHANGED cache
        BY <2>4, <3>2 DEF AskWarnings
      <4>2. result'.warned = Active(cache.warnings, result.now)
        BY <4>1 DEF TypeOK, Results
      <4>3. result.now - cache.warningsAt < WarningsInterval
        BY <3>2 DEF WarningsCached
      <4> QED
        BY <2>1, <2>2, <3>1, <4>1, <4>2, <4>3 DEF Followed
    <3>3. CASE ~(Configured("warnings") /\ WarningsCached) /\ Answers("warnings")
      <4>1. /\ result' = [result EXCEPT !.warned = Active(ActiveWarnings, result.now)]
            /\ cache' = [cache EXCEPT !.warnings = ActiveWarnings, !.warningsAt = result.now]
        BY <2>4, <3>3 DEF AskWarnings
      <4>2. result'.warned = Active(ActiveWarnings, result.now)
        BY <4>1 DEF TypeOK, Results
      <4>3. cache'.warnings = ActiveWarnings /\ cache'.warningsAt = result.now
        BY <4>1 DEF TypeOK, Caches
      <4>4. result.now - result.now < WarningsInterval
        BY <1>1
      <4> QED
        BY <2>1, <2>2, <3>1, <4>2, <4>3, <4>4 DEF Followed
    <3>4. CASE ~(Configured("warnings") /\ WarningsCached) /\ ~Answers("warnings")
      <4>1. UNCHANGED <<lastOK, cache, result>>
        BY <2>4, <3>4 DEF AskWarnings, WarningsFailed, Unreached
      <4>2. cache.warningsAt # Never => lastOK["warnings"] # result.now
        BY <1>1, <3>1 DEF Followed
      <4> QED
        BY <2>1, <2>2, <3>1, <4>1, <4>2 DEF Followed
    <3> QED
      BY <3>2, <3>3, <3>4
  <2>5. CASE AskForecast \/ AskLocal
    <3>1. pc \in {"forecast", "local"} /\ pc' \in {"local", "report"} /\ result'.warned = result.warned
      BY <2>5, WarnedKept DEF AskForecast, AskLocal, Goto
    <3>2. cache'.warnings = cache.warnings /\ cache'.warningsAt = cache.warningsAt
      BY <1>3, <3>1, CacheKept DEF AskWarnings
    <3>3. lastOK'["warnings"] = lastOK["warnings"] \/ "warnings" \notin Sources
      BY <2>5 DEF AskForecast, AskLocal, Reached, Reused, Unreached, TypeOK
    <3> QED
      BY <1>1, <2>1, <2>2, <3>1, <3>2, <3>3 DEF Followed
  <2> QED
    BY <1>3, <2>3, <2>4, <2>5 DEF Ask
<1>4. CASE ReportSteps
  <2>1. UNCHANGED <<feed, changed, lastOK, cache, result>> /\ (pc' = "idle" => seen' = result)
        /\ pc' \notin {"lightning", "warnings", "forecast", "local", "report"}
    BY <1>4, ReportKeeps
  <2>2. result # None
    BY ResultsAssumption DEF TypeOK
  <2>3. ActiveWarnings' = ActiveWarnings
    BY <2>1 DEF ActiveWarnings
  <2> QED
    BY <2>1, <2>2, <2>3 DEF Followed
<1>5. CASE Restart
  <2>1. cache'.warningsAt = Never
    BY <1>5 DEF Restart, EmptyCache
  <2> QED
    BY <2>1 DEF Followed
<1>6. CASE Around \/ UNCHANGED vars
  <2>1. UNCHANGED <<lastOK, cache, pc, result, seen>>
    BY <1>6, AroundKeeps
  <2>2. (feed' = feed /\ changed' = changed) \/ changed' = clock
    BY <1>6 DEF Around, Advance, FeedChanges, Outage, Record, vars, world
  <2>3. CASE feed' = feed /\ changed' = changed
    <3>1. ActiveWarnings' = ActiveWarnings
      BY <2>3 DEF ActiveWarnings
    <3> QED
      BY <2>1, <2>3, <3>1 DEF Followed
  <2>4. CASE changed' = clock
    BY <2>1, <2>4 DEF Followed, InTime
  <2> QED
    BY <2>2, <2>3, <2>4
<1> QED
  BY <1>2, <1>3, <1>4, <1>5, <1>6, AllSteps

WarnInv == TypeOK /\ InTime /\ Heard /\ Followed

LEMMA AlwaysFollowed == Spec => []WarnInv
<1>1. Init => WarnInv
  <2> SUFFICES ASSUME Init PROVE InTime /\ Heard /\ Followed
    BY InitTyped DEF WarnInv
  <2>1. result.now = 1 /\ clock = 1 /\ changed = 0 /\ cache.warningsAt = 0 /\ cache.forecastAt = 0
        /\ pc = "idle" /\ seen = None /\ \A s \in Sources : lastOK[s] = 1 /\ heard[s] = 1
    BY DEF Init, Fresh, EmptyCache, Never
  <2> QED
    BY <2>1, Intervals DEF InTime, Heard, Followed, Never, Asking
<1>2. WarnInv /\ [Next]_vars => WarnInv'
  BY StepTyped, InTimeStep, HeardStep, FollowedStep DEF WarnInv
<1> QED
  BY <1>1, <1>2, PTL DEF Spec

\* A source that no evaluation has reached for longer than StaleAfter is reported
\* as stale, at the latest an interval of its cache later, and no other source is.
THEOREM NoSilenceIsMissed == Spec => []SilenceNoticed
<1>1. WarnInv => SilenceNoticed
  <2> SUFFICES ASSUME WarnInv, pc = "report", StaleAfter > 0, NEW s \in Sources
               PROVE  IF s \in result.stale
                      THEN result.now - heard[s] > StaleAfter
                      ELSE result.now - heard[s] <= StaleAfter + Interval(s)
    BY DEF SilenceNoticed
  <2>1. /\ result.now \in Nat /\ lastOK[s] \in Nat /\ heard[s] \in Nat /\ StaleAfter \in Nat /\ Interval(s) \in Nat
    BY Instants, Intervals, Settings DEF WarnInv
  <2>2. s \in result.stale <=> result.now - lastOK[s] > StaleAfter
    BY DEF WarnInv, Heard, Staleness
  <2>3. heard[s] <= lastOK[s] /\ lastOK[s] - heard[s] <= Interval(s)
    BY DEF WarnInv, Heard, InTime
  <2> QED
    BY <2>1, <2>2, <2>3
<1> QED
  BY <1>1, AlwaysFollowed, PTL

\* Whatever changes, expires or stops answering, an evaluation that has an answer
\* warns of a thunderstorm just when the feed does, a cache's interval after the
\* feed's last change.
THEOREM FeedIsFollowed == Spec => []WarningFollowed
<1>1. WarnInv => WarningFollowed
  <2> SUFFICES ASSUME WarnInv, pc = "report", lastOK["warnings"] = result.now, cache.warningsAt # Never,
                      changed = Never \/ result.now >= changed + WarningsInterval
               PROVE  result.warned = Announced
    BY DEF WarningFollowed
  <2>1. /\ result.now \in Nat /\ result.now >= 1 /\ changed \in Nat /\ cache.warningsAt \in Nat
        /\ WarningsInterval \in Nat
    BY Instants, Settings DEF WarnInv
  <2>2. result.warned = Active(cache.warnings, result.now) /\ result.now - cache.warningsAt < WarningsInterval
    BY DEF WarnInv, Followed
  <2>3. cache.warnings = ActiveWarnings
    <3>1. ~(changed >= cache.warningsAt)
      BY <2>1, <2>2 DEF Never
    <3> QED
      BY <3>1 DEF WarnInv, Followed
  <2>4. Active(ActiveWarnings, result.now) <=> Announced
    <3>1. feed \subseteq Entries
      BY WeatherAssumption DEF WarnInv, TypeOK, WeatherAssumption
    <3>2. \A w \in Entries :
            LET a == [w EXCEPT !.expires = IF @ = None THEN Never ELSE @]
            IN  /\ a.thunder = w.thunder /\ a.color = w.color
                /\ a.expires = IF w.expires = None THEN Never ELSE w.expires
      BY DEF Entries
    <3>3. ~(Never >= result.now)
      BY <2>1 DEF Never
    <3>4. ASSUME Announced PROVE Active(ActiveWarnings, result.now)
      <4>1. PICK w \in feed : w.thunder /\ w.color = "orange" /\ w.expires # None /\ w.expires >= result.now
        BY <3>4 DEF Announced
      <4> DEFINE a == [w EXCEPT !.expires = IF @ = None THEN Never ELSE @]
      <4>2. a \in ActiveWarnings
        BY DEF ActiveWarnings
      <4>3. a.thunder = w.thunder /\ a.color = w.color /\ a.expires = w.expires
        BY <3>1, <3>2, <4>1
      <4> HIDE DEF a
      <4> QED
        BY <4>1, <4>2, <4>3 DEF Active, IsThunderstorm, SeriousColor
    <3>5. ASSUME Active(ActiveWarnings, result.now) PROVE Announced
      <4>1. PICK a \in ActiveWarnings : a.thunder /\ a.color = "orange" /\ a.expires >= result.now
        BY <3>5 DEF Active, IsThunderstorm, SeriousColor
      <4>2. PICK w \in feed : a = [w EXCEPT !.expires = IF @ = None THEN Never ELSE @]
        BY DEF ActiveWarnings
      <4>3. /\ a.thunder = w.thunder /\ a.color = w.color
            /\ a.expires = IF w.expires = None THEN Never ELSE w.expires
        BY <3>1, <3>2, <4>2
      <4>4. w.expires # None
        BY <3>3, <4>1, <4>3
      <4> QED
        BY <4>1, <4>3, <4>4 DEF Announced
    <3> QED
      BY <3>4, <3>5
  <2>5. result.warned \in BOOLEAN /\ Announced \in BOOLEAN
    BY ResultTypes DEF WarnInv, TypeOK, Announced
  <2> QED
    BY <2>2, <2>3, <2>4, <2>5
<1> QED
  BY <1>1, AlwaysFollowed, PTL

-----------------------------------------------------------------------------
(* What people know. *)

Agree(a, b) == a = b \/ (a < Warning /\ b < Warning)

\* People know the level that is stored, or that is about to be.
Told ==
    told.level # None =>
        /\ pc # "remember" => Agree(told.level, stored.level)
        /\ pc \in {"remember", "stale"} => Agree(told.level, result.level)

\* And whether they were told of stale data, unless that is about to be stored.
ToldStale ==
    /\ pc # "rememberStale" /\ told.stale = TRUE => stored.stale
    /\ pc # "rememberStale" /\ told.stale = FALSE => ~stored.stale
    /\ pc = "rememberStale" => told.stale # FALSE

ToldInv == TypeOK /\ Told /\ ToldStale

LEMMA LevelsApart == None \notin Levels /\ Levels \subseteq Nat /\ None # TRUE /\ None # FALSE
<1>1. Levels \subseteq Nat
  BY DEF Levels, Normal, Danger
<1>2. None \notin Levels
  BY <1>1, Settings
<1>3. None # TRUE /\ None # FALSE
  BY Settings, Zenon
<1> QED
  BY <1>1, <1>2, <1>3

LEMMA ToldStep == TypeOK /\ Told /\ [Next]_vars => Told'
<1> SUFFICES ASSUME TypeOK, Told, [Next]_vars PROVE Told'
  OBVIOUS
<1>1. /\ told.level \in Levels \cup {None} /\ stored.level \in Levels /\ result.level \in Levels
      /\ told \in [level : Levels \cup {None}, stale : BOOLEAN \cup {None}]
      /\ stored \in [level : Levels, stale : BOOLEAN]
  BY ResultTypes DEF TypeOK
<1>2. CASE Begin
  BY <1>2 DEF Begin, Goto, Told
<1>3. CASE Ask
  <2>1. /\ UNCHANGED <<stored, told>> /\ pc \in Asking /\ pc' \in {"warnings", "forecast", "local", "report"}
    BY <1>3, AskKeeps
  <2> QED
    BY <2>1 DEF Told, Asking
<1>4. CASE LoadFails
  BY <1>4 DEF LoadFails, Done, Goto, Told
<1>5. CASE Report
  <2>1. pc = "report" /\ UNCHANGED <<stored, result>>
    BY <1>5 DEF Report
  <2>2. CASE result.level = stored.level
    BY <1>5, <2>1, <2>2 DEF Report, Goto, Told
  <2>3. CASE result.level # stored.level
    <3>1. pc' = "remember"
      BY <1>5, <2>3 DEF Report, Goto
    <3>2. CASE WorthTelling(stored.level, result.level)
      <4>1. told'.level = result.level \/ told'.level = None
        BY <1>1, <1>5, <2>3, <3>2 DEF Report, Notify
      <4> QED
        BY <2>1, <3>1, <4>1 DEF Told, Agree
    <3>3. CASE ~WorthTelling(stored.level, result.level)
      <4>1. told' = told
        BY <1>5, <2>3, <3>3 DEF Report
      <4>2. stored.level < Warning /\ result.level < Warning
        <5>1. stored.level \in Nat /\ result.level \in Nat
          BY <1>1, LevelsApart
        <5> QED
          BY <3>3, <5>1 DEF WorthTelling, Warning
      <4> QED
        BY <2>1, <3>1, <4>1, <4>2 DEF Told, Agree
    <3> QED
      BY <3>2, <3>3
  <2> QED
    BY <2>2, <2>3
<1>6. CASE Remember
  <2>1. pc = "remember" /\ pc' = "stale" /\ UNCHANGED result
    BY <1>6 DEF Remember, Goto
  <2>2. CASE stored' = [stored EXCEPT !.level = result.level] /\ UNCHANGED told
    <3>1. stored'.level = result.level
      BY <1>1, <2>2
    <3> QED
      BY <2>1, <2>2, <3>1 DEF Told
  <2>3. CASE told' = [told EXCEPT !.level = None]
    BY <1>1, <2>3 DEF Told
  <2> QED
    BY <1>6, <2>2, <2>3 DEF Remember
<1>7. CASE ReportStale \/ RememberStale
  <2>1. /\ pc \in {"stale", "rememberStale"} /\ pc' \in {"idle", "rememberStale"}
        /\ told'.level = told.level /\ stored'.level = stored.level /\ UNCHANGED result
    <3>1. /\ pc \in {"stale", "rememberStale"} /\ pc' \in {"idle", "rememberStale"} /\ UNCHANGED result
      BY <1>7 DEF ReportStale, RememberStale, Done, Goto
    <3>2. told'.level = told.level
      BY <1>1, <1>7 DEF ReportStale, RememberStale, Notify
    <3>3. stored'.level = stored.level
      BY <1>1, <1>7 DEF ReportStale, RememberStale, MarkStale
    <3> QED
      BY <3>1, <3>2, <3>3
  <2> QED
    BY <2>1 DEF Told
<1>8. CASE Restart
  <2>1. pc' = "idle" /\ UNCHANGED stored /\ told'.level = IF pc = "remember" THEN None ELSE told.level
    BY <1>8 DEF Restart, Goto
  <2> QED
    BY <2>1 DEF Told
<1>9. CASE Around \/ UNCHANGED vars
  BY <1>9, AroundKeeps DEF Told
<1> QED
  BY <1>2, <1>3, <1>4, <1>5, <1>6, <1>7, <1>8, <1>9, AllSteps DEF ReportSteps

LEMMA ToldStaleStep == TypeOK /\ ToldStale /\ [Next]_vars => ToldStale'
<1> SUFFICES ASSUME TypeOK, ToldStale, [Next]_vars PROVE ToldStale'
  OBVIOUS
<1>1. /\ told \in [level : Levels \cup {None}, stale : BOOLEAN \cup {None}]
      /\ stored \in [level : Levels, stale : BOOLEAN]
      /\ None # TRUE /\ None # FALSE
  BY LevelsApart DEF TypeOK
<1>2. CASE Begin
  BY <1>2 DEF Begin, Goto, ToldStale
<1>3. CASE Ask
  <2>1. /\ UNCHANGED <<stored, told>> /\ pc \in Asking /\ pc' \in {"warnings", "forecast", "local", "report"}
    BY <1>3, AskKeeps
  <2> QED
    BY <2>1 DEF ToldStale, Asking
<1>4. CASE LoadFails
  BY <1>4 DEF LoadFails, Done, Goto, ToldStale
<1>5. CASE Report \/ Remember
  <2>1. pc \in {"report", "remember"} /\ pc' \in {"remember", "stale"}
    BY <1>5 DEF Report, Remember, Goto
  <2>2. told'.stale = told.stale
    BY <1>1, <1>5 DEF Report, Remember, Notify
  <2>3. stored'.stale = stored.stale
    BY <1>1, <1>5 DEF Report, Remember
  <2> QED
    BY <2>1, <2>2, <2>3 DEF ToldStale
<1>6. CASE ReportStale
  <2>1. CASE ShouldNotify /\ ~stored.stale
    <3>1. pc' = "rememberStale" /\ (told'.stale = TRUE \/ told'.stale = None)
      BY <1>1, <1>6, <2>1 DEF ReportStale, Notify, Goto
    <3> QED
      BY <1>1, <3>1 DEF ToldStale
  <2>2. CASE ~ShouldNotify
    <3>1. pc' = "idle"
      BY <1>6, <2>2 DEF ReportStale, Done, Goto
    <3>2. (stored'.stale = FALSE /\ told'.stale = FALSE) \/ told'.stale = None
      BY <1>1, <1>6, <2>2 DEF ReportStale
    <3> QED
      BY <1>1, <3>1, <3>2 DEF ToldStale
  <2>3. CASE ShouldNotify /\ stored.stale
    <3>1. pc = "stale" /\ pc' = "idle" /\ UNCHANGED <<stored, told>>
      BY <1>6, <2>3 DEF ReportStale, Done, Goto
    <3> QED
      BY <3>1 DEF ToldStale
  <2> QED
    BY <2>1, <2>2, <2>3
<1>7. CASE RememberStale
  <2>1. pc = "rememberStale" /\ pc' = "idle"
    BY <1>7 DEF RememberStale, Done, Goto
  <2>2. (stored'.stale = TRUE /\ told' = told) \/ told'.stale = None
    BY <1>1, <1>7 DEF RememberStale, MarkStale
  <2> QED
    BY <1>1, <2>1, <2>2 DEF ToldStale
<1>8. CASE Restart
  <2>1. pc' = "idle" /\ UNCHANGED stored /\ told'.stale = IF pc = "rememberStale" THEN None ELSE told.stale
    BY <1>8 DEF Restart, Goto
  <2> QED
    BY <1>1, <2>1 DEF ToldStale
<1>9. CASE Around \/ UNCHANGED vars
  BY <1>9, AroundKeeps DEF ToldStale
<1> QED
  BY <1>2, <1>3, <1>4, <1>5, <1>6, <1>7, <1>8, <1>9, AllSteps DEF ReportSteps

LEMMA AlwaysTold == Spec => []ToldInv
<1>1. Init => ToldInv
  <2> SUFFICES ASSUME Init PROVE Told /\ ToldStale
    BY InitTyped DEF ToldInv
  <2> QED
    BY DEF Init, Told, ToldStale, Agree
<1>2. ToldInv /\ [Next]_vars => ToldInv'
  BY StepTyped, ToldStep, ToldStaleStep DEF ToldInv
<1> QED
  BY <1>1, <1>2, PTL DEF Spec

\* After a tick has compared its level with the stored one, people know a Warning
\* or a Danger for what it is and know when there is none, whatever notices were
\* lost and writes failed before, unless it is what they were told last that was.
THEOREM PeopleKnow == Spec => []LevelTold
<1>1. ToldInv => LevelTold
  BY DEF ToldInv, Told, Agree, LevelTold
<1> QED
  BY <1>1, AlwaysTold, PTL

\* Stale data is told once per episode, across ticks, restarts and failures.
THEOREM StaleIsToldOnce == Spec => StaleToldOnce
<1>1. ToldInv /\ [Next]_vars =>
        [ReportStale => /\ ShouldNotify => told'.stale # FALSE
                        /\ pc' = "rememberStale" => told.stale # TRUE]_vars
  <2> SUFFICES ASSUME ToldInv, ReportStale
               PROVE  /\ ShouldNotify => told'.stale # FALSE
                      /\ pc' = "rememberStale" => told.stale # TRUE
    OBVIOUS
  <2>1. /\ told \in [level : Levels \cup {None}, stale : BOOLEAN \cup {None}]
        /\ stored.stale \in BOOLEAN /\ None # TRUE /\ None # FALSE /\ pc = "stale"
    BY LevelsApart DEF ToldInv, TypeOK, ReportStale
  <2>2. CASE ShouldNotify /\ ~stored.stale
    <3>1. told'.stale = TRUE \/ told'.stale = None
      BY <2>1, <2>2 DEF ReportStale, Notify
    <3>2. told.stale # TRUE
      BY <2>1, <2>2 DEF ToldInv, ToldStale
    <3> QED
      BY <2>1, <3>1, <3>2
  <2>3. CASE ~ShouldNotify
    <3>1. pc' = "idle"
      BY <2>3 DEF ReportStale, Done, Goto
    <3> QED
      BY <2>3, <3>1
  <2>4. CASE ShouldNotify /\ stored.stale
    <3>1. pc' = "idle" /\ told' = told
      BY <2>4 DEF ReportStale, Done, Goto
    <3> QED
      BY <2>1, <2>4, <3>1 DEF ToldInv, ToldStale
  <2> QED
    BY <2>2, <2>3, <2>4
<1> QED
  BY <1>1, AlwaysTold, PTL DEF Spec, StaleToldOnce

-----------------------------------------------------------------------------
(* Corroboration *)

Ordered ==
    /\ \A i \in DOMAIN strokes : strokes[i] <= clock
    /\ \A i, j \in DOMAIN strokes : i <= j => strokes[i] <= strokes[j]

\* The watcher has the latest detections; those it dropped are older than it
\* retains them, however long the window is.
Dropped(n) ==
    /\ Len(detections) = Len(strokes) - n
    /\ \A i \in DOMAIN detections : detections[i] = strokes[n + i]
    /\ \A i \in 1..n : strokes[i] < clock - Retain

Remaining == Ordered /\ \E n \in 0..Len(strokes) : Dropped(n)

LEMMA Lengths ==
    ASSUME TypeOK
    PROVE  /\ DOMAIN strokes = 1..Len(strokes) /\ Len(strokes) \in Nat
           /\ DOMAIN detections = 1..Len(detections) /\ Len(detections) \in Nat
           /\ \A i \in DOMAIN strokes : strokes[i] \in Nat
           /\ \A i \in DOMAIN detections : detections[i] \in Nat
<1>1. strokes \in Seq(Times) /\ detections \in Seq(Times)
  BY DEF TypeOK
<1>2. \A i \in DOMAIN strokes : strokes[i] \in Times
  BY <1>1
<1>3. \A i \in DOMAIN detections : detections[i] \in Times
  BY <1>1
<1>4. /\ DOMAIN strokes = 1..Len(strokes) /\ Len(strokes) \in Nat
      /\ DOMAIN detections = 1..Len(detections) /\ Len(detections) \in Nat
  BY <1>1
<1> QED
  BY <1>2, <1>3, <1>4, TimesAre

LEMMA RemainingStep == TypeOK /\ Remaining /\ [Next]_vars => Remaining'
<1> SUFFICES ASSUME TypeOK, Remaining, [Next]_vars PROVE Remaining'
  OBVIOUS
<1>1. /\ DOMAIN strokes = 1..Len(strokes) /\ Len(strokes) \in Nat
      /\ DOMAIN detections = 1..Len(detections) /\ Len(detections) \in Nat
      /\ \A i \in DOMAIN strokes : strokes[i] \in Nat
      /\ clock \in Nat /\ Retain \in Nat
  BY Lengths, Instants, Settings
<1>2. PICK n \in 0..Len(strokes) : Dropped(n)
  BY DEF Remaining
<1>3. CASE Record
  <2> DEFINE all == Append(detections, clock)
  <2>1. PICK first \in DOMAIN all :
           /\ Kept(all[first]) /\ \A i \in 1..first - 1 : ~Kept(all[i])
           /\ detections' = SubSeq(all, first, Len(all))
    BY <1>3 DEF Record
  <2>2. strokes' = Append(strokes, clock) /\ clock' = clock
    BY <1>3 DEF Record, world
  <2>3. /\ Len(strokes') = Len(strokes) + 1 /\ DOMAIN strokes' = 1..Len(strokes) + 1
        /\ \A i \in 1..Len(strokes) : strokes'[i] = strokes[i]
        /\ strokes'[Len(strokes) + 1] = clock
    BY <2>2 DEF TypeOK
  <2>4. /\ Len(all) = Len(detections) + 1 /\ DOMAIN all = 1..Len(detections) + 1
        /\ \A i \in 1..Len(detections) : all[i] = detections[i]
        /\ all[Len(detections) + 1] = clock
    BY DEF TypeOK
  <2>5. all \in Seq(Times) /\ \A i \in DOMAIN all : all[i] \in Nat
    <3>1. all \in Seq(Times)
      BY DEF TypeOK
    <3> HIDE DEF all
    <3>2. \A i \in DOMAIN all : all[i] \in Times
      BY <3>1
    <3> QED
      BY <3>1, <3>2, TimesAre
  <2> HIDE DEF all
  <2>6. /\ Len(detections') = Len(all) - first + 1 /\ DOMAIN detections' = 1..Len(all) - first + 1
        /\ \A i \in 1..Len(all) - first + 1 : detections'[i] = all[first + i - 1]
    BY <1>1, <2>1, <2>4, <2>5
  <2>7. Ordered'
    <3>1. \A i \in DOMAIN strokes' : strokes'[i] <= clock
      BY <1>1, <2>3 DEF Remaining, Ordered
    <3>2. ASSUME NEW i \in DOMAIN strokes', NEW j \in DOMAIN strokes', i <= j PROVE strokes'[i] <= strokes'[j]
      <4>1. CASE j = Len(strokes) + 1
        BY <2>3, <3>1, <4>1
      <4>2. CASE j # Len(strokes) + 1
        BY <1>1, <2>3, <3>2, <4>2 DEF Remaining, Ordered
      <4> QED
        BY <4>1, <4>2
    <3> QED
      BY <2>2, <3>1, <3>2 DEF Ordered
  <2>8. \A i \in DOMAIN all : all[i] = strokes'[n + i]
    <3> SUFFICES ASSUME NEW i \in DOMAIN all PROVE all[i] = strokes'[n + i]
      OBVIOUS
    <3>1. CASE i = Len(detections) + 1
      BY <1>1, <1>2, <2>3, <2>4, <3>1 DEF Dropped
    <3>2. CASE i \in 1..Len(detections)
      <4>1. n + i \in 1..Len(strokes) /\ all[i] = detections[i] /\ detections[i] = strokes[n + i]
        BY <1>1, <1>2, <2>4, <3>2 DEF Dropped
      <4> QED
        BY <2>3, <4>1
    <3> QED
      BY <1>1, <2>4, <3>1, <3>2
  <2> DEFINE m == n + first - 1
  <2>9. /\ m \in 0..Len(strokes') /\ Len(detections') = Len(strokes') - m
        /\ first \in Nat /\ m = n + first - 1 /\ n \in Nat /\ m \in Nat
    <3>1. Len(detections) = Len(strokes) - n /\ n \in 0..Len(strokes)
      BY <1>2 DEF Dropped
    <3>2. Len(strokes') = Len(strokes) + 1 /\ Len(strokes) \in Nat
      BY <1>1, <2>3
    <3>3. Len(detections') = Len(detections) + 1 - first + 1 /\ first \in 1..Len(detections) + 1
      BY <1>1, <2>1, <2>4, <2>6
    <3> QED
      BY <3>1, <3>2, <3>3
  <2> HIDE DEF m
  <2>10. ASSUME NEW i \in DOMAIN detections' PROVE detections'[i] = strokes'[m + i]
    <3>1. first + i - 1 \in DOMAIN all /\ n + (first + i - 1) = m + i
      <4>1. i \in 1..(Len(all) - first + 1) /\ first \in Nat /\ first >= 1
        BY <2>1, <2>4, <2>6, <2>9
      <4>2. DOMAIN all = 1..Len(all) /\ Len(all) \in Nat /\ m = n + first - 1 /\ n \in Nat
        BY <1>1, <2>4, <2>9
      <4> QED
        BY <4>1, <4>2
    <3> QED
      BY <2>6, <2>8, <3>1
  <2>11. ASSUME NEW i \in 1..m PROVE strokes'[i] < clock - Retain
    <3>1. CASE i \in 1..n
      BY <1>1, <1>2, <2>3, <3>1 DEF Dropped
    <3>2. CASE i \notin 1..n
      <4>1. i - n \in 1..first - 1 /\ i - n \in DOMAIN all /\ n + (i - n) = i
        BY <1>1, <2>4, <2>9, <3>2
      <4>2. ~Kept(all[i - n])
        BY <2>1, <4>1
      <4>3. strokes'[i] = all[i - n] /\ all[i - n] \in Nat
        BY <2>5, <2>8, <4>1
      <4> QED
        BY <1>1, <4>2, <4>3 DEF Kept
    <3> QED
      BY <3>1, <3>2
  <2>12. Dropped(m)'
    BY <2>2, <2>9, <2>10, <2>11 DEF Dropped
  <2> QED
    BY <2>7, <2>9, <2>12 DEF Remaining
<1>4. CASE Restart
  <2>1. detections' = <<>> /\ strokes' = <<>>
    BY <1>4 DEF Restart
  <2>2. Ordered' /\ Dropped(0)' /\ Len(strokes') = 0
    BY <2>1 DEF Ordered, Dropped
  <2> QED
    BY <2>2 DEF Remaining
<1>5. ASSUME UNCHANGED <<detections, strokes>>, clock' \in Nat, clock <= clock'
      PROVE  Remaining'
  <2>1. Ordered'
    BY <1>1, <1>5 DEF Remaining, Ordered
  <2>2. Dropped(n)'
    <3>1. \A i \in 1..n : strokes[i] \in Nat /\ strokes[i] < clock - Retain
      BY <1>1, <1>2 DEF Dropped
    <3>2. \A i \in 1..n : strokes'[i] < clock' - Retain
      <4>1. ASSUME NEW i \in 1..n PROVE strokes[i] < clock' - Retain
        <5>1. strokes[i] \in Nat /\ strokes[i] < clock - Retain
          BY <3>1
        <5> QED
          BY <1>1, <1>5, <5>1
      <4> QED
        BY <1>5, <4>1
    <3>3. /\ Len(detections') = Len(strokes') - n
          /\ \A i \in DOMAIN detections' : detections'[i] = strokes'[n + i]
      BY <1>2, <1>5 DEF Dropped
    <3> QED
      BY <3>2, <3>3 DEF Dropped
  <2> QED
    BY <1>5, <2>1, <2>2 DEF Remaining
<1>6. CASE Begin \/ FeedChanges \/ Outage \/ UNCHANGED vars
  BY <1>1, <1>5, <1>6 DEF Begin, FeedChanges, Outage, vars, world, watch
<1>7. CASE Ask
  BY <1>1, <1>5, <1>7, AskKeeps
<1>8. CASE ReportSteps
  BY <1>1, <1>5, <1>8, ReportKeeps
<1>9. CASE Advance
  <2>1. UNCHANGED <<detections, strokes>> /\ clock' = clock + 1
    BY <1>9 DEF Advance, watch
  <2> QED
    BY <1>1, <1>5, <2>1
<1> QED
  BY <1>3, <1>4, <1>6, <1>7, <1>8, <1>9, NextIs DEF WorldSteps

PairInv == TypeOK /\ Remaining

LEMMA AlwaysRemaining == Spec => []PairInv
<1>1. Init => PairInv
  <2> SUFFICES ASSUME Init PROVE Remaining
    BY InitTyped DEF PairInv
  <2>1. Ordered /\ Dropped(0) /\ 0 \in 0..Len(strokes)
    BY DEF Init, Ordered, Dropped
  <2> QED
    BY <2>1 DEF Remaining
<1>2. PairInv /\ [Next]_vars => PairInv'
  BY StepTyped, RemainingStep DEF PairInv
<1> QED
  BY <1>1, <1>2, PTL DEF Spec

\* The goroutine that records detections may run at any moment of an evaluation
\* and drops old ones; for any two durations a Danger is made only of a pair of
\* detections within the window, and of each of them that the watcher retains.
THEOREM PairsConfirmed == Spec => PairConfirmed
<1>1. PairInv /\ [Next]_vars =>
        [AskLocal /\ Configured("local") /\ ~Within(result.strike, DangerRadius) =>
            /\ result'.confirmed => \E i, j \in DOMAIN strokes : Pair(i, j)
            /\ \A i, j \in DOMAIN strokes :
                  Pair(i, j) /\ strokes[i] >= clock - Retain => result'.confirmed]_vars
  <2> DEFINE since == result.now - Window
             dets == DetectionsSince(since)
  <2> SUFFICES ASSUME PairInv, AskLocal, Configured("local"), ~Within(result.strike, DangerRadius)
               PROVE  /\ result'.confirmed => \E i, j \in DOMAIN strokes : Pair(i, j)
                      /\ \A i, j \in DOMAIN strokes :
                            Pair(i, j) /\ strokes[i] >= clock - Retain => result'.confirmed
    OBVIOUS
  <2>1. /\ DOMAIN strokes = 1..Len(strokes) /\ Len(strokes) \in Nat
        /\ DOMAIN detections = 1..Len(detections) /\ Len(detections) \in Nat
        /\ \A i \in DOMAIN strokes : strokes[i] \in Nat
        /\ \A i \in DOMAIN detections : detections[i] \in Nat
        /\ clock \in Nat /\ Retain \in Nat /\ Window \in Nat /\ result.now \in Nat
    BY Lengths, Instants, Settings DEF PairInv
  <2>2. PICK n \in 0..Len(strokes) : Dropped(n)
    BY DEF PairInv, Remaining
  <2>3. result'.confirmed = Confirms(dets, result.strike)
    <3> DEFINE confirmed == Configured("local") /\ Confirms(dets, result.strike)
               ok == [s \in Sources |-> IF s = "local" THEN result.now ELSE lastOK[s]]
               level == Tentative([result EXCEPT !.confirmed = confirmed])
               stale == Staleness(ok, result.now)
    <3>1. result' = [result EXCEPT !.confirmed = confirmed, !.stale = stale, !.level = Escalated(level, stale)]
      BY DEF AskLocal
    <3>2. confirmed = Confirms(dets, result.strike)
      BY DEF Confirms
    <3> HIDE DEF confirmed, level, stale
    <3>3. result'.confirmed = confirmed
      BY <3>1 DEF PairInv, TypeOK, Results
    <3> QED
      BY <3>2, <3>3
  <2>4. Confirms(dets, result.strike) <=> \E i, j \in dets : i < j /\ detections[j] - detections[i] <= Window
    BY DEF Confirms
  <2>5. \A i : i \in dets <=> i \in DOMAIN detections /\ detections[i] >= since
    BY DEF DetectionsSince
  <2> HIDE DEF dets
  <2>6. ASSUME NEW i \in dets, NEW j \in dets, i < j, detections[j] - detections[i] <= Window
        PROVE  \E k, l \in DOMAIN strokes : Pair(k, l)
    <3>1. i \in DOMAIN detections /\ j \in DOMAIN detections /\ detections[i] >= since
      BY <2>5
    <3>2. n + i \in DOMAIN strokes /\ n + j \in DOMAIN strokes /\ n + i < n + j
      <4>1. Len(detections) = Len(strokes) - n /\ n \in 0..Len(strokes)
        BY <2>2 DEF Dropped
      <4>2. i \in 1..Len(detections) /\ j \in 1..Len(detections) /\ i < j
        BY <2>1, <2>6, <3>1
      <4> QED
        BY <2>1, <4>1, <4>2
    <3>3. detections[i] = strokes[n + i] /\ detections[j] = strokes[n + j]
      BY <2>2, <3>1 DEF Dropped
    <3> QED
      BY <2>6, <3>1, <3>2, <3>3 DEF Pair
  <2>7. ASSUME NEW i \in DOMAIN strokes, NEW j \in DOMAIN strokes, Pair(i, j), strokes[i] >= clock - Retain
        PROVE  \E k, l \in dets : k < l /\ detections[l] - detections[k] <= Window
    <3>1. strokes[i] <= strokes[j] /\ strokes[j] >= since
      BY <2>1, <2>7 DEF PairInv, Remaining, Ordered, Pair
    <3>2. ~(strokes[i] < clock - Retain)
      BY <2>1, <2>7
    <3>3. i - n \in DOMAIN detections /\ j - n \in DOMAIN detections /\ i - n < j - n
          /\ n + (i - n) = i /\ n + (j - n) = j
      <4>1. i \notin 1..n /\ Len(detections) = Len(strokes) - n
        BY <2>2, <3>2 DEF Dropped
      <4>2. i \in 1..Len(strokes) /\ j \in 1..Len(strokes) /\ n \in Nat
        BY <2>1, <2>2
      <4>3. i \in Nat /\ j \in Nat /\ i > n
        BY <4>1, <4>2
      <4>4. i < j /\ DOMAIN detections = 1..Len(detections) /\ Len(strokes) \in Nat
        BY <2>1, <2>7 DEF Pair
      <4>5. i - n \in 1..Len(strokes) - n /\ j - n \in 1..Len(strokes) - n /\ i - n < j - n
        BY <4>2, <4>3, <4>4
      <4>6. n + (i - n) = i /\ n + (j - n) = j
        BY <4>2, <4>3
      <4> QED
        BY <4>1, <4>4, <4>5, <4>6
    <3>4. detections[i - n] = strokes[i] /\ detections[j - n] = strokes[j]
      BY <2>2, <3>3 DEF Dropped
    <3>5. i - n \in dets /\ j - n \in dets
      BY <2>5, <2>7, <3>1, <3>3, <3>4 DEF Pair
    <3> QED
      BY <2>7, <3>3, <3>4, <3>5 DEF Pair
  <2> QED
    BY <2>3, <2>4, <2>6, <2>7
<1> QED
  BY <1>1, AlwaysRemaining, PTL DEF Spec, PairConfirmed
==============================================================================
