----------------------------- MODULE WebActions -----------------------------
(***************************************************************************)
(* The power actions of the web server (internal/web/handlers_actions.go): *)
(* what each handler writes into the overrides table and, for a vacation,  *)
(* into the state table, and what the timeline (timeline.go) makes of the  *)
(* rows.  Handlers run concurrently; those that write more than once can   *)
(* be overtaken by others and can fail or die half-way.  What the engine   *)
(* does under the overrides is in modules HostPower and GuestTick; that    *)
(* the session may act at all is in module Accounts.                       *)
(***************************************************************************)
EXTENDS Overrides, Schedule

CONSTANTS
    Guests,         \* the configured guests
    Position,       \* where each of them stands in the configuration
    AlwaysOn,       \* those that labpower must never touch
    HostSchedule,   \* the host's schedule
    GuestSchedule,  \* and each guest's
    Handlers,       \* requests that take several writes, at the same time
    Ends,           \* dates that people enter
    Horizon,        \* how far ahead a boundary is looked for, 8 days in the code
    MaxIgnore,      \* maxIgnoreWeatherMinutes
    FirstTime,      \* the first instant
    MaxTime,        \* and the last
    MaxRows,        \* overrides created in one behaviour
    MaxFaults       \* requests that fail half-way in one behaviour

\* The guests that knownGuest accepts.
Managed == Guests \ AlwaysOn
AllTargets == {"host"} \cup Managed

\* Boundaries are looked for within the calendar, from its second day on.  Days
\* begin, and schedules turn on and off, at whole seconds.
ASSUME ActionsAssumption ==
    /\ "host" \notin Guests /\ AlwaysOn \subseteq Guests
    /\ Position \in [Guests -> Nat \ {0}] /\ \A g, h \in Guests : g # h => Position[g] # Position[h]
    /\ GuestSchedule \in [Guests -> SUBSET Windows] /\ HostSchedule \subseteq Windows
    /\ \A d \in 0..LastDay + 1 : Midnights[d] \in Seconds
    /\ \A w \in HostSchedule \cup UNION {GuestSchedule[g] : g \in Guests} : {w.on, w.off} \subseteq Seconds
    /\ Ends \subseteq Seconds /\ Horizon \in Nat /\ FullDay <= Horizon /\ MaxIgnore \in Seconds
    /\ {FirstTime, MaxTime} \subseteq Seconds /\ FirstTime <= MaxTime /\ Midnights[1] <= FirstTime
    /\ MaxTime + Horizon < Midnights[LastDay + 1]
    /\ MaxRows \in Nat /\ MaxFaults \in Nat

VARIABLES
    clock,
    rows,      \* the overrides table
    vacation,  \* web.vacation_override_id of the state table
    handler,   \* the requests that take several writes
    \* Observers.
    origin,    \* which handler wrote each row
    faults     \* requests that failed half-way

vars == <<clock, rows, vacation, handler, origin, faults>>

Steps == {"idle", "key", "cancel", "forget", "pause"}
Ids == 1..MaxRows
Locals ==
    [step : Steps, id : Ids \cup {None}, target : AllTargets \cup {"all", None},
     left : SUBSET AllTargets, until : Seconds \cup {None}, now : Seconds]
Idle == [step |-> "idle", id |-> None, target |-> None, left |-> {}, until |-> None, now |-> 0]
Origins == {"start", "boundary", "stop", "wake", "shutdown", "tonight", "vacation", "ignore", "pause"}

\* The types of the tables, of the requests in progress and of the observers.
TypeOK ==
    /\ clock \in FirstTime..MaxTime /\ clock \in Seconds
    /\ rows \in Seq(Override(AllTargets)) /\ Len(rows) <= MaxRows
    /\ vacation \in DOMAIN rows \cup {None}
    /\ handler \in [Handlers -> Locals]
    /\ origin \in Seq(Origins) /\ Len(origin) = Len(rows)
    /\ faults \in 0..MaxFaults

-----------------------------------------------------------------------------
(* What the handlers read.  A definition named Mutant_... is a mistake the  *)
(* code could contain, with the definition it would replace after it.      *)

Mutant_PowerActions == Actions
PowerActions == {"on", "off", "pause"}

Governing(table, target, t) == EffectiveOverrideOf(table, target, t, PowerActions)

ScheduleOf(target) == IF target = "host" THEN HostSchedule ELSE GuestSchedule[target]

First(boundaries) ==
    IF boundaries = {} THEN None
    ELSE (CHOOSE b \in boundaries : \A c \in boundaries : b.at <= c.at).at

\* parseUntil with next_boundary
NextBoundary(g) == First(Crossings(ScheduleOf(g), clock, clock + Horizon))

Mutant_NextHostOn == First(Crossings(HostSchedule, clock, clock + Horizon))
NextHostOn == First({b \in Crossings(HostSchedule, clock, clock + Horizon) : b.on})

NextMidnight == Midnights[DayOf(clock) + 1]

\* futureTime
Future == {t \in Ends : t > clock}

Mutant_ActiveVacation == IF vacation = None THEN None ELSE Governing(rows, "host", clock)

\* activeVacation: the override that the key names, if it governs the host.
ActiveVacation ==
    LET id == Governing(rows, "host", clock)
    IN  IF vacation # None /\ id = vacation THEN id ELSE None

-----------------------------------------------------------------------------
(* Handlers of one write *)

\* CreateOverride, by the handler named.
Insert(target, action, until, by) ==
    /\ Len(rows) < MaxRows
    /\ rows' = CreateOverride(rows, target, action, until, clock)
    /\ origin' = Append(origin, by)

GuestStart ==
    /\ \E g \in Managed :
          \/ \E until \in Future \cup {None} : Insert(g, "on", until, "start")
          \/ Insert(g, "on", NextBoundary(g), "boundary")
    /\ UNCHANGED <<clock, vacation, handler, faults>>

GuestStop ==
    /\ \E g \in Managed : Insert(g, "off", None, "stop")
    /\ UNCHANGED <<clock, vacation, handler, faults>>

\* "Keep on tonight"
HostWake ==
    /\ Insert("host", "on", NextMidnight, "tonight")
    /\ UNCHANGED <<clock, vacation, handler, faults>>

\* Until the schedule wakes the host, until a date, or until somebody does.
HostShutdown ==
    /\ \/ Insert("host", "off", NextHostOn, "wake")
       \/ \E until \in Future \cup {None} : Insert("host", "off", until, "shutdown")
    /\ UNCHANGED <<clock, vacation, handler, faults>>

WeatherIgnore ==
    /\ \E t \in (clock + 1..clock + MaxIgnore) \cap Seconds :
          Insert("host", "ignore_weather", t, "ignore")
    /\ UNCHANGED <<clock, vacation, handler, faults>>

\* handleOverrideCancel, which takes the id of any row.
OverrideCancel ==
    /\ \E id \in DOMAIN rows :
          Cancellable(rows, id) /\ rows' = CancelOverride(rows, id, clock)
    /\ UNCHANGED <<clock, vacation, handler, origin, faults>>

-----------------------------------------------------------------------------
(* Handlers of several writes.  Each of them can fail or die between two.  *)

Enter(h, locals) == handler[h] = Idle /\ handler' = [handler EXCEPT ![h] = locals]
Leave(h) == handler' = [handler EXCEPT ![h] = Idle]

\* handleVacationStart: the override, then the key.
VacationStart(h) ==
    /\ \E until \in Future : Insert("host", "off", until, "vacation")
    /\ Enter(h, [Idle EXCEPT !.step = "key", !.id = Len(rows')])
    /\ UNCHANGED <<clock, vacation, faults>>

StoreKey(h) ==
    /\ handler[h].step = "key"
    /\ vacation' = handler[h].id
    /\ Leave(h)
    /\ UNCHANGED <<clock, rows, origin, faults>>

\* handleVacationEnd: the vacation found is cancelled, then the key deleted.
VacationEnd(h) ==
    /\ ActiveVacation # None
    /\ Enter(h, [Idle EXCEPT !.step = "cancel", !.id = ActiveVacation])
    /\ UNCHANGED <<clock, rows, vacation, origin, faults>>

CancelVacation(h) ==
    /\ handler[h].step = "cancel"
    /\ IF Cancellable(rows, handler[h].id)
       THEN /\ rows' = CancelOverride(rows, handler[h].id, clock)
            /\ handler' = [handler EXCEPT ![h] = [Idle EXCEPT !.step = "forget"]]
       ELSE Leave(h) /\ UNCHANGED rows
    /\ UNCHANGED <<clock, vacation, origin, faults>>

ForgetKey(h) ==
    /\ handler[h].step = "forget"
    /\ vacation' = None
    /\ Leave(h)
    /\ UNCHANGED <<clock, rows, origin, faults>>

Mutant_PausedTargets(target) == IF target = "all" THEN Managed ELSE {target}

\* The targets of handleSchedulesPause, and their order: the host comes first.
PausedTargets(target) == IF target = "all" THEN AllTargets ELSE {target}
Place(target) == IF target = "host" THEN 0 ELSE Position[target]

SchedulesPause(h) ==
    /\ \E target \in {"all"} \cup AllTargets, until \in Future \cup {None} :
          Enter(h, [Idle EXCEPT !.step = "pause", !.target = target, !.left = PausedTargets(target),
                                !.until = until, !.now = clock])
    /\ UNCHANGED <<clock, rows, vacation, origin, faults>>

\* Every row has the time of the request.
PauseNext(h) ==
    /\ handler[h].step = "pause" /\ Len(rows) < MaxRows
    /\ \E target \in handler[h].left :
          /\ \A other \in handler[h].left : Place(target) <= Place(other)
          /\ rows' = CreateOverride(rows, target, "pause", handler[h].until, handler[h].now)
          /\ handler' = [handler EXCEPT ![h] =
                           IF handler[h].left = {target} THEN Idle
                           ELSE [handler[h] EXCEPT !.left = @ \ {target}]]
    /\ origin' = Append(origin, "pause")
    /\ UNCHANGED <<clock, vacation, faults>>

\* A write fails and the handler answers with an error.
WriteFails(h) ==
    /\ handler[h] # Idle /\ faults < MaxFaults
    /\ faults' = faults + 1
    /\ Leave(h)
    /\ UNCHANGED <<clock, rows, vacation, origin>>

\* The process dies, and all requests with it.
Crash ==
    /\ \E h \in Handlers : handler[h] # Idle
    /\ faults < MaxFaults /\ faults' = faults + 1
    /\ handler' = [h \in Handlers |-> Idle]
    /\ UNCHANGED <<clock, rows, vacation, origin>>

\* Nothing takes less than a second here: module GuestTick has what does.
Advance ==
    /\ clock < MaxTime /\ clock' = clock + 2
    /\ UNCHANGED <<rows, vacation, handler, origin, faults>>

-----------------------------------------------------------------------------
(* The timeline *)

\* OverridesOverlapping, which sorts them as EffectiveOverrideOf does.
Overlapping(target, from, to) ==
    {i \in DOMAIN rows :
        /\ rows[i].target = target /\ rows[i].created < to
        /\ rows[i].until # None => rows[i].until > from
        /\ rows[i].cancelled # None => rows[i].cancelled > from}

Mutant_Decides(i, t) == ActiveAt(rows[i], t)

\* stateAt passes over rows that are not active or are no power action.
Decides(i, t) == ActiveAt(rows[i], t) /\ rows[i].action \in {"on", "off", "pause"}

\* track: what a target's row shows at t, from the rows of the day.
StateAt(target, t, from, to) ==
    LET deciding == {i \in Overlapping(target, from, to) : Decides(i, t)}
    IN  IF deciding # {}
        THEN IF rows[Newest(rows, deciding)].action \in {"on", "pause"} THEN "override" ELSE "off"
        ELSE IF IsOn(ScheduleOf(target), t) THEN "schedule" ELSE "off"

Mutant_EndsWithin(i, from, to) ==
    rows[i].until # None /\ rows[i].until > from /\ rows[i].until <= to
    /\ i = Governing(rows, rows[i].target, from)

\* upcoming leaves out rows without an end, and those that are over already.
EndsWithin(i, from, to) ==
    rows[i].until # None /\ rows[i].until > from /\ rows[i].until <= to /\ ActiveAt(rows[i], from)

\* upcoming: the instants announced for a target, of its schedule and of its
\* overrides.  That only the first few are listed, and in which words, is left out.
Upcoming(target, from, to) ==
    {b.at : b \in Crossings(ScheduleOf(target), from, to)}
    \cup {rows[i].until : i \in {j \in Overlapping(target, from, to) : EndsWithin(j, from, to)}}

-----------------------------------------------------------------------------
Init ==
    /\ clock = FirstTime
    /\ rows = <<>> /\ vacation = None
    /\ handler = [h \in Handlers |-> Idle]
    /\ origin = <<>> /\ faults = 0

Next ==
    \/ GuestStart \/ GuestStop \/ HostWake \/ HostShutdown \/ WeatherIgnore \/ OverrideCancel
    \/ \E h \in Handlers :
          \/ VacationStart(h) \/ StoreKey(h)
          \/ VacationEnd(h) \/ CancelVacation(h) \/ ForgetKey(h)
          \/ SchedulesPause(h) \/ PauseNext(h)
          \/ WriteFails(h)
    \/ Crash \/ Advance

Spec == Init /\ [][Next]_vars

-----------------------------------------------------------------------------
(* Properties *)

\* What governs a target's power, whatever is written about the weather.
PowerOverride(table, target, t) == EffectiveOverrideOf(table, target, t, {"on", "off", "pause"})

\* No request but the one that cancels an override by its id ends a shutdown, a
\* pause or a "keep on": ending a vacation ends a vacation, whatever was
\* written, cancelled or lost since the vacation began.
OnlyVacationsEnded ==
    [][\A id \in DOMAIN rows :
          rows'[id] # rows[id] => OverrideCancel \/ origin[id] = "vacation"]_vars

\* The instants within the horizon at which a target's schedule turns on or off.
Turns(target) ==
    {t \in clock + 1..clock + Horizon : IsOn(ScheduleOf(target), t) # IsOn(ScheduleOf(target), t - 1)}

\* The instants at which an override of a target may end that shall last until the
\* schedule takes over, by the handler that writes it.
Takeovers(by, target) ==
    CASE by = "wake" -> {t \in Turns(target) : IsOn(ScheduleOf(target), t)}
      [] by = "boundary" -> Turns(target)
      [] by = "tonight" -> {Midnights[d] : d \in {e \in 0..LastDay : Midnights[e] > clock}}
      [] OTHER -> {}

\* An override that shall last until the schedule takes over ends at the very
\* instant at which it would have: a shutdown when the host turns on next, a
\* guest's start at the guest's next boundary, and "keep on tonight" tonight.
UntilTheSchedule ==
    [][Len(rows') > Len(rows) =>
          LET row == rows'[Len(rows')]
              takeovers == Takeovers(origin'[Len(rows')], row.target)
          IN  takeovers # {} => row.until \in takeovers /\ \A t \in takeovers : row.until <= t]_vars

\* When a request to pause is answered, each of its targets has a pause of that
\* time, and unless it was cancelled meanwhile or is over, the target is governed
\* by it or by something that was asked for no earlier.
PauseTaken ==
    [][\A h \in Handlers :
          handler[h].step = "pause" /\ handler'[h] = Idle /\ rows' # rows =>
              \A target \in IF handler[h].target = "all" THEN AllTargets ELSE {handler[h].target} :
                  \E i \in DOMAIN rows' :
                      /\ rows'[i].target = target /\ rows'[i].action = "pause"
                      /\ rows'[i].created = handler[h].now
                      /\ ActiveAt(rows'[i], clock) =>
                             rows'[Governing(rows', target, clock)].created >= handler[h].now]_vars

\* Ignoring the weather changes nothing but that: no target is governed by
\* anything else, now or later.
IgnoreHarmless ==
    [][WeatherIgnore =>
          \A target \in AllTargets, t \in clock..MaxTime :
              Governing(rows', target, t) = PowerOverride(rows, target, t)]_vars

\* What the engine will make of a target at t as things stand: the override in
\* effect, or else what the schedule says.
Expected(target, t) ==
    LET id == PowerOverride(rows, target, t)
    IN  IF id # None THEN IF rows[id].action = "off" THEN "off" ELSE "override"
        ELSE IF IsOn(ScheduleOf(target), t) THEN "schedule" ELSE "off"

\* The timeline shows every target, for the rest of the day, under the override
\* that the engine will find in effect, or else as its schedule says.
TimelineAgrees ==
    LET to == NextMidnight
        from == Midnights[DayOf(clock)]
    IN  \A target \in AllTargets, t \in (clock..to - 1) \cap Seconds :
            StateAt(target, t, from, to) = Expected(target, t)

\* Whatever will change within a day, for the schedule, for an override that ends
\* or for one that it hides now, is announced for the instant of the change.
UpcomingComplete ==
    \A target \in AllTargets :
        \A t \in ((clock + 2..clock + FullDay) \cap Seconds) \ Upcoming(target, clock, clock + FullDay) :
            Expected(target, t) = Expected(target, t - 2)
==============================================================================
