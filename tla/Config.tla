-------------------------------- MODULE Config --------------------------------
(***************************************************************************)
(* From a configuration to the ticks that run on it: what Validate checks  *)
(* of guests and schedules before the engine starts (internal/config), and *)
(* what the schedules then say from tick to tick.                          *)
(*                                                                         *)
(* Validate compares schedules in a reference week of ordinary days; the   *)
(* ticks run on a calendar on which the clocks change.                     *)
(***************************************************************************)
EXTENDS Schedule, Dependencies

CONSTANTS
    Configurations, \* the configurations that occur
    Followed(_)     \* those of which the ticks are followed

VARIABLES
    config,    \* the configuration
    step,      \* how far the program has come
    warned,    \* Warnings has complained about the required window
    lastTick,  \* the instant of the last tick
    now        \* and of this one

vars == <<walk, config, step, warned, lastTick, now>>

\* A set of windows for the host, one for a guest, the windows in which the host
\* is required, and the guests' depends_on.
Configuration ==
    [host : SUBSET Windows, guest : SUBSET Windows, required : SUBSET Windows,
     depends : [Guests -> Seq(Names)]]

\* The calendar has room for a reference week after the first.
ASSUME ConfigurationsAssumption ==
    Configurations \subseteq Configuration /\ 2 * Week <= LastDay + 1

End == Midnights[LastDay + 1] - 1

\* The types of the configuration and of its progress.
TypeOK ==
    /\ WalkTypeOK
    /\ config.host \subseteq Windows /\ config.guest \subseteq Windows
    /\ config.required \subseteq Windows /\ config.depends = depends
    /\ step \in {"guests", "coverage", "warnings", "running", "refused"}
    /\ warned \in BOOLEAN /\ lastTick \in 0..End /\ now \in lastTick..End

-----------------------------------------------------------------------------
(* Coverage.  A definition named Mutant_... is a mistake the code could     *)
(* contain, with the definition it would replace after it.                  *)

\* referenceWeek: a week of ordinary days, from its Monday.
Ordinary == INSTANCE Schedule WITH Midnights <- [d \in 0..LastDay + 1 |-> d * FullDay]

Mutant_ReferenceWeek == Week * FullDay..(2 * Week - 1) * FullDay - 1
ReferenceWeek == Week * FullDay..2 * Week * FullDay - 1

\* Whether firstGap finds an instant in which inner is on and outer is off.
Gap(inner, outer) ==
    \E t \in ReferenceWeek : Ordinary!IsOn(inner, t) /\ ~Ordinary!IsOn(outer, t)

-----------------------------------------------------------------------------
\* validateGuests: the dependencies are walked; unknown ones are refused.
WalkGuests ==
    /\ step = "guests"
    /\ WalkNext
    /\ UNCHANGED <<config, step, warned, lastTick, now>>

GuestsChecked ==
    /\ step = "guests" /\ verdict # "walking"
    /\ step' = IF verdict = "cycle" \/ \E g \in Guests : \E i \in DOMAIN depends[g] : ~Known(depends[g][i])
               THEN "refused" ELSE "coverage"
    /\ UNCHANGED <<walk, config, warned, lastTick, now>>

\* validateCoverage: guest windows must fall inside the host's.
CheckCoverage ==
    /\ step = "coverage"
    /\ step' = IF Gap(config.guest, config.host) THEN "refused" ELSE "warnings"
    /\ UNCHANGED <<walk, config, warned, lastTick, now>>

\* Warnings, and then the first tick; the day before it is in the calendar.
Start ==
    /\ step = "warnings" /\ step' = "running"
    /\ warned' = (\E r \in config.required : Gap({r}, config.host))
    /\ lastTick' \in Midnights[1]..Midnights[2] - 1
    /\ now' = lastTick'
    /\ UNCHANGED <<walk, config>>

Tick ==
    /\ step = "running" /\ Followed(config)
    /\ \E t \in now + 1..End : now' = t
    /\ lastTick' = now
    /\ UNCHANGED <<walk, config, step, warned>>

Init ==
    /\ config \in Configurations
    /\ depends = config.depends
    /\ color = [g \in Guests |-> "white"]
    /\ open = <<>> /\ order = <<>> /\ verdict = "walking"
    /\ step = "guests" /\ warned = FALSE /\ lastTick = 0 /\ now = 0

Next == WalkGuests \/ GuestsChecked \/ CheckCoverage \/ Start \/ Tick

Spec == Init /\ [][Next]_vars

-----------------------------------------------------------------------------
(* Properties *)

Running == step = "running"

\* The clocks do not change today, nor did they yesterday.
OrdinaryDay == \A d \in {DayOf(now) - 1, DayOf(now)} : DayLength(d) = FullDay

\* A tick is told of exactly the instants since the tick before at which the
\* schedule turned on or off, and which of the two: nothing between two ticks
\* is lost or reported twice, across midnights and when the clocks change.  (Of
\* a window that does not end in time the last hour is lost.)
BoundariesExact ==
    Running /\ EndsInTime(config.host) =>
        Crossings(config.host, lastTick, now) =
            {[at |-> t, on |-> IsOn(config.host, t)] :
                t \in {x \in lastTick + 1..now : IsOn(config.host, x) # IsOn(config.host, x - 1)}}

\* Unless the clocks change today or changed yesterday, a schedule is on when
\* its windows, read off a clock on the wall, say so.
AsOnTheWall ==
    Running /\ OrdinaryDay =>
        LET d == DayOf(now)
            time == now - Midnights[d]
        IN  IsOn(config.host, now) =
                \E w \in config.host :
                    \/ Has(w.days, d) /\ w.on <= time /\ (Wraps(w) \/ time < w.off)
                    \/ Has(w.days, d - 1) /\ Wraps(w) /\ time < w.off

\* Once the configuration is accepted, no tick wants a guest on while the host's
\* schedule has the host off, nor, without a warning, is the host off in a window
\* in which it is required: one week of comparison is enough for every week, but
\* for the days around a change of the clocks.
WindowsInsideHost ==
    Running /\ OrdinaryDay =>
        /\ IsOn(config.guest, now) => IsOn(config.host, now)
        /\ ~warned /\ IsOn(config.required, now) => IsOn(config.host, now)
===============================================================================
