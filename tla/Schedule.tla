------------------------------- MODULE Schedule -------------------------------
(***************************************************************************)
(* Schedules (internal/schedule/schedule.go): sets of windows with a time  *)
(* of day to turn on and one to turn off, on some days of the week.  The   *)
(* package works on instants: a window starts and ends at so much elapsed  *)
(* time after a local midnight, and a midnight is 23, 24 or 25 hours after *)
(* the one before, as the clocks go forward or back.                       *)
(***************************************************************************)
EXTENDS Integers, FiniteSets

CONSTANTS
    FullDay,    \* units of time in an ordinary day
    LastDay,    \* the last day of the calendar
    Midnights,  \* the local midnight at which each day begins, and the last one ends
    Week        \* days in a week

ASSUME CalendarAssumption ==
    /\ FullDay \in Nat \ {0} /\ Week \in Nat \ {0} /\ LastDay \in Nat
    /\ Midnights \in [0..LastDay + 1 -> Nat] /\ Midnights[0] = 0
    /\ \A d, e \in 0..LastDay + 1 : d < e => Midnights[d] < Midnights[e]

Calendar == 0..LastDay

\* TimeOfDay: an offset from midnight.
TimesOfDay == 0..FullDay - 1

Windows == [days : SUBSET (0..Week - 1), on : TimesOfDay, off : TimesOfDay]

\* Days.Has
Has(days, d) == d % Week \in days

\* 23, 24 or 25 hours.
DayLength(d) == Midnights[d + 1] - Midnights[d]

\* midnight: the day that t falls on.
DayOf(t) == CHOOSE d \in Calendar : Midnights[d] <= t /\ t < Midnights[d + 1]

\* Window.wraps
Wraps(w) == w.off <= w.on

\* Window.instanceStarting
Instance(w, d) ==
    [on |-> Midnights[d] + w.on,
     off |-> Midnights[IF Wraps(w) THEN d + 1 ELSE d] + w.off]

\* No window of s ends after the day that follows the one on which it begins.  With
\* midnights 24 hours apart none does; but before a day of 23 hours a window whose
\* end is past 23:00 of that day does.
EndsInTime(s) ==
    \A w \in s, d \in 0..LastDay - 1 : Has(w.days, d) => Instance(w, d).off <= Midnights[d + 2]

Mutant_SameDay(s, from, to) ==
    {Instance(x[1], x[2]) : x \in {y \in s \X (DayOf(from)..DayOf(to)) : Has(y[1].days, y[2])}}

\* Schedule.instancesCovering: a window can start the day before.
InstancesCovering(s, from, to) ==
    {Instance(x[1], x[2]) : x \in
        {y \in s \X ((DayOf(from) - 1..DayOf(to)) \cap Calendar) : Has(y[1].days, y[2])}}

\* Schedule.IsOn
IsOn(s, t) == \E i \in InstancesCovering(s, t, t) : i.on <= t /\ t < i.off

Edges(s, from, to) ==
    LET instances == InstancesCovering(s, from, to)
    IN  {i.on : i \in instances} \cup {i.off : i \in instances}

Mutant_Candidates(s, from, to) == Edges(s, from, to) \cap from + 1..to - 1

\* Every instant of (from, to] at which some window begins or ends.
Candidates(s, from, to) == Edges(s, from, to) \cap from + 1..to

\* Schedule.Crossings: the candidates where the state is another than at the
\* candidate before, or at `from` for the first.
Crossings(s, from, to) ==
    LET candidates == Candidates(s, from, to)
        before(c) == LET earlier == {b \in candidates : b < c} \cup {from}
                     IN  CHOOSE b \in earlier : \A x \in earlier : x <= b
    IN  {[at |-> c, on |-> IsOn(s, c)] :
            c \in {x \in candidates : IsOn(s, x) # IsOn(s, before(x))}}

===============================================================================
