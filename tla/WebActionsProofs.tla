--------------------------- MODULE WebActionsProofs ---------------------------
(***************************************************************************)
(* Proofs about WebActions for every number of guests, rows, requests at   *)
(* the same time and failures, and for every calendar and schedule.        *)
(***************************************************************************)
EXTENDS WebActions, TimetableProofs, FiniteSetTheorems

-----------------------------------------------------------------------------
(* Boundaries. *)

\* What handlers look for in a schedule is an instant, if there is any.
LEMMA FirstType ==
    ASSUME NEW B, \A b \in B : b.at \in Nat
    PROVE  First(B) \in Nat \cup {None}
<1>1. CASE B = {}
  BY <1>1 DEF First
<1>2. CASE B # {}
  <2> DEFINE T == {b.at : b \in B}
  <2>1. PICK x \in T : \A y \in T : x <= y
    <3>1. T \subseteq Nat /\ T # {}
      BY <1>2
    <3> HIDE DEF T
    <3> QED
      BY <3>1, Smallest
  <2>2. \E b \in B : \A c \in B : b.at <= c.at
    BY <2>1
  <2>3. (CHOOSE b \in B : \A c \in B : b.at <= c.at) \in B
    BY <2>2
  <2> QED
    BY <1>2, <2>3 DEF First
<1> QED
  BY <1>1, <1>2

LEMMA CrossingsType ==
    ASSUME NEW s, NEW from \in Nat, NEW to \in Nat
    PROVE  \A b \in Crossings(s, from, to) : b.at \in Nat
<1>1. Candidates(s, from, to) \subseteq Nat
  BY DEF Candidates
<1> QED
  BY <1>1 DEF Crossings

-----------------------------------------------------------------------------
(* Types. *)

LEMMA Constants ==
    /\ "host" \in AllTargets /\ Managed \subseteq AllTargets
    /\ FirstTime \in Seconds /\ MaxTime \in Seconds /\ FirstTime \in Nat /\ MaxTime \in Nat
    /\ Horizon \in Nat /\ MaxIgnore \in Nat /\ MaxRows \in Nat /\ MaxFaults \in Nat
    /\ Ends \subseteq Seconds /\ Ends \subseteq Nat /\ None \notin Nat /\ None \notin Seconds
  BY ActionsAssumption, OverridesAssumption DEF ActionsAssumption, OverridesAssumption, AllTargets, Seconds

\* The instants of a typed state.
LEMMA ClockIs ==
    ASSUME TypeOK
    PROVE  /\ clock \in Nat /\ clock \in Seconds /\ Stored(clock) = clock
           /\ clock <= MaxTime /\ clock < Midnights[LastDay + 1]
           /\ NextMidnight \in Nat /\ clock < NextMidnight
           /\ Midnights[DayOf(clock)] \in Nat /\ Midnights[DayOf(clock)] <= clock
           /\ NextHostOn \in Nat \cup {None}
           /\ \A g : NextBoundary(g) \in Nat \cup {None}
<1>1. clock \in FirstTime..MaxTime /\ clock \in Seconds
  BY DEF TypeOK
<1>2. clock \in Nat /\ clock <= MaxTime /\ Stored(clock) = clock
  BY <1>1, Constants DEF Seconds, Stored
<1>3. clock < Midnights[LastDay + 1]
  <2>1. Midnights[LastDay + 1] \in Nat
    BY CalendarAssumption
  <2>2. MaxTime + Horizon < Midnights[LastDay + 1]
    BY ActionsAssumption
  <2> QED
    BY <1>2, <2>1, <2>2, Constants
<1>4. clock + Horizon \in Nat
  BY <1>2, Constants
<1>5. NextHostOn \in Nat \cup {None}
  BY <1>2, <1>4, CrossingsType, FirstType DEF NextHostOn
<1>6. \A g : NextBoundary(g) \in Nat \cup {None}
  BY <1>2, <1>4, CrossingsType, FirstType DEF NextBoundary
<1> QED
  BY <1>1, <1>2, <1>3, <1>5, <1>6, DayIs DEF NextMidnight

LEMMA FutureType == Future \subseteq Nat
  BY Constants DEF Future

\* What a step may do to the table: nothing, cancel a row, or add one.
Adds(target, action, until, now, by) ==
    /\ rows' = CreateOverride(rows, target, action, until, now)
    /\ origin' = Append(origin, by)
    /\ Len(rows) < MaxRows

Cancels(id) ==
    /\ id \in DOMAIN rows /\ rows[id].cancelled = None
    /\ rows' = CancelOverride(rows, id, clock)
    /\ origin' = origin

Writers ==
    \E target \in AllTargets, action \in Actions, until \in Nat \cup {None}, now \in Nat, by \in Origins :
        Adds(target, action, until, now, by)

LEMMA LocalsType ==
    ASSUME TypeOK, NEW h \in Handlers
    PROVE  /\ handler[h] \in Locals /\ handler[h].step \in Steps
           /\ handler[h].left \subseteq AllTargets
           /\ handler[h].until \in Nat \cup {None} /\ handler[h].now \in Nat
           /\ handler[h].now \in Seconds /\ handler[h].id \in Ids \cup {None}
  BY DEF TypeOK, Locals, Seconds

LEMMA OneWrite ==
    ASSUME TypeOK, GuestStart \/ GuestStop \/ HostWake \/ HostShutdown \/ WeatherIgnore
    PROVE  Writers /\ UNCHANGED <<clock, vacation, handler, faults>>
<1> USE ClockIs, Constants, FutureType DEF Insert, Adds, Writers, Origins, Actions
<1>1. CASE GuestStart
  BY <1>1 DEF GuestStart
<1>2. CASE GuestStop
  BY <1>2 DEF GuestStop
<1>3. CASE HostWake
  BY <1>3 DEF HostWake
<1>4. CASE HostShutdown
  BY <1>4 DEF HostShutdown
<1>5. CASE WeatherIgnore
  BY <1>5 DEF WeatherIgnore
<1> QED
  BY <1>1, <1>2, <1>3, <1>4, <1>5

LEMMA OneCancels ==
    ASSUME TypeOK, OverrideCancel
    PROVE  /\ \E id \in DOMAIN rows : Cancels(id)
           /\ UNCHANGED <<clock, vacation, handler, origin, faults>>
  BY DEF OverrideCancel, Cancellable, Cancels

\* What the steps of the longer requests do to the table.
LEMMA ManyWrite ==
    ASSUME TypeOK, NEW h \in Handlers
    PROVE  /\ VacationStart(h) => Writers
           /\ PauseNext(h) => Writers
           /\ StoreKey(h) \/ VacationEnd(h) \/ ForgetKey(h) \/ SchedulesPause(h) \/ WriteFails(h) \/ Crash \/ Advance
                  => UNCHANGED <<rows, origin>>
           /\ CancelVacation(h) => UNCHANGED <<rows, origin>> \/ Cancels(handler[h].id)
<1>1. VacationStart(h) => Writers
  BY ClockIs, Constants, FutureType DEF VacationStart, Insert, Adds, Writers, Origins, Actions
<1>2. PauseNext(h) => Writers
  BY LocalsType DEF PauseNext, Adds, Writers, Origins, Actions
<1>3. StoreKey(h) \/ VacationEnd(h) \/ ForgetKey(h) \/ SchedulesPause(h) \/ WriteFails(h) \/ Crash \/ Advance
          => UNCHANGED <<rows, origin>>
  BY DEF StoreKey, VacationEnd, ForgetKey, SchedulesPause, WriteFails, Crash, Advance
<1>4. CancelVacation(h) => UNCHANGED <<rows, origin>> \/ Cancels(handler[h].id)
  BY DEF CancelVacation, Cancellable, Cancels
<1> QED
  BY <1>1, <1>2, <1>3, <1>4

\* Who writes a row leaves those before it.
LEMMA RowsStay ==
    ASSUME rows \in Seq(Override(AllTargets)), Writers
    PROVE  \A i \in DOMAIN rows : rows'[i] = rows[i]
<1>1. PICK target \in AllTargets, action \in Actions, until \in Nat \cup {None}, now \in Nat :
          rows' = CreateOverride(rows, target, action, until, now)
  BY DEF Writers, Adds
<1>2. PICK row : rows' = Append(rows, row)
  BY <1>1 DEF CreateOverride
<1> QED
  BY <1>2

TableOK ==
    /\ rows \in Seq(Override(AllTargets)) /\ Len(rows) <= MaxRows
    /\ origin \in Seq(Origins) /\ Len(origin) = Len(rows)

\* Rows are only added and cancelled, and who wrote a row is not forgotten.
LEMMA TableStep ==
    ASSUME TypeOK, Writers \/ (\E id \in DOMAIN rows : Cancels(id)) \/ UNCHANGED <<rows, origin>>
    PROVE  /\ TableOK'
           /\ DOMAIN rows \subseteq DOMAIN rows'
           /\ \A i \in DOMAIN rows : origin'[i] = origin[i]
<1>1. TableOK /\ DOMAIN rows = 1..Len(rows) /\ DOMAIN origin = 1..Len(rows) /\ Len(rows) \in Nat
  BY DEF TypeOK, TableOK
<1>2. CASE Writers
  <2>1. PICK target \in AllTargets, action \in Actions, until \in Nat \cup {None}, now \in Nat, by \in Origins :
            Adds(target, action, until, now, by)
    BY <1>2 DEF Writers
  <2>6. /\ rows' = CreateOverride(rows, target, action, until, now)
        /\ origin' = Append(origin, by)
        /\ Len(rows) < MaxRows
    BY <2>1 DEF Adds
  <2>7. rows \in Seq(Override(AllTargets)) /\ origin \in Seq(Origins) /\ Len(origin) = Len(rows)
    BY <1>1 DEF TableOK
  <2>2. rows' \in Seq(Override(AllTargets)) /\ Len(rows') = Len(rows) + 1
    <3>1. /\ CreateOverride(rows, target, action, until, now) \in Seq(Override(AllTargets))
          /\ Len(CreateOverride(rows, target, action, until, now)) = Len(rows) + 1
      BY <2>7, CreatedKeeps
    <3> QED
      BY <2>6, <3>1
  <2>3. /\ origin' \in Seq(Origins) /\ Len(origin') = Len(rows) + 1
        /\ \A i \in 1..Len(rows) : origin'[i] = origin[i]
    BY <2>6, <2>7
  <2>8. Len(rows) \in Nat /\ MaxRows \in Nat /\ Len(rows) < MaxRows
    BY <1>1, <2>6, Constants
  <2>4. Len(rows) + 1 <= MaxRows
    BY <2>8
  <2>5. DOMAIN rows' = 1..Len(rows')
    BY <2>2
  <2> QED
    BY <1>1, <2>2, <2>3, <2>4, <2>5 DEF TableOK
<1>3. ASSUME NEW id \in DOMAIN rows, Cancels(id)
      PROVE  /\ TableOK' /\ DOMAIN rows' = DOMAIN rows
             /\ \A i \in DOMAIN rows : origin'[i] = origin[i]
  <2>1. rows' \in Seq(Override(AllTargets)) /\ Len(rows') = Len(rows)
    BY <1>1, <1>3, ClockIs, CancelledLater DEF Cancels, TableOK
  <2> QED
    BY <1>1, <1>3, <2>1 DEF Cancels, TableOK
<1>4. CASE UNCHANGED <<rows, origin>>
  BY <1>1, <1>4 DEF TableOK
<1> QED
  BY <1>2, <1>3, <1>4

OthersOK ==
    /\ clock \in FirstTime..MaxTime /\ clock \in Seconds
    /\ vacation \in DOMAIN rows \cup {None}
    /\ handler \in [Handlers -> Locals]
    /\ faults \in 0..MaxFaults

\* The row that a request remembers is in the table.
LocalsAgree == \A h \in Handlers : handler[h].id \in DOMAIN rows \cup {None}

LEMMA IdleType == Idle \in Locals /\ Idle.id = None /\ Idle.step = "idle"
<1>1. 0 \in Seconds
  BY DEF Seconds
<1> QED
  BY <1>1 DEF Idle, Locals, Steps

LEMMA OthersStep ==
    ASSUME TypeOK, LocalsAgree, [Next]_vars, TableOK', DOMAIN rows \subseteq DOMAIN rows'
    PROVE  OthersOK' /\ LocalsAgree'
<1> USE Constants, IdleType
<1>1. OthersOK
  BY DEF TypeOK, OthersOK
<1>2. CASE UNCHANGED <<clock, vacation, handler, faults>>
  BY <1>1, <1>2 DEF OthersOK, LocalsAgree
<1>3. CASE Advance
  <2>1. clock' \in FirstTime..MaxTime /\ clock' \in Seconds
    BY <1>1, <1>3 DEF Advance, OthersOK, Seconds
  <2> QED
    BY <1>1, <1>3, <2>1 DEF Advance, OthersOK, LocalsAgree
<1>4. CASE Crash
  BY <1>1, <1>4 DEF Crash, OthersOK, LocalsAgree
<1>5. ASSUME NEW h \in Handlers, NEW locals \in Locals, locals.id \in DOMAIN rows' \cup {None},
             handler' = [handler EXCEPT ![h] = locals]
      PROVE  handler' \in [Handlers -> Locals] /\ LocalsAgree'
  BY <1>1, <1>5 DEF OthersOK, LocalsAgree
<1>6. ASSUME NEW h \in Handlers, Leave(h)
      PROVE  handler' \in [Handlers -> Locals] /\ LocalsAgree'
  BY <1>5, <1>6 DEF Leave
<1>7. ASSUME NEW h \in Handlers, VacationStart(h)
      PROVE  OthersOK' /\ LocalsAgree'
  <2> DEFINE locals == [Idle EXCEPT !.step = "key", !.id = Len(rows')]
  <2>1. Len(rows') \in DOMAIN rows' /\ Len(rows') \in Ids
    <3>1. PICK until : rows' = CreateOverride(rows, "host", "off", until, clock)
      BY <1>7 DEF VacationStart, Insert
    <3>2. Len(rows') = Len(rows) + 1
      BY <3>1 DEF CreateOverride, TypeOK
    <3> QED
      BY <3>2 DEF TableOK, TypeOK, Ids
  <2>2. locals \in Locals /\ locals.id = Len(rows')
    BY <2>1 DEF Locals, Idle, Steps
  <2>3. handler' = [handler EXCEPT ![h] = locals] /\ UNCHANGED <<clock, vacation, faults>>
    BY <1>7 DEF VacationStart, Enter
  <2> HIDE DEF locals
  <2>4. handler' \in [Handlers -> Locals] /\ LocalsAgree'
    BY <1>5, <2>1, <2>2, <2>3
  <2> QED
    BY <1>1, <2>3, <2>4 DEF OthersOK
<1>8. ASSUME NEW h \in Handlers, StoreKey(h) \/ ForgetKey(h)
      PROVE  OthersOK' /\ LocalsAgree'
  <2>1. vacation' \in {handler[h].id, None} /\ Leave(h) /\ UNCHANGED <<clock, faults>>
    BY <1>8 DEF StoreKey, ForgetKey
  <2>2. vacation' \in DOMAIN rows' \cup {None}
    BY <2>1 DEF LocalsAgree
  <2> QED
    BY <1>1, <1>6, <2>1, <2>2 DEF OthersOK
<1>9. ASSUME NEW h \in Handlers, VacationEnd(h)
      PROVE  OthersOK' /\ LocalsAgree'
  <2> DEFINE locals == [Idle EXCEPT !.step = "cancel", !.id = ActiveVacation]
  <2>1. ActiveVacation \in DOMAIN rows \cup {None} /\ ActiveVacation \in Ids \cup {None}
    BY <1>1 DEF ActiveVacation, OthersOK, TypeOK, Ids
  <2>2. locals \in Locals /\ locals.id = ActiveVacation
    BY <2>1 DEF Locals, Idle, Steps
  <2>3. handler' = [handler EXCEPT ![h] = locals] /\ UNCHANGED <<clock, vacation, faults>>
    BY <1>9 DEF VacationEnd, Enter
  <2> HIDE DEF locals
  <2>4. handler' \in [Handlers -> Locals] /\ LocalsAgree'
    BY <1>5, <2>1, <2>2, <2>3
  <2> QED
    BY <1>1, <2>3, <2>4 DEF OthersOK
<1>10. ASSUME NEW h \in Handlers, CancelVacation(h)
       PROVE  OthersOK' /\ LocalsAgree'
  <2> DEFINE locals == [Idle EXCEPT !.step = "forget"]
  <2>1. locals \in Locals /\ locals.id = None
    BY DEF Locals, Idle, Steps
  <2>2. handler' = [handler EXCEPT ![h] = locals] \/ Leave(h)
    BY <1>10 DEF CancelVacation
  <2>3. UNCHANGED <<clock, vacation, faults>>
    BY <1>10 DEF CancelVacation
  <2> HIDE DEF locals
  <2>4. handler' \in [Handlers -> Locals] /\ LocalsAgree'
    BY <1>5, <1>6, <2>1, <2>2
  <2> QED
    BY <1>1, <2>3, <2>4 DEF OthersOK
<1>11. ASSUME NEW h \in Handlers, SchedulesPause(h)
       PROVE  OthersOK' /\ LocalsAgree'
  <2>1. PICK target \in {"all"} \cup AllTargets, until \in Future \cup {None} :
            Enter(h, [Idle EXCEPT !.step = "pause", !.target = target, !.left = PausedTargets(target),
                                  !.until = until, !.now = clock])
    BY <1>11 DEF SchedulesPause
  <2> DEFINE locals == [Idle EXCEPT !.step = "pause", !.target = target, !.left = PausedTargets(target),
                                    !.until = until, !.now = clock]
  <2>2. PausedTargets(target) \subseteq AllTargets /\ until \in Seconds \cup {None}
    BY DEF PausedTargets, Future
  <2>3. locals \in Locals /\ locals.id = None
    BY <1>1, <2>2 DEF Locals, Idle, Steps, OthersOK
  <2>4. handler' = [handler EXCEPT ![h] = locals] /\ UNCHANGED <<clock, vacation, faults>>
    BY <1>11, <2>1 DEF SchedulesPause, Enter
  <2> HIDE DEF locals
  <2>5. handler' \in [Handlers -> Locals] /\ LocalsAgree'
    BY <1>5, <2>3, <2>4
  <2> QED
    BY <1>1, <2>4, <2>5 DEF OthersOK
<1>12. ASSUME NEW h \in Handlers, PauseNext(h)
       PROVE  OthersOK' /\ LocalsAgree'
  <2>1. PICK target \in handler[h].left :
            handler' = [handler EXCEPT ![h] =
                           IF handler[h].left = {target} THEN Idle
                           ELSE [handler[h] EXCEPT !.left = @ \ {target}]]
    BY <1>12 DEF PauseNext
  <2> DEFINE locals == IF handler[h].left = {target} THEN Idle
                       ELSE [handler[h] EXCEPT !.left = @ \ {target}]
  <2>2. locals \in Locals /\ locals.id \in {handler[h].id, None}
    BY LocalsType DEF Locals
  <2>3. UNCHANGED <<clock, vacation, faults>>
    BY <1>12 DEF PauseNext
  <2>5. handler' = [handler EXCEPT ![h] = locals]
    BY <2>1
  <2> HIDE DEF locals
  <2>4. handler' \in [Handlers -> Locals] /\ LocalsAgree'
    BY <1>5, <2>2, <2>5 DEF LocalsAgree
  <2> QED
    BY <1>1, <2>3, <2>4 DEF OthersOK
<1>13. ASSUME NEW h \in Handlers, WriteFails(h)
       PROVE  OthersOK' /\ LocalsAgree'
  BY <1>1, <1>6, <1>13 DEF WriteFails, OthersOK
<1> QED
  BY <1>2, <1>3, <1>4, <1>7, <1>8, <1>9, <1>10, <1>11, <1>12, <1>13, OneWrite, OneCancels DEF Next, vars

\* The table after any step, and that it keeps what it had.
LEMMA NextTable ==
    ASSUME TypeOK, LocalsAgree, [Next]_vars
    PROVE  /\ TableOK'
           /\ DOMAIN rows \subseteq DOMAIN rows'
           /\ \A i \in DOMAIN rows : origin'[i] = origin[i]
<1>1. Writers \/ (\E id \in DOMAIN rows : Cancels(id)) \/ UNCHANGED <<rows, origin>>
  <2>1. CASE GuestStart \/ GuestStop \/ HostWake \/ HostShutdown \/ WeatherIgnore
    BY <2>1, OneWrite
  <2>2. CASE OverrideCancel
    BY <2>2, OneCancels
  <2>3. CASE \E h \in Handlers :
                \/ VacationStart(h) \/ StoreKey(h)
                \/ VacationEnd(h) \/ CancelVacation(h) \/ ForgetKey(h)
                \/ SchedulesPause(h) \/ PauseNext(h)
                \/ WriteFails(h)
    BY <2>3, ManyWrite DEF Cancels
  <2>4. CASE Crash \/ Advance \/ UNCHANGED vars
    BY <2>4 DEF Crash, Advance, vars
  <2> QED
    BY <2>1, <2>2, <2>3, <2>4 DEF Next
<1> QED
  BY <1>1, TableStep

LEMMA TypeStep ==
    ASSUME TypeOK, LocalsAgree, [Next]_vars
    PROVE  TypeOK' /\ LocalsAgree'
<1>1. TableOK' /\ OthersOK' /\ LocalsAgree'
  BY NextTable, OthersStep
<1> QED
  BY <1>1 DEF TypeOK, TableOK, OthersOK

LEMMA InitType == Init => TypeOK /\ LocalsAgree
<1> SUFFICES ASSUME Init PROVE TypeOK /\ LocalsAgree
  OBVIOUS
<1>1. clock \in FirstTime..MaxTime /\ clock \in Seconds
  BY Constants, ActionsAssumption DEF Init, ActionsAssumption
<1> QED
  BY <1>1, Constants, IdleType DEF Init, TypeOK, LocalsAgree

\* The overrides, the vacation's key and the requests in progress keep their
\* types, whatever overlaps, fails or dies half-way.
THEOREM TypesCorrect == Spec => [](TypeOK /\ LocalsAgree)
  BY InitType, TypeStep, PTL DEF Spec

-----------------------------------------------------------------------------
(* Only vacations are ended: what the key names, and what a request for a   *)
(* vacation holds, was written by one.                                      *)

Vacations ==
    /\ vacation # None => origin[vacation] = "vacation"
    /\ \A h \in Handlers : handler[h].id # None => origin[handler[h].id] = "vacation"

LEMMA VacationsStep ==
    ASSUME TypeOK, LocalsAgree, Vacations, [Next]_vars
    PROVE  Vacations'
<1> USE Constants, IdleType
<1>1. \A i \in DOMAIN rows : origin'[i] = origin[i]
  BY NextTable
<1>2. vacation \in DOMAIN rows \cup {None} /\ handler \in [Handlers -> Locals]
  BY DEF TypeOK
<1>3. CASE UNCHANGED <<vacation, handler>>
  BY <1>1, <1>2, <1>3 DEF Vacations, LocalsAgree
<1>4. CASE Crash
  BY <1>1, <1>2, <1>4 DEF Crash, Vacations
<1>5. ASSUME NEW h \in Handlers, NEW locals \in Locals, handler' = [handler EXCEPT ![h] = locals],
             vacation' \in {vacation, handler[h].id, None},
             locals.id # None => \/ origin'[locals.id] = "vacation"
                                 \/ locals.id \in {vacation, handler[h].id}
      PROVE  Vacations'
  BY <1>1, <1>2, <1>5 DEF Vacations, LocalsAgree
<1>6. ASSUME NEW h \in Handlers, Leave(h), vacation' \in {vacation, handler[h].id, None}
      PROVE  Vacations'
  BY <1>5, <1>6 DEF Leave
<1>7. ASSUME NEW h \in Handlers, VacationStart(h)
      PROVE  Vacations'
  <2> DEFINE locals == [Idle EXCEPT !.step = "key", !.id = Len(rows')]
  <2>1. PICK until : /\ rows' = CreateOverride(rows, "host", "off", until, clock)
                     /\ origin' = Append(origin, "vacation")
    BY <1>7 DEF VacationStart, Insert
  <2>2. Len(rows') = Len(rows) + 1 /\ Len(rows') \in Ids
    <3>1. Len(rows') = Len(rows) + 1
      BY <2>1 DEF CreateOverride, TypeOK
    <3>2. TableOK'
      BY NextTable
    <3> QED
      BY <3>1, <3>2 DEF TableOK, TypeOK, Ids
  <2>3. origin'[Len(rows')] = "vacation"
    BY <2>1, <2>2 DEF TypeOK
  <2>4. locals \in Locals /\ locals.id = Len(rows')
    BY <2>2 DEF Locals, Idle, Steps
  <2>5. handler' = [handler EXCEPT ![h] = locals] /\ vacation' = vacation
    BY <1>7 DEF VacationStart, Enter
  <2> HIDE DEF locals
  <2> QED
    BY <1>5, <2>3, <2>4, <2>5
<1>8. ASSUME NEW h \in Handlers, StoreKey(h) \/ ForgetKey(h) \/ WriteFails(h)
      PROVE  Vacations'
  BY <1>6, <1>8 DEF StoreKey, ForgetKey, WriteFails
<1>9. ASSUME NEW h \in Handlers, VacationEnd(h)
      PROVE  Vacations'
  <2> DEFINE locals == [Idle EXCEPT !.step = "cancel", !.id = ActiveVacation]
  <2>1. ActiveVacation # None /\ ActiveVacation = vacation
    BY <1>9 DEF VacationEnd, ActiveVacation
  <2>2. vacation \in Ids
    BY <1>2, <2>1 DEF TypeOK, Ids
  <2>3. locals \in Locals /\ locals.id = vacation
    BY <2>1, <2>2 DEF Locals, Idle, Steps
  <2>4. handler' = [handler EXCEPT ![h] = locals] /\ vacation' = vacation
    BY <1>9 DEF VacationEnd, Enter
  <2> HIDE DEF locals
  <2> QED
    BY <1>5, <2>3, <2>4
<1>10. ASSUME NEW h \in Handlers, CancelVacation(h)
       PROVE  Vacations'
  <2> DEFINE locals == [Idle EXCEPT !.step = "forget"]
  <2>1. locals \in Locals /\ locals.id = None
    BY DEF Locals, Idle, Steps
  <2>2. (handler' = [handler EXCEPT ![h] = locals] \/ Leave(h)) /\ vacation' = vacation
    BY <1>10 DEF CancelVacation
  <2> HIDE DEF locals
  <2> QED
    BY <1>5, <1>6, <2>1, <2>2
<1>11. ASSUME NEW h \in Handlers, SchedulesPause(h) \/ PauseNext(h)
       PROVE  Vacations'
  <2>1. /\ vacation' = vacation
        /\ \A k \in Handlers : handler'[k].id \in {handler[k].id, None}
    <3>1. CASE SchedulesPause(h)
      BY <1>2, <3>1 DEF SchedulesPause, Enter, Idle
    <3>2. CASE PauseNext(h)
      <4>1. PICK target \in handler[h].left :
                handler' = [handler EXCEPT ![h] = IF handler[h].left = {target} THEN Idle
                                                  ELSE [handler[h] EXCEPT !.left = @ \ {target}]]
        BY <3>2 DEF PauseNext
      <4>2. handler[h] \in Locals
        BY <1>2
      <4>3. [handler[h] EXCEPT !.left = @ \ {target}].id = handler[h].id
        BY <4>2 DEF Locals
      <4> QED
        BY <1>2, <3>2, <4>1, <4>3 DEF PauseNext
    <3> QED
      BY <1>11, <3>1, <3>2
  <2> QED
    BY <1>1, <1>2, <2>1 DEF Vacations, LocalsAgree
<1> QED
  BY <1>3, <1>4, <1>7, <1>8, <1>9, <1>10, <1>11, OneWrite, OneCancels DEF Next, vars, Advance

LEMMA AlwaysVacations == Spec => [](TypeOK /\ LocalsAgree /\ Vacations)
<1>1. Init => Vacations
  BY IdleType DEF Init, Vacations
<1> QED
  BY <1>1, InitType, TypeStep, VacationsStep, PTL DEF Spec

\* A step that changes a row cancels it.
LEMMA WhatChanges ==
    ASSUME TypeOK, LocalsAgree, [Next]_vars, NEW id \in DOMAIN rows, rows'[id] # rows[id]
    PROVE  OverrideCancel \/ \E h \in Handlers : CancelVacation(h) /\ handler[h].id = id
<1>1. Writers => rows'[id] = rows[id]
  BY RowsStay DEF TypeOK
<1>2. ~UNCHANGED rows
  OBVIOUS
<1>3. CASE \E h \in Handlers :
              \/ VacationStart(h) \/ StoreKey(h)
              \/ VacationEnd(h) \/ CancelVacation(h) \/ ForgetKey(h)
              \/ SchedulesPause(h) \/ PauseNext(h)
              \/ WriteFails(h)
  <2>1. PICK h \in Handlers : CancelVacation(h)
    BY <1>1, <1>2, <1>3, ManyWrite
  <2>2. rows' = CancelOverride(rows, handler[h].id, clock)
    BY <1>2, <2>1 DEF CancelVacation
  <2>3. handler[h].id = id
    BY <2>2 DEF CancelOverride
  <2> QED
    BY <2>1, <2>3
<1> QED
  BY <1>1, <1>2, <1>3, OneWrite DEF Next, vars, Crash, Advance

\* No request but the one that cancels an override by its id ends a shutdown, a
\* pause or a "keep on": ending a vacation ends a vacation, whatever was
\* written, cancelled or lost since the vacation began.
THEOREM VacationsEndAlone == Spec => OnlyVacationsEnded
<1>1. ASSUME TypeOK, LocalsAgree, Vacations, [Next]_vars
      PROVE  \A id \in DOMAIN rows : rows'[id] # rows[id] => OverrideCancel \/ origin[id] = "vacation"
  <2>1. SUFFICES ASSUME NEW id \in DOMAIN rows, rows'[id] # rows[id], ~OverrideCancel
                 PROVE  origin[id] = "vacation"
    OBVIOUS
  <2>2. PICK h \in Handlers : handler[h].id = id
    BY <1>1, <2>1, WhatChanges
  <2>3. id # None
    BY <1>1, Constants DEF TypeOK
  <2> QED
    BY <1>1, <2>2, <2>3 DEF Vacations
<1>2. TypeOK /\ LocalsAgree /\ Vacations /\ [Next]_vars
        => [\A id \in DOMAIN rows : rows'[id] # rows[id] => OverrideCancel \/ origin[id] = "vacation"]_vars
  BY <1>1
<1> QED
  BY <1>2, AlwaysVacations, PTL DEF Spec, OnlyVacationsEnded

-----------------------------------------------------------------------------
(* What governs a target. *)

\* Rows of other actions do not matter.
LEMMA OtherActions ==
    ASSUME NEW table, NEW rest, Table(table), Table(rest), DOMAIN rest \subseteq DOMAIN table,
           NEW actions,
           \A i \in DOMAIN rest : table[i] = rest[i],
           \A i \in DOMAIN table \ DOMAIN rest : table[i].action \notin actions,
           NEW target, NEW t
    PROVE  EffectiveOverrideOf(table, target, t, actions) = EffectiveOverrideOf(rest, target, t, actions)
<1>1. Matching(table, target, actions, t) = Matching(rest, target, actions, t)
  BY DEF Matching
<1>2. \A i, j \in DOMAIN rest : Newer(table, j, i) <=> Newer(rest, j, i)
  BY DEF Newer
<1>3. \A i \in Matching(rest, target, actions, t) :
          {j \in Matching(rest, target, actions, t) : Newer(table, j, i)}
              = {j \in Matching(rest, target, actions, t) : Newer(rest, j, i)}
  BY <1>2 DEF Matching
<1>4. Fetched(table, target, actions, t) = Fetched(rest, target, actions, t)
  <2>1. Fetched(table, target, actions, t) =
            {i \in Matching(table, target, actions, t) :
                Cardinality({j \in Matching(table, target, actions, t) : Newer(table, j, i)}) < RowLimit}
    BY EffectiveIs
  <2>2. Fetched(rest, target, actions, t) =
            {i \in Matching(rest, target, actions, t) :
                Cardinality({j \in Matching(rest, target, actions, t) : Newer(rest, j, i)}) < RowLimit}
    BY EffectiveIs
  <2> QED
    BY <1>1, <1>3, <2>1, <2>2
<1>5. InEffect(table, target, actions, t) = InEffect(rest, target, actions, t)
  <2>1. Fetched(rest, target, actions, t) \subseteq DOMAIN rest
    BY DEF Fetched
  <2> QED
    BY <1>4, <2>1 DEF InEffect
<1>6. InEffect(rest, target, actions, t) \subseteq DOMAIN rest /\ InEffect(rest, target, actions, t) \subseteq DOMAIN table
  <2>1. InEffect(rest, target, actions, t) \subseteq DOMAIN rest
    BY EffectiveIs
  <2> QED
    BY <2>1
<1>7. InEffect(rest, target, actions, t) # {} =>
          Newest(table, InEffect(rest, target, actions, t)) = Newest(rest, InEffect(rest, target, actions, t))
  BY <1>2, <1>6, SameNewest
<1> QED
  BY <1>5, <1>7, EffectiveIs

\* Ignoring the weather changes nothing but that: no target is governed by
\* anything else, now or later.
THEOREM IgnoringIsHarmless == Spec => IgnoreHarmless
<1>1. ASSUME TypeOK, LocalsAgree, [Next]_vars, WeatherIgnore
      PROVE  \A target \in AllTargets, t \in clock..MaxTime :
                 Governing(rows', target, t) = PowerOverride(rows, target, t)
  <2>1. PICK until : rows' = CreateOverride(rows, "host", "ignore_weather", until, clock)
    BY <1>1 DEF WeatherIgnore, Insert
  <2>2. rows \in Seq(Override(AllTargets)) /\ rows' \in Seq(Override(AllTargets))
    BY <1>1, NextTable DEF TypeOK, TableOK
  <2>3. Table(rows) /\ Table(rows')
    BY <2>2 DEF Table
  <2>4. /\ DOMAIN rows \subseteq DOMAIN rows'
        /\ \A i \in DOMAIN rows : rows'[i] = rows[i]
        /\ \A i \in DOMAIN rows' \ DOMAIN rows : rows'[i].action = "ignore_weather"
    BY <2>1, <2>2 DEF CreateOverride
  <2>5. \A target, t : EffectiveOverrideOf(rows', target, t, {"on", "off", "pause"})
                           = EffectiveOverrideOf(rows, target, t, {"on", "off", "pause"})
    BY <2>3, <2>4, OtherActions
  <2> QED
    BY <2>5 DEF Governing, PowerOverride, PowerActions
<1>2. TypeOK /\ LocalsAgree /\ [Next]_vars
        => [WeatherIgnore =>
              \A target \in AllTargets, t \in clock..MaxTime :
                  Governing(rows', target, t) = PowerOverride(rows, target, t)]_vars
  BY <1>1
<1> QED
  BY <1>2, TypesCorrect, PTL DEF Spec, IgnoreHarmless

\* The query has room for all rows of a short table.
LEMMA AllFetched ==
    ASSUME NEW table, Table(table), Len(table) <= RowLimit, NEW target, NEW actions, NEW t
    PROVE  Fetched(table, target, actions, t) = Matching(table, target, actions, t)
<1> DEFINE M == Matching(table, target, actions, t)
<1>1. DOMAIN table = 1..Len(table) /\ Len(table) \in Nat /\ RowLimit \in Nat
  BY RowType, OverridesAssumption DEF OverridesAssumption
<1>2. IsFiniteSet(1..Len(table)) /\ Cardinality(1..Len(table)) = Len(table)
  <2>1. 1 \in Int /\ Len(table) \in Int
    BY <1>1
  <2>2. IsFiniteSet(1..Len(table)) /\ Cardinality(1..Len(table)) = IF 1 > Len(table) THEN 0 ELSE Len(table) - 1 + 1
    BY <2>1, FS_Interval
  <2> QED
    BY <1>1, <2>2
<1>3. M \subseteq 1..Len(table)
  BY <1>1, EffectiveIs
<1>4. ASSUME NEW i \in M
      PROVE  Cardinality({j \in M : Newer(table, j, i)}) < RowLimit
  <2> DEFINE N == {j \in M : Newer(table, j, i)}
             R == (1..Len(table)) \ {i}
  <2>1. ~Newer(table, i, i)
    BY <1>1, <1>3, <1>4, NewerOrder
  <2>2. N \subseteq R
    BY <1>3, <2>1
  <2>3. i \in 1..Len(table)
    BY <1>3, <1>4
  <2> HIDE DEF N, M
  <2>4. IsFiniteSet(R) /\ Cardinality(R) = Len(table) - 1
    BY <1>2, <2>3, FS_RemoveElement
  <2>5. IsFiniteSet(N) /\ Cardinality(N) <= Cardinality(R)
    BY <2>2, <2>4, FS_Subset
  <2>6. Cardinality(N) \in Nat
    BY <2>5, FS_CardinalityType
  <2>7. Cardinality(N) < RowLimit
    BY <1>1, <2>4, <2>5, <2>6
  <2> QED
    BY <2>7 DEF N
<1>5. Fetched(table, target, actions, t) = {i \in M : Cardinality({j \in M : Newer(table, j, i)}) < RowLimit}
  BY EffectiveIs
<1> HIDE DEF M
<1>6. Fetched(table, target, actions, t) = M
  BY <1>4, <1>5
<1> QED
  BY <1>6 DEF M

-----------------------------------------------------------------------------
(* The timeline. *)

\* The rows of a day hold those that are in effect at an instant of it.
LEMMA DayHolds ==
    ASSUME TypeOK, NEW target, NEW from \in Nat, NEW to \in Nat, NEW t \in Seconds, from <= t, t < to,
           MaxRows <= RowLimit
    PROVE  {i \in Overlapping(target, from, to) : Decides(i, t)}
               = InEffect(rows, target, {"on", "off", "pause"}, t)
<1>1. Table(rows) /\ Len(rows) <= RowLimit
  <2>1. rows \in Seq(Override(AllTargets)) /\ Len(rows) <= MaxRows
    BY DEF TypeOK
  <2>2. Len(rows) \in Nat /\ MaxRows \in Nat /\ RowLimit \in Nat
    BY <2>1, Constants, OverridesAssumption DEF OverridesAssumption
  <2> QED
    BY <2>1, <2>2 DEF Table
<1>2. Fetched(rows, target, {"on", "off", "pause"}, t) = Matching(rows, target, {"on", "off", "pause"}, t)
  BY <1>1, AllFetched
<1>3. t \in Nat /\ Stored(t) = t
  BY DEF Seconds, Stored
<1>4. ASSUME NEW i \in DOMAIN rows, ActiveAt(rows[i], t), rows[i].target = target
      PROVE  i \in Overlapping(target, from, to)
  <2>1. /\ rows[i].created \in Nat
        /\ rows[i].until \in Nat \cup {None} /\ rows[i].cancelled \in Nat \cup {None}
    BY <1>1, RowType DEF Seconds
  <2>2. /\ rows[i].created <= t
        /\ rows[i].until # None => t < rows[i].until
        /\ rows[i].cancelled # None => t < rows[i].cancelled
    BY <1>3, <1>4, <2>1, Constants DEF ActiveAt, Over
  <2>3. /\ rows[i].created < to
        /\ rows[i].until # None => rows[i].until > from
        /\ rows[i].cancelled # None => rows[i].cancelled > from
    BY <1>3, <2>1, <2>2
  <2> QED
    BY <1>4, <2>3 DEF Overlapping
<1>5. \A i \in DOMAIN rows : ActiveAt(rows[i], t) => rows[i].created <= t
  BY DEF ActiveAt
<1>6. Overlapping(target, from, to) \subseteq {i \in DOMAIN rows : rows[i].target = target}
  BY DEF Overlapping
<1>7. InEffect(rows, target, {"on", "off", "pause"}, t)
          = {i \in DOMAIN rows : rows[i].target = target /\ rows[i].action \in {"on", "off", "pause"}
                                 /\ ActiveAt(rows[i], t)}
  BY <1>2, <1>3, <1>5 DEF InEffect, Matching
<1> QED
  BY <1>4, <1>6, <1>7 DEF Decides

\* The timeline shows every target, for the rest of the day, under the override
\* that the engine will find in effect, or else as its schedule says.
THEOREM TimelineIsTrue == MaxRows <= RowLimit => (Spec => []TimelineAgrees)
<1> SUFFICES ASSUME MaxRows <= RowLimit PROVE Spec => []TimelineAgrees
  OBVIOUS
<1>1. ASSUME TypeOK
      PROVE  TimelineAgrees
  <2> DEFINE to == NextMidnight
             from == Midnights[DayOf(clock)]
             powers == {"on", "off", "pause"}
  <2>1. SUFFICES ASSUME NEW target \in AllTargets, NEW t \in (clock..to - 1) \cap Seconds
                 PROVE  StateAt(target, t, from, to) = Expected(target, t)
    BY DEF TimelineAgrees
  <2>2. from \in Nat /\ to \in Nat /\ t \in Seconds /\ from <= t /\ t < to
    BY <1>1, ClockIs
  <2> HIDE DEF from, to
  <2> DEFINE deciding == {i \in Overlapping(target, from, to) : Decides(i, t)}
  <2>3. deciding = InEffect(rows, target, powers, t)
    BY <1>1, <2>2, DayHolds
  <2>4. PowerOverride(rows, target, t) = IF deciding = {} THEN None ELSE Newest(rows, deciding)
    BY <2>3, EffectiveIs DEF PowerOverride
  <2>5. deciding # {} => /\ Newest(rows, deciding) \in deciding
                         /\ Newest(rows, deciding) # None
                         /\ rows[Newest(rows, deciding)].action \in powers
    <3>1. Table(rows) /\ deciding \subseteq DOMAIN rows
      BY <1>1 DEF TypeOK, Table, Overlapping
    <3>2. deciding # {} => Newest(rows, deciding) \in deciding
      BY <3>1, NewestIs
    <3>3. DOMAIN rows \subseteq Nat
      BY <3>1, RowType
    <3> QED
      BY <3>1, <3>2, <3>3, Constants DEF Decides
  <2>6. StateAt(target, t, from, to) =
            IF deciding # {}
            THEN IF rows[Newest(rows, deciding)].action \in {"on", "pause"} THEN "override" ELSE "off"
            ELSE IF IsOn(ScheduleOf(target), t) THEN "schedule" ELSE "off"
    BY DEF StateAt
  <2>7. Expected(target, t) =
            IF PowerOverride(rows, target, t) # None
            THEN IF rows[PowerOverride(rows, target, t)].action = "off" THEN "off" ELSE "override"
            ELSE IF IsOn(ScheduleOf(target), t) THEN "schedule" ELSE "off"
    BY DEF Expected
  <2> HIDE DEF deciding
  <2> QED
    BY <2>4, <2>5, <2>6, <2>7
<1>2. TypeOK => TimelineAgrees
  BY <1>1
<1> QED
  BY <1>2, TypesCorrect, PTL

-----------------------------------------------------------------------------
(* Pauses.  A request that still has rows to write has written those of its *)
(* other targets.                                                          *)

Wanted(target) == IF target = "all" THEN AllTargets ELSE {target}

\* A pause of target that was asked for at `now`.
Paused(table, target, now) ==
    \E i \in DOMAIN table :
        table[i].target = target /\ table[i].action = "pause" /\ table[i].created = now

Pausing ==
    \A h \in Handlers :
        handler[h].step = "pause" =>
            \A target \in Wanted(handler[h].target) \ handler[h].left :
                Paused(rows, target, handler[h].now)

\* What is written to the table takes no pause away.
LEMMA StillPaused ==
    ASSUME TypeOK, LocalsAgree, [Next]_vars, NEW target, NEW now, Paused(rows, target, now)
    PROVE  Paused(rows', target, now)
<1>1. PICK i \in DOMAIN rows : rows[i].target = target /\ rows[i].action = "pause" /\ rows[i].created = now
  BY DEF Paused
<1>2. i \in DOMAIN rows'
  BY NextTable
<1>3. /\ rows'[i].target = rows[i].target /\ rows'[i].action = rows[i].action
      /\ rows'[i].created = rows[i].created
  <2>1. CASE rows'[i] = rows[i]
    BY <2>1
  <2>2. CASE rows'[i] # rows[i]
    <3>1. PICK id : rows' = CancelOverride(rows, id, clock)
      BY <2>2, WhatChanges DEF OverrideCancel, CancelVacation
    <3>2. rows[i] \in Override(AllTargets)
      BY DEF TypeOK
    <3> QED
      BY <3>1, <3>2 DEF CancelOverride, Override
  <2> QED
    BY <2>1, <2>2
<1> QED
  BY <1>1, <1>2, <1>3 DEF Paused

\* A request that has rows to write from now on has just begun or just written one.
LEMMA WhoPauses ==
    ASSUME TypeOK, [Next]_vars, NEW h \in Handlers, handler'[h] # handler[h]
    PROVE  /\ handler'[h].step = "pause" => SchedulesPause(h) \/ PauseNext(h)
           /\ handler[h].step = "pause" /\ rows' # rows => PauseNext(h)
<1>1. handler \in [Handlers -> Locals] /\ Idle.step = "idle"
  BY IdleType DEF TypeOK
<1>2. ~UNCHANGED handler
  OBVIOUS
<1>3. CASE Crash
  BY <1>1, <1>3 DEF Crash
<1>4. CASE \E k \in Handlers :
              \/ VacationStart(k) \/ StoreKey(k)
              \/ VacationEnd(k) \/ CancelVacation(k) \/ ForgetKey(k)
              \/ SchedulesPause(k) \/ PauseNext(k)
              \/ WriteFails(k)
  <2>1. PICK k \in Handlers :
              \/ VacationStart(k) \/ StoreKey(k)
              \/ VacationEnd(k) \/ CancelVacation(k) \/ ForgetKey(k)
              \/ SchedulesPause(k) \/ PauseNext(k)
              \/ WriteFails(k)
    BY <1>4
  <2>2. \E locals : handler' = [handler EXCEPT ![k] = locals]
    BY <2>1 DEF VacationStart, StoreKey, VacationEnd, CancelVacation, ForgetKey, SchedulesPause, PauseNext,
                WriteFails, Enter, Leave
  <2>3. k = h
    BY <1>1, <2>2
  <2>4. CASE StoreKey(h) \/ ForgetKey(h)
    BY <1>1, <2>4 DEF StoreKey, ForgetKey, Leave
  <2>5. CASE VacationStart(h) \/ VacationEnd(h)
    BY <1>1, <2>5 DEF VacationStart, VacationEnd, Enter, Idle
  <2>6. CASE CancelVacation(h)
    BY <1>1, <2>6 DEF CancelVacation, Leave, Idle
  <2>7. CASE WriteFails(h)
    BY <1>1, <2>7 DEF WriteFails, Leave
  <2>8. CASE SchedulesPause(h)
    BY <1>1, <2>8 DEF SchedulesPause
  <2> QED
    BY <2>1, <2>3, <2>4, <2>5, <2>6, <2>7, <2>8
<1> QED
  BY <1>2, <1>3, <1>4, OneWrite, OneCancels DEF Next, vars, Advance

\* The row that a request to pause writes.
LEMMA PauseWritten ==
    ASSUME TypeOK, NEW h \in Handlers, PauseNext(h)
    PROVE  \E target \in handler[h].left :
               /\ Paused(rows', target, handler[h].now)
               /\ handler'[h] = IF handler[h].left = {target} THEN Idle
                                ELSE [handler[h] EXCEPT !.left = @ \ {target}]
<1>1. PICK target \in handler[h].left :
          /\ rows' = CreateOverride(rows, target, "pause", handler[h].until, handler[h].now)
          /\ handler' = [handler EXCEPT ![h] = IF handler[h].left = {target} THEN Idle
                                               ELSE [handler[h] EXCEPT !.left = @ \ {target}]]
  BY DEF PauseNext
<1>2. handler \in [Handlers -> Locals] /\ rows \in Seq(Override(AllTargets))
  BY DEF TypeOK
<1>3. Stored(handler[h].now) = handler[h].now
  BY LocalsType DEF Stored, Seconds
<1>4. Paused(rows', target, handler[h].now)
  <2>1. Len(rows) + 1 \in DOMAIN rows'
    BY <1>1, <1>2 DEF CreateOverride
  <2>2. rows'[Len(rows) + 1] =
            [target |-> target, action |-> "pause",
             until |-> IF handler[h].until = None THEN None ELSE Stored(handler[h].until),
             created |-> handler[h].now, cancelled |-> None]
    BY <1>1, <1>2, <1>3 DEF CreateOverride
  <2> QED
    BY <2>1, <2>2 DEF Paused
<1> QED
  BY <1>1, <1>2, <1>4

LEMMA PausingStep ==
    ASSUME TypeOK, LocalsAgree, Pausing, [Next]_vars
    PROVE  Pausing'
<1>1. SUFFICES ASSUME NEW h \in Handlers, handler'[h].step = "pause",
                      NEW target \in Wanted(handler'[h].target) \ handler'[h].left
               PROVE  Paused(rows', target, handler'[h].now)
  BY DEF Pausing
<1>2. CASE handler'[h] = handler[h]
  BY <1>1, <1>2, StillPaused DEF Pausing
<1>3. CASE SchedulesPause(h)
  <2>1. PICK wanted, until : Enter(h, [Idle EXCEPT !.step = "pause", !.target = wanted,
                                                   !.left = PausedTargets(wanted), !.until = until, !.now = clock])
    BY <1>3 DEF SchedulesPause
  <2>2. handler'[h].target = wanted /\ handler'[h].left = PausedTargets(wanted)
    BY <2>1 DEF Enter, TypeOK, Idle
  <2> QED
    BY <1>1, <2>2 DEF Wanted, PausedTargets
<1>4. CASE PauseNext(h)
  <2>1. PICK written \in handler[h].left :
            /\ Paused(rows', written, handler[h].now)
            /\ handler'[h] = IF handler[h].left = {written} THEN Idle
                             ELSE [handler[h] EXCEPT !.left = @ \ {written}]
    BY <1>4, PauseWritten
  <2>2. handler'[h] = [handler[h] EXCEPT !.left = @ \ {written}]
    BY <1>1, <2>1, IdleType
  <2>3. handler[h] \in Locals /\ handler[h].step = "pause"
    BY <1>4, LocalsType DEF PauseNext
  <2>4. /\ handler'[h].target = handler[h].target /\ handler'[h].now = handler[h].now
        /\ handler'[h].left = handler[h].left \ {written}
    BY <2>2, <2>3 DEF Locals
  <2>5. target = written \/ target \in Wanted(handler[h].target) \ handler[h].left
    BY <1>1, <2>4
  <2>6. target # written => Paused(rows, target, handler[h].now)
    BY <2>3, <2>5 DEF Pausing
  <2> QED
    BY <2>1, <2>4, <2>6, StillPaused
<1> QED
  BY <1>1, <1>2, <1>3, <1>4, WhoPauses

LEMMA AlwaysPausing == Spec => [](TypeOK /\ LocalsAgree /\ Pausing)
<1>1. Init => Pausing
  BY IdleType DEF Init, Pausing
<1> QED
  BY <1>1, InitType, TypeStep, PausingStep, PTL DEF Spec

\* The override that governs a target was not asked for before any other one
\* that is in effect for it.
LEMMA GoverningLatest ==
    ASSUME NEW table, Table(table), Len(table) <= RowLimit, NEW i \in DOMAIN table,
           NEW t \in Seconds, ActiveAt(table[i], t), table[i].action \in PowerActions
    PROVE  table[Governing(table, table[i].target, t)].created >= table[i].created
<1> DEFINE ids == InEffect(table, table[i].target, PowerActions, t)
<1>1. Stored(t) = t
  BY DEF Stored, Seconds
<1>2. i \in Matching(table, table[i].target, PowerActions, t)
  BY <1>1 DEF Matching, ActiveAt
<1>3. i \in ids
  BY <1>2, AllFetched DEF InEffect
<1>4. ids \subseteq DOMAIN table
  BY EffectiveIs
<1>5. Governing(table, table[i].target, t) = Newest(table, ids)
  BY <1>3, EffectiveIs DEF Governing
<1> HIDE DEF ids
<1>6. Leads(table, ids, Newest(table, ids))
  BY <1>3, <1>4, NewestIs
<1>7. Newest(table, ids) \in DOMAIN table
  BY <1>4, <1>6 DEF Leads
<1>8. i = Newest(table, ids) \/ Newer(table, Newest(table, ids), i)
  BY <1>3, <1>6 DEF Leads
<1>9. table[i].created \in Nat /\ table[Newest(table, ids)].created \in Nat
  BY <1>7, RowType
<1> QED
  BY <1>5, <1>8, <1>9 DEF Newer

\* When a request to pause is answered, each of its targets has a pause of that
\* time, and unless it was cancelled meanwhile or is over, the target is governed
\* by it or by something that was asked for no earlier.
THEOREM PausesAreTaken == MaxRows <= RowLimit => (Spec => PauseTaken)
<1> SUFFICES ASSUME MaxRows <= RowLimit PROVE Spec => PauseTaken
  OBVIOUS
<1>1. ASSUME TypeOK, LocalsAgree, Pausing, [Next]_vars,
             NEW h \in Handlers, handler[h].step = "pause", handler'[h] = Idle, rows' # rows,
             NEW target \in Wanted(handler[h].target)
      PROVE  \E i \in DOMAIN rows' :
                 /\ rows'[i].target = target /\ rows'[i].action = "pause"
                 /\ rows'[i].created = handler[h].now
                 /\ ActiveAt(rows'[i], clock) =>
                        rows'[Governing(rows', target, clock)].created >= handler[h].now
  <2>1. PauseNext(h)
    BY <1>1, WhoPauses, IdleType
  <2>2. PICK written \in handler[h].left :
            /\ Paused(rows', written, handler[h].now)
            /\ handler'[h] = IF handler[h].left = {written} THEN Idle
                             ELSE [handler[h] EXCEPT !.left = @ \ {written}]
    BY <1>1, <2>1, PauseWritten
  <2>3. handler[h].left = {written}
    <3>1. handler[h] \in Locals
      BY <1>1, LocalsType
    <3>2. [handler[h] EXCEPT !.left = @ \ {written}].step = "pause"
      BY <1>1, <3>1 DEF Locals
    <3> QED
      BY <1>1, <2>2, <3>2, IdleType
  <2>4. Paused(rows', target, handler[h].now)
    <3>1. target # written => Paused(rows, target, handler[h].now)
      BY <1>1, <2>3 DEF Pausing
    <3> QED
      BY <1>1, <2>2, <3>1, StillPaused
  <2>5. PICK i \in DOMAIN rows' :
            rows'[i].target = target /\ rows'[i].action = "pause" /\ rows'[i].created = handler[h].now
    BY <2>4 DEF Paused
  <2>6. Table(rows') /\ Len(rows') <= RowLimit
    <3>1. rows' \in Seq(Override(AllTargets)) /\ Len(rows') <= MaxRows
      BY <1>1, NextTable DEF TableOK
    <3>2. Len(rows') \in Nat /\ MaxRows \in Nat /\ RowLimit \in Nat
      BY <3>1, Constants, OverridesAssumption DEF OverridesAssumption
    <3> QED
      BY <3>1, <3>2 DEF Table
  <2>7. clock \in Seconds
    BY <1>1, ClockIs
  <2>8. ActiveAt(rows'[i], clock) =>
            rows'[Governing(rows', rows'[i].target, clock)].created >= rows'[i].created
    BY <2>5, <2>6, <2>7, GoverningLatest DEF PowerActions
  <2> QED
    BY <2>5, <2>8
<1>2. TypeOK /\ LocalsAgree /\ Pausing /\ [Next]_vars
        => [\A h \in Handlers :
              handler[h].step = "pause" /\ handler'[h] = Idle /\ rows' # rows =>
                  \A target \in IF handler[h].target = "all" THEN AllTargets ELSE {handler[h].target} :
                      \E i \in DOMAIN rows' :
                          /\ rows'[i].target = target /\ rows'[i].action = "pause"
                          /\ rows'[i].created = handler[h].now
                          /\ ActiveAt(rows'[i], clock) =>
                                 rows'[Governing(rows', target, clock)].created >= handler[h].now]_vars
  BY <1>1 DEF Wanted
<1> QED
  BY <1>2, AlwaysPausing, PTL DEF Spec, PauseTaken

-----------------------------------------------------------------------------
(* Until the schedule takes over. *)

AllEndInTime == \A target \in AllTargets : EndsInTime(ScheduleOf(target))

LEMMA SchedulesType ==
    ASSUME NEW target \in AllTargets
    PROVE  /\ ScheduleOf(target) \subseteq Windows
           /\ \A w \in ScheduleOf(target) : w.on \in Seconds /\ w.off \in Seconds
<1>1. CASE target = "host"
  BY <1>1, ActionsAssumption DEF ScheduleOf
<1>2. CASE target # "host"
  <2>1. target \in Guests /\ ScheduleOf(target) = GuestSchedule[target]
    BY <1>2 DEF AllTargets, Managed, ScheduleOf
  <2> QED
    BY <2>1, ActionsAssumption
<1> QED
  BY <1>1, <1>2

\* A schedule turns on or off at whole seconds.
LEMMA WholeCandidates ==
    ASSUME NEW target \in AllTargets, NEW from \in Nat, NEW to \in Nat
    PROVE  Candidates(ScheduleOf(target), from, to) \subseteq Seconds
<1> SUFFICES ASSUME NEW c \in Candidates(ScheduleOf(target), from, to) PROVE c \in Seconds
  OBVIOUS
<1> DEFINE s == ScheduleOf(target)
<1>1. PICK i \in InstancesCovering(s, from, to) : c = i.on \/ c = i.off
  BY DEF Candidates, Edges
<1>2. PICK w \in s, d \in Calendar : i = Instance(w, d)
  BY <1>1, CoveringIs
<1>3. w \in Windows /\ w.on \in Seconds /\ w.off \in Seconds
  BY <1>2, SchedulesType
<1>4. Midnights[d] \in Seconds /\ Midnights[d + 1] \in Seconds
  <2>1. d \in 0..LastDay + 1 /\ d + 1 \in 0..LastDay + 1
    BY CalendarAssumption DEF Calendar
  <2> QED
    BY <2>1, ActionsAssumption
<1>5. \A x, y \in Seconds : x + y \in Seconds
  BY DEF Seconds
<1>6. /\ i.on = Midnights[d] + w.on
      /\ i.off = IF Wraps(w) THEN Midnights[d + 1] + w.off ELSE Midnights[d] + w.off
  BY <1>2, <1>3, InstanceIs
<1> QED
  BY <1>1, <1>3, <1>4, <1>5, <1>6

\* The boundaries ahead of a typed state.
LEMMA TurnsAre ==
    ASSUME TypeOK, AllEndInTime, NEW target \in AllTargets, NEW far \in 0..Horizon
    PROVE  LET s == ScheduleOf(target)
               changes == {x \in clock + 1..clock + far : IsOn(s, x) # IsOn(s, x - 1)}
           IN  /\ Crossings(s, clock, clock + far) = {[at |-> t, on |-> IsOn(s, t)] : t \in changes}
               /\ changes \subseteq Seconds /\ changes \subseteq Nat
<1> DEFINE s == ScheduleOf(target)
           changes == {x \in clock + 1..clock + far : IsOn(s, x) # IsOn(s, x - 1)}
<1>1. s \subseteq Windows /\ EndsInTime(s)
  BY SchedulesType DEF AllEndInTime
<1>2. clock \in Nat /\ clock + far \in Nat /\ clock + far < Midnights[LastDay + 1]
  <2>1. clock \in Nat /\ clock <= MaxTime /\ MaxTime \in Nat /\ Horizon \in Nat /\ far \in Nat /\ far <= Horizon
    BY ClockIs, Constants
  <2>2. MaxTime + Horizon < Midnights[LastDay + 1] /\ Midnights[LastDay + 1] \in Nat
    BY ActionsAssumption, CalendarAssumption
  <2> QED
    BY <2>1, <2>2
<1>3. Crossings(s, clock, clock + far) = {[at |-> t, on |-> IsOn(s, t)] : t \in changes}
  BY <1>1, <1>2, CrossingsExact
<1>4. changes \subseteq Candidates(s, clock, clock + far)
  BY <1>1, <1>2, ChangesAtCandidates
<1>5. Candidates(s, clock, clock + far) \subseteq Seconds
  BY <1>2, WholeCandidates
<1> QED
  BY <1>3, <1>4, <1>5 DEF Seconds

\* The first of some boundaries.
LEMMA FirstIs ==
    ASSUME NEW B, \A b \in B : b.at \in Nat, B # {}
    PROVE  \E b \in B : First(B) = b.at /\ \A c \in B : First(B) <= c.at
<1> DEFINE T == {b.at : b \in B}
<1>1. PICK x \in T : \A y \in T : x <= y
  <2>1. T \subseteq Nat /\ T # {}
    OBVIOUS
  <2> HIDE DEF T
  <2> QED
    BY <2>1, Smallest
<1>2. \E b \in B : \A c \in B : b.at <= c.at
  BY <1>1
<1> DEFINE b == CHOOSE b \in B : \A c \in B : b.at <= c.at
<1>3. b \in B /\ \A c \in B : b.at <= c.at
  BY <1>2
<1>4. First(B) = b.at
  BY <1>3 DEF First
<1> QED
  BY <1>3, <1>4

\* The ends that handlers compute are those at which the schedule takes over.
LEMMA EndsAre ==
    ASSUME TypeOK, AllEndInTime, NEW by, NEW target \in AllTargets, NEW until,
           \/ by = "wake" /\ target = "host" /\ until = NextHostOn
           \/ by = "boundary" /\ target # "host" /\ until = NextBoundary(target)
           \/ by = "tonight" /\ until = NextMidnight,
           Takeovers(by, target) # {}
    PROVE  /\ until \in Takeovers(by, target) /\ until \in Seconds
           /\ \A t \in Takeovers(by, target) : until <= t
<1> DEFINE s == ScheduleOf(target)
           turns == Turns(target)
           B == {[at |-> t, on |-> IsOn(s, t)] : t \in turns}
<1>1. Crossings(s, clock, clock + Horizon) = B /\ turns \subseteq Seconds /\ turns \subseteq Nat
  <2>1. Horizon \in 0..Horizon
    BY Constants
  <2> QED
    BY <2>1, TurnsAre DEF Turns
<1>2. (\A b \in B : b.at \in turns /\ b.on = IsOn(s, b.at)) /\ (\A t \in turns : [at |-> t, on |-> IsOn(s, t)] \in B)
  OBVIOUS
<1>3. CASE by = "wake"
  <2> DEFINE C == {b \in B : b.on}
  <2>1. until = First(C)
    BY <1>1, <1>3 DEF NextHostOn, ScheduleOf
  <2>2. Takeovers(by, target) = {t \in turns : IsOn(s, t)}
    BY <1>3 DEF Takeovers
  <2>3. \A t \in Takeovers(by, target) : [at |-> t, on |-> IsOn(s, t)] \in C
    BY <1>2, <2>2
  <2>4. C # {} /\ \A b \in C : b.at \in Nat /\ b.at \in Takeovers(by, target)
    BY <1>1, <1>2, <2>2, <2>3
  <2> HIDE DEF C
  <2>5. until \in Takeovers(by, target) /\ \A c \in C : until <= c.at
    BY <2>1, <2>4, FirstIs
  <2>6. \A t \in Takeovers(by, target) : until <= t
    BY <2>3, <2>5
  <2> QED
    BY <1>1, <2>2, <2>5, <2>6
<1>4. CASE by = "boundary"
  <2>1. until = First(B)
    BY <1>1, <1>4 DEF NextBoundary
  <2>2. Takeovers(by, target) = turns
    BY <1>4 DEF Takeovers
  <2>3. B # {} /\ \A b \in B : b.at \in Nat /\ b.at \in turns
    BY <1>1, <1>2, <2>2
  <2>4. \A t \in turns : \E b \in B : b.at = t
    BY <1>2
  <2> HIDE DEF B, turns
  <2>5. until \in turns /\ \A c \in B : until <= c.at
    BY <2>1, <2>3, FirstIs
  <2>6. \A t \in turns : until <= t
    BY <2>4, <2>5
  <2> QED
    BY <1>1, <2>2, <2>5, <2>6
<1>5. CASE by = "tonight"
  <2> DEFINE d == DayOf(clock)
             later == {e \in 0..LastDay : Midnights[e] > clock}
  <2>1. Takeovers(by, target) = {Midnights[e] : e \in later}
    BY <1>5 DEF Takeovers
  <2>2. until = Midnights[d + 1]
    BY <1>5 DEF NextMidnight
  <2>3. /\ clock \in Nat /\ d \in 0..LastDay /\ Midnights[d] <= clock /\ clock < Midnights[d + 1]
        /\ Midnights[d] \in Nat /\ Midnights[d + 1] \in Nat /\ LastDay \in Nat
    BY ClockIs, DayIs, CalendarAssumption
  <2> HIDE DEF d
  <2>4. ASSUME NEW e \in later
        PROVE  d + 1 <= e /\ Midnights[d + 1] <= Midnights[e]
    <3>1. e \in 0..LastDay + 1 /\ d \in 0..LastDay + 1 /\ d + 1 \in 0..LastDay + 1 /\ clock < Midnights[e]
      BY <2>3
    <3>2. Midnights[e] \in Nat
      BY <3>1, MidnightsOrder
    <3>3. Midnights[d] < Midnights[e]
      BY <2>3, <3>1, <3>2
    <3>4. d < e
      BY <3>1, <3>3, MidnightsOrder
    <3>5. d + 1 <= e
      BY <2>3, <3>1, <3>4
    <3> QED
      BY <3>1, <3>5, MidnightsOrder
  <2>5. d + 1 \in later
    <3>1. PICK e \in later : TRUE
      BY <2>1
    <3>2. d + 1 <= e /\ e \in 0..LastDay
      BY <2>4, <3>1
    <3> QED
      BY <2>3, <3>2
  <2>6. Midnights[d + 1] \in Seconds
    <3>1. d + 1 \in 0..LastDay + 1
      BY <2>3
    <3> QED
      BY <3>1, ActionsAssumption
  <2> HIDE DEF later
  <2> QED
    BY <2>1, <2>2, <2>4, <2>5, <2>6
<1> QED
  BY <1>3, <1>4, <1>5

\* What the handlers of those ends write.
LEMMA WhoTakesOver ==
    ASSUME TypeOK, LocalsAgree, [Next]_vars, Len(rows') > Len(rows)
    PROVE  \E target \in AllTargets, action \in Actions, until \in Nat \cup {None}, now \in Nat, by \in Origins :
               /\ rows' = CreateOverride(rows, target, action, until, now) /\ origin' = Append(origin, by)
               /\ by = "wake" => target = "host" /\ until = NextHostOn
               /\ by = "boundary" => target # "host" /\ until = NextBoundary(target)
               /\ by = "tonight" => until = NextMidnight
<1> USE ClockIs, Constants, FutureType DEF Insert, Origins, Actions
<1>1. CASE GuestStart
  <2>1. "host" \notin Managed
    BY ActionsAssumption DEF Managed
  <2> QED
    BY <1>1, <2>1 DEF GuestStart
<1>2. CASE GuestStop
  BY <1>2 DEF GuestStop
<1>3. CASE HostWake
  BY <1>3 DEF HostWake
<1>4. CASE HostShutdown
  BY <1>4 DEF HostShutdown
<1>5. CASE WeatherIgnore
  BY <1>5 DEF WeatherIgnore
<1>6. ASSUME NEW h \in Handlers, VacationStart(h)
      PROVE  \E until \in Nat \cup {None} :
                 rows' = CreateOverride(rows, "host", "off", until, clock) /\ origin' = Append(origin, "vacation")
  BY <1>6 DEF VacationStart
<1>7. ASSUME NEW h \in Handlers, PauseNext(h)
      PROVE  \E target \in AllTargets, until \in Nat \cup {None}, now \in Nat :
                 rows' = CreateOverride(rows, target, "pause", until, now) /\ origin' = Append(origin, "pause")
  BY <1>7, LocalsType DEF PauseNext
<1>8. Len(rows) \in Nat /\ ~(Len(rows) > Len(rows))
  BY DEF TypeOK
<1>9. ASSUME NEW id, rows' = CancelOverride(rows, id, clock)
      PROVE  FALSE
  BY <1>8, <1>9 DEF CancelOverride, TypeOK
<1>10. ~UNCHANGED rows /\ ~OverrideCancel /\ \A h \in Handlers : ~CancelVacation(h)
  BY <1>8, <1>9 DEF OverrideCancel, CancelVacation
<1>11. \/ GuestStart \/ GuestStop \/ HostWake \/ HostShutdown \/ WeatherIgnore
       \/ \E h \in Handlers : VacationStart(h) \/ PauseNext(h)
  BY <1>10 DEF Next, vars, StoreKey, VacationEnd, ForgetKey, SchedulesPause, WriteFails, Crash, Advance
<1> QED
  BY <1>1, <1>2, <1>3, <1>4, <1>5, <1>6, <1>7, <1>11

\* For every calendar and all schedules whose windows end in time: an override that
\* shall last until the schedule takes over ends when it does, and no later.
THEOREM TakeoversAreMet == AllEndInTime => (Spec => UntilTheSchedule)
<1> SUFFICES ASSUME AllEndInTime PROVE Spec => UntilTheSchedule
  OBVIOUS
<1>1. ASSUME TypeOK, LocalsAgree, [Next]_vars, Len(rows') > Len(rows),
             Takeovers(origin'[Len(rows')], rows'[Len(rows')].target) # {}
      PROVE  LET row == rows'[Len(rows')]
                 takeovers == Takeovers(origin'[Len(rows')], row.target)
             IN  row.until \in takeovers /\ \A t \in takeovers : row.until <= t
  <2>1. PICK target \in AllTargets, action \in Actions, until \in Nat \cup {None}, now \in Nat, by \in Origins :
            /\ rows' = CreateOverride(rows, target, action, until, now) /\ origin' = Append(origin, by)
            /\ by = "wake" => target = "host" /\ until = NextHostOn
            /\ by = "boundary" => target # "host" /\ until = NextBoundary(target)
            /\ by = "tonight" => until = NextMidnight
    BY <1>1, WhoTakesOver
  <2>2. rows \in Seq(Override(AllTargets)) /\ origin \in Seq(Origins) /\ Len(origin) = Len(rows)
    BY <1>1 DEF TypeOK
  <2>3. /\ Len(rows') = Len(rows) + 1 /\ origin'[Len(rows')] = by
        /\ rows'[Len(rows')].target = target
        /\ rows'[Len(rows')].until = IF until = None THEN None ELSE Stored(until)
    BY <2>1, <2>2 DEF CreateOverride
  <2>4. by \in {"wake", "boundary", "tonight"}
    BY <1>1, <2>3 DEF Takeovers
  <2>5. /\ until \in Takeovers(by, target) /\ until \in Seconds
        /\ \A t \in Takeovers(by, target) : until <= t
    BY <1>1, <2>1, <2>3, <2>4, EndsAre
  <2>6. rows'[Len(rows')].until = until
    BY <2>3, <2>5, Constants DEF Stored, Seconds
  <2> QED
    BY <2>3, <2>5, <2>6
<1>2. TypeOK /\ LocalsAgree /\ [Next]_vars
        => [Len(rows') > Len(rows) =>
              LET row == rows'[Len(rows')]
                  takeovers == Takeovers(origin'[Len(rows')], row.target)
              IN  takeovers # {} => row.until \in takeovers /\ \A t \in takeovers : row.until <= t]_vars
  BY <1>1
<1> QED
  BY <1>2, TypesCorrect, PTL DEF Spec, UntilTheSchedule

-----------------------------------------------------------------------------
(* What is announced.  Nothing in the table or in the hands of a request was *)
(* asked for, or cancelled, later than now.                                *)

Past ==
    /\ \A i \in DOMAIN rows : /\ rows[i].created <= clock
                              /\ rows[i].cancelled # None => rows[i].cancelled <= clock
    /\ \A h \in Handlers : handler[h].now <= clock

\* What an action leaves in the hands of a request.
LEMMA NowIs ==
    ASSUME TypeOK, [Next]_vars, NEW h \in Handlers
    PROVE  handler'[h].now \in {handler[h].now, clock, 0}
<1>1. handler \in [Handlers -> Locals] /\ Idle.now = 0
  BY DEF TypeOK, Idle
<1>2. CASE UNCHANGED handler
  BY <1>2
<1>3. CASE Crash
  BY <1>1, <1>3 DEF Crash
<1>4. ASSUME NEW k \in Handlers,
             \/ VacationStart(k) \/ StoreKey(k)
             \/ VacationEnd(k) \/ CancelVacation(k) \/ ForgetKey(k)
             \/ SchedulesPause(k) \/ PauseNext(k)
             \/ WriteFails(k)
      PROVE  handler'[h].now \in {handler[h].now, clock, 0}
  <2>1. ASSUME NEW locals, locals.now \in {handler[k].now, clock, 0}, handler' = [handler EXCEPT ![k] = locals]
        PROVE  handler'[h].now \in {handler[h].now, clock, 0}
    BY <1>1, <2>1
  <2>2. ASSUME Leave(k)
        PROVE  handler'[h].now \in {handler[h].now, clock, 0}
    BY <1>1, <2>1, <2>2 DEF Leave
  <2>3. CASE StoreKey(k) \/ ForgetKey(k) \/ WriteFails(k)
    BY <2>2, <2>3 DEF StoreKey, ForgetKey, WriteFails
  <2>4. CASE VacationStart(k)
    <3> DEFINE locals == [Idle EXCEPT !.step = "key", !.id = Len(rows')]
    <3>1. handler' = [handler EXCEPT ![k] = locals]
      BY <2>4 DEF VacationStart, Enter
    <3>2. locals.now = 0
      BY DEF Idle
    <3> HIDE DEF locals
    <3> QED
      BY <2>1, <3>1, <3>2
  <2>5. CASE VacationEnd(k)
    <3> DEFINE locals == [Idle EXCEPT !.step = "cancel", !.id = ActiveVacation]
    <3>1. handler' = [handler EXCEPT ![k] = locals]
      BY <2>5 DEF VacationEnd, Enter
    <3>2. locals.now = 0
      BY DEF Idle
    <3> HIDE DEF locals
    <3> QED
      BY <2>1, <3>1, <3>2
  <2>6. CASE CancelVacation(k)
    <3> DEFINE locals == [Idle EXCEPT !.step = "forget"]
    <3>1. handler' = [handler EXCEPT ![k] = locals] \/ Leave(k)
      BY <2>6 DEF CancelVacation
    <3>2. locals.now = 0
      BY DEF Idle
    <3> HIDE DEF locals
    <3> QED
      BY <2>1, <2>2, <3>1, <3>2
  <2>7. CASE SchedulesPause(k)
    <3>1. PICK target, until : Enter(k, [Idle EXCEPT !.step = "pause", !.target = target,
                                                     !.left = PausedTargets(target), !.until = until, !.now = clock])
      BY <2>7 DEF SchedulesPause
    <3> DEFINE locals == [Idle EXCEPT !.step = "pause", !.target = target, !.left = PausedTargets(target),
                                      !.until = until, !.now = clock]
    <3>2. handler' = [handler EXCEPT ![k] = locals]
      BY <3>1 DEF Enter
    <3>3. locals.now = clock
      BY DEF Idle
    <3> HIDE DEF locals
    <3> QED
      BY <2>1, <3>2, <3>3
  <2>8. CASE PauseNext(k)
    <3>1. PICK target : handler' = [handler EXCEPT ![k] = IF handler[k].left = {target} THEN Idle
                                                         ELSE [handler[k] EXCEPT !.left = @ \ {target}]]
      BY <2>8 DEF PauseNext
    <3> DEFINE locals == IF handler[k].left = {target} THEN Idle ELSE [handler[k] EXCEPT !.left = @ \ {target}]
    <3>2. locals.now \in {handler[k].now, 0}
      <4>1. handler[k] \in Locals
        BY <1>1
      <4>2. [handler[k] EXCEPT !.left = @ \ {target}].now = handler[k].now
        BY <4>1 DEF Locals
      <4> QED
        BY <1>1, <4>2
    <3>3. handler' = [handler EXCEPT ![k] = locals]
      BY <3>1
    <3> HIDE DEF locals
    <3> QED
      BY <2>1, <3>2, <3>3
  <2> QED
    BY <1>4, <2>3, <2>4, <2>5, <2>6, <2>7, <2>8
<1> QED
  BY <1>2, <1>3, <1>4, OneWrite, OneCancels DEF Next, vars, Advance

\* What an action does to the table, and of what time.
LEMMA WhenWritten ==
    ASSUME TypeOK, LocalsAgree, Past, [Next]_vars, ~UNCHANGED rows
    PROVE  /\ Len(rows') > Len(rows) =>
                  \E target, action, until : \E now \in Nat :
                      now <= clock /\ rows' = CreateOverride(rows, target, action, until, now)
           /\ ~(Len(rows') > Len(rows)) => \E id \in DOMAIN rows : rows' = CancelOverride(rows, id, clock)
<1>1. clock \in Nat /\ clock <= clock
  BY ClockIs
<1>2. CASE \E id \in DOMAIN rows : rows' = CancelOverride(rows, id, clock)
  <2>1. Len(rows') = Len(rows) /\ Len(rows) \in Nat
    BY <1>2 DEF CancelOverride, TypeOK
  <2> QED
    BY <1>2, <2>1
<1>3. ASSUME NEW target, NEW action, NEW until, NEW now \in Nat, now <= clock,
             rows' = CreateOverride(rows, target, action, until, now)
      PROVE  /\ Len(rows') > Len(rows)
             /\ \E t, a, u : \E n \in Nat : n <= clock /\ rows' = CreateOverride(rows, t, a, u, n)
  <2>1. Len(rows') = Len(rows) + 1 /\ Len(rows) \in Nat
    BY <1>3 DEF CreateOverride, TypeOK
  <2> QED
    BY <1>3, <2>1
<1>4. CASE GuestStart \/ GuestStop \/ HostWake \/ HostShutdown \/ WeatherIgnore
  <2>1. \E target, action, until : rows' = CreateOverride(rows, target, action, until, clock)
    BY <1>4 DEF GuestStart, GuestStop, HostWake, HostShutdown, WeatherIgnore, Insert
  <2> QED
    BY <1>1, <1>3, <2>1
<1>5. CASE OverrideCancel
  BY <1>2, <1>5 DEF OverrideCancel
<1>6. ASSUME NEW h \in Handlers, VacationStart(h)
      PROVE  \E target, action, until : rows' = CreateOverride(rows, target, action, until, clock)
  BY <1>6 DEF VacationStart, Insert
<1>7. ASSUME NEW h \in Handlers, PauseNext(h)
      PROVE  \E target, action, until : \E now \in Nat :
                 now <= clock /\ rows' = CreateOverride(rows, target, action, until, now)
  <2>1. handler[h].now \in Nat /\ handler[h].now <= clock
    BY LocalsType DEF Past
  <2> QED
    BY <1>7, <2>1 DEF PauseNext
<1>8. ASSUME NEW h \in Handlers, CancelVacation(h)
      PROVE  \E id \in DOMAIN rows : rows' = CancelOverride(rows, id, clock)
  BY <1>8 DEF CancelVacation, Cancellable
<1> QED
  BY <1>1, <1>2, <1>3, <1>4, <1>5, <1>6, <1>7, <1>8 DEF Next, vars, StoreKey, VacationEnd, ForgetKey, SchedulesPause,
     WriteFails, Crash, Advance

LEMMA PastStep ==
    ASSUME TypeOK, LocalsAgree, Past, [Next]_vars
    PROVE  Past'
<1>1. clock \in Nat /\ clock' \in Nat /\ clock <= clock'
  <2>1. clock \in Nat
    BY ClockIs
  <2>2. clock' = clock \/ clock' = clock + 2
    BY OneWrite, OneCancels DEF Next, vars, VacationStart, StoreKey, VacationEnd, CancelVacation, ForgetKey,
            SchedulesPause, PauseNext, WriteFails, Crash, Advance
  <2> QED
    BY <2>1, <2>2
<1>2. \A h \in Handlers : handler'[h].now <= clock'
  <2> SUFFICES ASSUME NEW h \in Handlers PROVE handler'[h].now <= clock'
    OBVIOUS
  <2>1. handler[h].now \in Nat /\ handler[h].now <= clock
    BY LocalsType DEF Past
  <2> QED
    BY <1>1, <2>1, NowIs
<1>3. rows \in Seq(Override(AllTargets)) /\ rows' \in Seq(Override(AllTargets))
  BY NextTable DEF TypeOK, TableOK
<1>4. ASSUME NEW target, NEW action, NEW until, NEW now \in Nat, now <= clock,
             rows' = CreateOverride(rows, target, action, until, now), NEW i \in DOMAIN rows'
      PROVE  rows'[i].created <= clock /\ (rows'[i].cancelled # None => rows'[i].cancelled <= clock)
  <2>1. CASE i \in DOMAIN rows
    <3>1. rows'[i] = rows[i]
      BY <1>3, <1>4, <2>1 DEF CreateOverride
    <3> QED
      BY <2>1, <3>1 DEF Past
  <2>2. CASE i \notin DOMAIN rows
    <3>1. rows'[i].created = Stored(now) /\ rows'[i].cancelled = None
      BY <1>3, <1>4, <2>2 DEF CreateOverride
    <3>2. Stored(now) \in Nat /\ Stored(now) <= now
      BY StoredIs
    <3> QED
      BY <1>1, <1>4, <3>1, <3>2
  <2> QED
    BY <2>1, <2>2
<1>5. ASSUME NEW id \in DOMAIN rows, rows' = CancelOverride(rows, id, clock), NEW i \in DOMAIN rows'
      PROVE  rows'[i].created <= clock /\ (rows'[i].cancelled # None => rows'[i].cancelled <= clock)
  <2>1. /\ i \in DOMAIN rows /\ rows'[i].created = rows[i].created
        /\ rows'[i].cancelled \in {rows[i].cancelled, clock}
    BY <1>3, <1>5, ClockIs DEF CancelOverride, Override
  <2> QED
    BY <1>1, <2>1 DEF Past
<1>6. ASSUME NEW i \in DOMAIN rows'
      PROVE  rows'[i].created <= clock /\ (rows'[i].cancelled # None => rows'[i].cancelled <= clock)
  <2>1. CASE UNCHANGED rows
    BY <2>1 DEF Past
  <2>2. CASE ~UNCHANGED rows /\ Len(rows') > Len(rows)
    <3>1. \E target, action, until : \E now \in Nat :
              now <= clock /\ rows' = CreateOverride(rows, target, action, until, now)
      BY <2>2, WhenWritten
    <3> QED
      BY <1>4, <3>1
  <2>3. CASE ~UNCHANGED rows /\ ~(Len(rows') > Len(rows))
    <3>1. \E id \in DOMAIN rows : rows' = CancelOverride(rows, id, clock)
      BY <2>3, WhenWritten
    <3> QED
      BY <1>5, <3>1
  <2> QED
    BY <2>1, <2>2, <2>3
<1>7. \A i \in DOMAIN rows' : /\ rows'[i].created <= clock'
                              /\ rows'[i].cancelled # None => rows'[i].cancelled <= clock'
  <2> SUFFICES ASSUME NEW i \in DOMAIN rows'
               PROVE  /\ rows'[i].created <= clock'
                      /\ rows'[i].cancelled # None => rows'[i].cancelled <= clock'
    OBVIOUS
  <2>1. rows'[i] \in Override(AllTargets)
    BY <1>3
  <2>2. rows'[i].created \in Nat /\ rows'[i].cancelled \in Nat \cup {None}
    BY <2>1 DEF Override, Seconds
  <2> QED
    BY <1>1, <1>6, <2>2
<1> QED
  BY <1>2, <1>7 DEF Past

LEMMA AlwaysPast == Spec => [](TypeOK /\ LocalsAgree /\ Past)
<1>1. Init => Past
  <2> SUFFICES ASSUME Init PROVE Past
    OBVIOUS
  <2>1. clock \in Nat /\ DOMAIN rows = {}
    BY Constants DEF Init
  <2>2. \A h \in Handlers : handler[h].now = 0
    BY DEF Init, Idle
  <2> QED
    BY <2>1, <2>2 DEF Past
<1> QED
  BY <1>1, InitType, TypeStep, PastStep, PTL DEF Spec

\* A row that is in effect and no longer is two half seconds later has ended then.
LEMMA EndsThen ==
    ASSUME TypeOK, Past, NEW i \in DOMAIN rows, NEW t \in Seconds, clock + 2 <= t
    PROVE  /\ t - 2 \in Seconds /\ rows[i].created <= Stored(t) /\ rows[i].created <= Stored(t - 2)
           /\ ActiveAt(rows[i], t) => ActiveAt(rows[i], t - 2)
           /\ ActiveAt(rows[i], t - 2) /\ ~ActiveAt(rows[i], t) =>
                  rows[i].until = t /\ ActiveAt(rows[i], clock)
<1>1. Table(rows)
  BY DEF TypeOK, Table
<1>2. /\ rows[i].created \in Nat /\ rows[i].until \in Seconds \cup {None} /\ rows[i].until \in Nat \cup {None}
      /\ rows[i].cancelled \in Nat \cup {None}
  BY <1>1, RowType DEF Seconds
<1>3. clock \in Nat /\ clock \in Seconds /\ t \in Nat /\ t - 2 \in Nat
  BY ClockIs DEF Seconds
<1>4. t - 2 \in Seconds /\ Stored(t) = t /\ Stored(t - 2) = t - 2
  BY <1>3 DEF Seconds, Stored
<1>5. rows[i].created <= clock /\ (rows[i].cancelled # None => rows[i].cancelled <= clock)
  BY DEF Past
<1>6. rows[i].until # None /\ t - 2 < rows[i].until /\ rows[i].until <= t => rows[i].until = t
  BY <1>2, <1>3, <1>4, Constants DEF Seconds
<1> QED
  BY <1>2, <1>3, <1>4, <1>5, <1>6, Constants DEF ActiveAt, Over

\* For every calendar and all schedules whose windows end in time, and tables that
\* one query reads: whatever will change within a day, for the schedule, for an
\* override that ends or for one that it hides now, is announced for that instant.
THEOREM NothingUnannounced == MaxRows <= RowLimit /\ AllEndInTime => (Spec => []UpcomingComplete)
<1> SUFFICES ASSUME MaxRows <= RowLimit, AllEndInTime PROVE Spec => []UpcomingComplete
  OBVIOUS
<1>1. ASSUME TypeOK, Past, NEW target \in AllTargets, NEW t \in (clock + 2..clock + FullDay) \cap Seconds,
             t \notin Upcoming(target, clock, clock + FullDay)
      PROVE  Expected(target, t) = Expected(target, t - 2)
  <2> DEFINE s == ScheduleOf(target)
             powers == {"on", "off", "pause"}
             changes == {x \in clock + 1..clock + FullDay : IsOn(s, x) # IsOn(s, x - 1)}
  <2>1. /\ clock \in Nat /\ clock \in Seconds /\ t \in Nat /\ t \in Seconds /\ clock + 2 <= t
        /\ t <= clock + FullDay /\ FullDay \in Nat /\ FullDay \in 0..Horizon
    BY <1>1, ClockIs, Constants, ActionsAssumption, CalendarAssumption
  <2>2. /\ Crossings(s, clock, clock + FullDay) = {[at |-> x, on |-> IsOn(s, x)] : x \in changes}
        /\ changes \subseteq Seconds
    BY <1>1, <2>1, TurnsAre
  <2>3. IsOn(s, t) = IsOn(s, t - 2)
    <3>1. t \in clock + 1..clock + FullDay /\ t - 1 \in clock + 1..clock + FullDay /\ (t - 1) - 1 = t - 2
      BY <2>1
    <3>2. t \notin changes
      <4>1. \A x \in changes : \E b \in Crossings(s, clock, clock + FullDay) : b.at = x
        <5> SUFFICES ASSUME NEW x \in changes
                     PROVE  \E b \in Crossings(s, clock, clock + FullDay) : b.at = x
          OBVIOUS
        <5> DEFINE b == [at |-> x, on |-> IsOn(s, x)]
        <5>1. b.at = x
          OBVIOUS
        <5>2. b \in Crossings(s, clock, clock + FullDay)
          BY <2>2
        <5> QED
          BY <5>1, <5>2
      <4> HIDE DEF changes
      <4> QED
        BY <1>1, <4>1 DEF Upcoming
    <3>3. t - 1 \notin changes
      <4>1. t - 1 \notin Seconds
        BY <2>1 DEF Seconds
      <4> QED
        BY <2>2, <4>1
    <3> QED
      BY <3>1, <3>2, <3>3 DEF IsOn
  <2>4. Table(rows) /\ Len(rows) <= RowLimit
    <3>1. rows \in Seq(Override(AllTargets)) /\ Len(rows) <= MaxRows
      BY <1>1 DEF TypeOK
    <3>2. Len(rows) \in Nat /\ MaxRows \in Nat /\ RowLimit \in Nat
      BY <3>1, Constants, OverridesAssumption DEF OverridesAssumption
    <3> QED
      BY <3>1, <3>2 DEF Table
  <2>5. ASSUME NEW i \in DOMAIN rows, rows[i].target = target
        PROVE  ActiveAt(rows[i], t) <=> ActiveAt(rows[i], t - 2)
    <3>1. ActiveAt(rows[i], t) => ActiveAt(rows[i], t - 2)
      BY <1>1, <2>1, EndsThen
    <3>2. SUFFICES ASSUME ActiveAt(rows[i], t - 2), ~ActiveAt(rows[i], t) PROVE FALSE
      BY <3>1 DEF ActiveAt
    <3>3. rows[i].until = t /\ ActiveAt(rows[i], clock)
      BY <1>1, <2>1, <3>2, EndsThen
    <3>4. t # None
      BY <2>1, Constants
    <3>5. EndsWithin(i, clock, clock + FullDay)
      BY <2>1, <3>3, <3>4 DEF EndsWithin
    <3>6. i \in Overlapping(target, clock, clock + FullDay)
      <4>1. /\ rows[i].created \in Nat /\ rows[i].cancelled \in Nat \cup {None}
        BY <2>4, RowType DEF Seconds
      <4>2. rows[i].created <= clock /\ (rows[i].cancelled # None => clock < rows[i].cancelled)
        BY <2>1, <3>3, <4>1, Constants DEF ActiveAt, Over
      <4>3. clock < clock + FullDay
        BY <2>1
      <4> QED
        BY <2>1, <2>5, <3>3, <4>1, <4>2, <4>3 DEF Overlapping
    <3> QED
      BY <1>1, <3>3, <3>5, <3>6 DEF Upcoming
  <2>6. InEffect(rows, target, powers, t) = InEffect(rows, target, powers, t - 2)
    <3>1. \A u : Fetched(rows, target, powers, u) = Matching(rows, target, powers, u)
      BY <2>4, AllFetched
    <3>2. \A i \in DOMAIN rows : rows[i].created <= Stored(t) /\ rows[i].created <= Stored(t - 2)
      BY <1>1, <2>1, EndsThen
    <3>3. Matching(rows, target, powers, t) = Matching(rows, target, powers, t - 2)
      BY <3>2 DEF Matching
    <3>4. \A i \in Matching(rows, target, powers, t) : i \in DOMAIN rows /\ rows[i].target = target
      BY DEF Matching
    <3> QED
      BY <2>5, <3>1, <3>3, <3>4 DEF InEffect
  <2>7. PowerOverride(rows, target, t) = PowerOverride(rows, target, t - 2)
    <3>1. \A u : PowerOverride(rows, target, u) =
              IF InEffect(rows, target, powers, u) = {} THEN None ELSE Newest(rows, InEffect(rows, target, powers, u))
      BY EffectiveIs DEF PowerOverride
    <3> QED
      BY <2>6, <3>1
  <2> QED
    BY <2>3, <2>7 DEF Expected
<1>2. TypeOK /\ Past => UpcomingComplete
  BY <1>1 DEF UpcomingComplete
<1> QED
  BY <1>2, AlwaysPast, PTL
==============================================================================
