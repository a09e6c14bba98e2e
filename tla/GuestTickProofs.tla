---------------------------- MODULE GuestTickProofs ----------------------------
(***************************************************************************)
(* Proofs about GuestTick for every configuration: any guests, schedules   *)
(* and dependencies, any overrides, and whatever goes wrong between the    *)
(* steps of a tick.                                                        *)
(***************************************************************************)
EXTENDS GuestTick, TimetableProofs

-----------------------------------------------------------------------------
(* What a guest is told. *)

LEMMA Settings ==
    /\ MaxTime \in Nat /\ MaxRows \in Nat /\ MaxEvents \in Nat /\ None \notin Nat
    /\ Managed \subseteq Guests /\ GuestActions \subseteq Actions
  BY GuestsAssumption, OverridesAssumption DEF GuestsAssumption, OverridesAssumption, Managed, Actions

LEMMA IsTable ==
    ASSUME NEW table \in Seq(Override(Managed))
    PROVE  Table(table)
  BY DEF Table

OneView == [override : Nat \cup {None}, on : BOOLEAN]

LEMMA ViewType ==
    ASSUME NEW table \in Seq(Override(Managed)), NEW g, NEW t
    PROVE  /\ View(table, g, t) \in OneView
           /\ View(table, g, t).override \in DOMAIN table \cup {None}
<1>1. /\ EffectiveOverrideOf(table, g, t, Actions) \in DOMAIN table \cup {None}
      /\ EffectiveOverrideOf(table, g, t, Actions) \in Nat \cup {None}
  BY IsTable, EffectiveType
<1>2. ScheduledOn(g, t) \in BOOLEAN
  BY DEF ScheduledOn
<1> QED
  BY <1>1, <1>2 DEF View, OneView, EffectiveOverride

\* Instructions are the same all through a second.
LEMMA ViewOfSecond ==
    ASSUME NEW table \in Seq(Override(Managed)), NEW g \in Managed, NEW t \in Nat
    PROVE  View(table, g, t) = View(table, g, Stored(t))
<1>1. EffectiveOverrideOf(table, g, t, Actions) = EffectiveOverrideOf(table, g, Stored(t), Actions)
  BY IsTable, WholeSecond
<1>2. ScheduledOn(g, t) = ScheduledOn(g, Stored(t))
  <2>1. g \in Guests
    BY Settings
  <2>2. OnAt[g] \subseteq Nat
    BY <2>1, GuestsAssumption DEF GuestsAssumption
  <2>3. \A u \in OnAt[g] : Stored(u) \in OnAt[g] /\ Stored(u) + 1 \in OnAt[g]
    BY <2>1, GuestsAssumption DEF GuestsAssumption
  <2>4. t = Stored(t) \/ t = Stored(t) + 1
    BY DEF Stored
  <2>5. Stored(Stored(t)) = Stored(t)
    BY DEF Stored
  <2> QED
    BY <2>3, <2>4, <2>5 DEF ScheduledOn
<1> QED
  BY <1>1, <1>2 DEF View, EffectiveOverride

\* Rows of the table stay, and what is written changes no instruction of an
\* earlier second.
Writes == OverrideCreated \/ OverrideCancelled

LEMMA RowChange ==
    ASSUME clock \in Nat, rows \in Seq(Override(Managed)), Writes
    PROVE  /\ rows' \in Seq(Override(Managed))
           /\ Len(rows') = Len(rows) \/ (Len(rows') = Len(rows) + 1 /\ Len(rows) < MaxRows /\ MoreEvents)
           /\ \A i \in DOMAIN rows : i \in DOMAIN rows' /\ rows'[i].action = rows[i].action
           /\ \A g \in Managed, t \in Nat : t < Stored(clock) => View(rows', g, t) = View(rows, g, t)
<1>1. ASSUME rows' \in Seq(Override(Managed)), NEW t \in Nat, Extends(rows', rows, t), NEW g \in Managed
      PROVE  View(rows', g, t) = View(rows, g, t)
  <2>1. EffectiveOverrideOf(rows', g, t, Actions) = EffectiveOverrideOf(rows, g, t, Actions)
    BY <1>1, IsTable, SameBefore
  <2> QED
    BY <2>1 DEF View, EffectiveOverride
<1>2. CASE OverrideCreated
  <2>1. PICK g \in Managed, action \in GuestActions, until \in {Stored(t) : t \in clock + 2..MaxTime} \cup {None} :
           rows' = CreateOverride(rows, g, action, until, clock)
    BY <1>2 DEF OverrideCreated
  <2>2. action \in Actions /\ until \in Nat \cup {None}
    <3>1. \A t \in clock + 2..MaxTime : t \in Nat
      BY Settings
    <3> QED
      BY <3>1, Settings, StoredIs
  <2>3. /\ rows' \in Seq(Override(Managed)) /\ Len(rows') = Len(rows) + 1
        /\ \A i \in DOMAIN rows : i \in DOMAIN rows' /\ rows'[i] = rows[i]
        /\ \A t \in Nat : t < Stored(clock) => Extends(rows', rows, t)
    <3> DEFINE table == CreateOverride(rows, g, action, until, clock)
    <3>1. /\ table \in Seq(Override(Managed)) /\ Len(table) = Len(rows) + 1
          /\ \A i \in DOMAIN rows : i \in DOMAIN table /\ table[i] = rows[i]
          /\ \A t \in Nat : t < Stored(clock) => Extends(table, rows, t)
      BY <2>2, CreatedLater
    <3> QED
      BY <2>1, <3>1
  <2>4. Len(rows) < MaxRows /\ MoreEvents
    BY <1>2 DEF OverrideCreated
  <2> QED
    BY <1>1, <2>3, <2>4
<1>3. CASE OverrideCancelled
  <2>1. PICK id \in DOMAIN rows : rows[id].cancelled = None /\ rows' = CancelOverride(rows, id, clock)
    BY <1>3 DEF OverrideCancelled, Cancellable
  <2>2. /\ rows' \in Seq(Override(Managed)) /\ Len(rows') = Len(rows)
        /\ \A i \in DOMAIN rows : i \in DOMAIN rows' /\ rows'[i].action = rows[i].action
        /\ \A t \in Nat : t < Stored(clock) => Extends(rows', rows, t)
    BY <2>1, CancelledLater
  <2> QED
    BY <1>1, <2>2
<1> QED
  BY <1>2, <1>3 DEF Writes

-----------------------------------------------------------------------------
(* Type correctness *)

LEMMA InitTyped == Init => TypeOK
<1> SUFFICES ASSUME Init PROVE TypeOK
  OBVIOUS
<1>1. NoTick \in TickLocals
  BY DEF NoTick, TickLocals
<1>2. running \subseteq Guests
  BY GuestsAssumption DEF Init, GuestsAssumption
<1>3. rows \in Seq(Override(Managed)) /\ Len(rows) = 0
  BY DEF Init
<1> QED
  BY <1>1, <1>2, <1>3, Settings DEF Init, TypeOK

\* The steps of a tick.
Steps == BeginTick \/ Plan \/ StopGuest \/ StartGuest \/ Fail \/ Save \/ Crash

LEMMA TickTyped == TypeOK /\ Steps => TypeOK'
<1> SUFFICES ASSUME TypeOK, Steps PROVE TypeOK'
  OBVIOUS
<1>1. NoTick \in TickLocals
  BY DEF NoTick, TickLocals
<1>2. CASE BeginTick
  <2>1. PICK found \in {Guests} \cup {Guests \ {g} : g \in Managed} :
           /\ IF found = Guests THEN UNCHANGED mishaps ELSE May("missing") /\ Count
           /\ tick' = [NoTick EXCEPT !.now = clock, !.found = found, !.actual = running \cap found]
    BY <1>2 DEF BeginTick
  <2>2. clock \in Nat /\ found \subseteq Guests /\ running \cap found \subseteq Guests
    BY Settings DEF TypeOK
  <2>3. tick' \in TickLocals
    BY <2>1, <2>2 DEF NoTick, TickLocals
  <2>4. mishaps' \in Nat /\ mishaps' + Len(rows) <= MaxEvents
    <3>1. Len(rows) \in Nat
      BY DEF TypeOK
    <3> QED
      BY <2>1, <3>1, Settings DEF TypeOK, May, Count, MoreEvents
  <2>5. status' \in [Managed -> {"due", "read", "settled", "byHand"}]
    BY <1>2 DEF BeginTick, TypeOK
  <2> QED
    BY <1>2, <2>3, <2>4, <2>5 DEF BeginTick, TypeOK, world
<1>3. CASE Plan
  <2> DEFINE view == [g \in Managed |-> View(rows, g, tick.now)]
  <2>1. view \in Views
    BY ViewType DEF TypeOK, Views, OneView
  <2>2. /\ tick' = [tick EXCEPT !.view = view, !.starts = tick'.starts, !.stops = tick'.stops]
        /\ tick'.starts \subseteq Managed /\ tick'.stops \subseteq Managed
    BY <1>3 DEF Plan, TypeOK, TickLocals
  <2> HIDE DEF view
  <2>3. tick' \in TickLocals
    BY <2>1, <2>2 DEF TypeOK, TickLocals
  <2> QED
    BY <1>3, <2>3 DEF Plan, TypeOK, world
<1>4. CASE StopGuest
  <2>1. PICK g \in tick.stops, ok \in BOOLEAN :
           /\ Execute(running \ {g}, ok)
           /\ tick' = [tick EXCEPT !.stops = @ \ {g}, !.failed = @ \/ ~ok]
           /\ HandledNow(g)
    BY <1>4 DEF StopGuest
  <2>2. tick' \in TickLocals /\ running' \subseteq Guests
    BY <2>1 DEF TypeOK, TickLocals, Execute
  <2>3. mishaps' \in Nat /\ mishaps' + Len(rows) <= MaxEvents
    <3>1. Len(rows) \in Nat
      BY DEF TypeOK
    <3> QED
      BY <2>1, <3>1, Settings DEF TypeOK, Execute, May, Count, MoreEvents
  <2>4. status' \in [Managed -> {"due", "read", "settled", "byHand"}]
    BY <2>1 DEF HandledNow, TypeOK
  <2> QED
    BY <1>4, <2>2, <2>3, <2>4 DEF StopGuest, TypeOK
<1>5. CASE StartGuest
  <2>1. PICK g \in tick.starts, ok \in BOOLEAN :
           /\ Execute(running \cup {g}, ok)
           /\ tick' = [tick EXCEPT !.starts = @ \ {g}, !.failed = @ \/ ~ok]
           /\ HandledNow(g)
    BY <1>5 DEF StartGuest
  <2>2. tick' \in TickLocals /\ running' \subseteq Guests
    <3>1. g \in Guests
      BY Settings DEF TypeOK, TickLocals
    <3> QED
      BY <2>1, <3>1 DEF TypeOK, TickLocals, Execute
  <2>3. mishaps' \in Nat /\ mishaps' + Len(rows) <= MaxEvents
    <3>1. Len(rows) \in Nat
      BY DEF TypeOK
    <3> QED
      BY <2>1, <3>1, Settings DEF TypeOK, Execute, May, Count, MoreEvents
  <2>4. status' \in [Managed -> {"due", "read", "settled", "byHand"}]
    BY <2>1 DEF HandledNow, TypeOK
  <2> QED
    BY <1>5, <2>2, <2>3, <2>4 DEF StartGuest, TypeOK
<1>6. CASE Fail
  BY <1>1, <1>6 DEF Fail, Return, TypeOK, world
<1>7. CASE Save
  <2>1. lastTick' \in Seconds
    <3>1. tick.now \in Nat
      BY DEF TypeOK, TickLocals
    <3> QED
      BY <1>7, <3>1, StoredIs DEF Save, Checkpoint
  <2>2. acted' \in Views \cup {None}
    BY <1>7 DEF Save, TypeOK, TickLocals
  <2>3. status' \in [Managed -> {"due", "read", "settled", "byHand"}]
    BY <1>7 DEF Save, TypeOK
  <2> QED
    BY <1>1, <1>7, <2>1, <2>2, <2>3 DEF Save, Return, TypeOK, world
<1>8. CASE Crash
  <2>1. mishaps' \in Nat /\ mishaps' + Len(rows) <= MaxEvents
    <3>1. Len(rows) \in Nat
      BY DEF TypeOK
    <3> QED
      BY <1>8, <3>1, Settings DEF Crash, TypeOK, May, Count, MoreEvents
  <2> QED
    BY <1>1, <1>8, <2>1 DEF Crash, Return, TypeOK, world
<1> QED
  BY <1>2, <1>3, <1>4, <1>5, <1>6, <1>7, <1>8 DEF Steps

\* The steps of the world around it.
Others == Advance \/ Outage \/ BootDone \/ GuestControl \/ Writes

LEMMA OthersTyped == TypeOK /\ Others => TypeOK'
<1> SUFFICES ASSUME TypeOK, Others PROVE TypeOK'
  OBVIOUS
<1>1. Len(rows) \in Nat /\ clock \in Nat /\ mishaps \in Nat
  BY DEF TypeOK
<1>2. ASSUME NEW mishap, May(mishap), Count
      PROVE  mishaps' \in Nat /\ mishaps' + Len(rows) <= MaxEvents
  BY <1>1, <1>2, Settings DEF May, Count, MoreEvents
<1>3. ASSUME NEW guests \in SUBSET Guests, Intervene(guests)
      PROVE  touched' \subseteq Guests
  BY <1>3 DEF Intervene, TypeOK
<1>4. ASSUME NEW table, NEW t, Due(table, t)
      PROVE  status' \in [Managed -> {"due", "read", "settled", "byHand"}]
  BY <1>4 DEF Due, TypeOK
<1>5. CASE Advance
  <2>1. status' \in [Managed -> {"due", "read", "settled", "byHand"}]
    BY <1>4, <1>5 DEF Advance
  <2>2. clock' \in 0..MaxTime
    BY <1>1, <1>5, Settings DEF Advance, TypeOK
  <2> QED
    BY <1>5, <2>1, <2>2 DEF Advance, TypeOK
<1>6. CASE Outage
  <2>1. mishaps' \in Nat /\ mishaps' + Len(rows) <= MaxEvents
    BY <1>2, <1>6 DEF Outage
  <2>2. touched' \subseteq Guests
    BY <1>3, <1>6 DEF Outage
  <2>3. status' \in [Managed -> {"due", "read", "settled", "byHand"}]
    BY <1>6 DEF Outage, TypeOK
  <2> QED
    BY <1>6, <2>1, <2>2, <2>3 DEF Outage, TypeOK
<1>7. CASE BootDone
  BY <1>7, GuestsAssumption DEF BootDone, TypeOK, GuestsAssumption
<1>8. CASE GuestControl
  <2>1. PICK g \in Managed :
           /\ running' = IF g \in running THEN running \ {g} ELSE running \cup {g}
           /\ Intervene({g})
           /\ status' = [status EXCEPT ![g] = IF pc = "idle" /\ @ = "settled" THEN "byHand" ELSE @]
    BY <1>8 DEF GuestControl
  <2>2. mishaps' \in Nat /\ mishaps' + Len(rows) <= MaxEvents
    BY <1>2, <1>8 DEF GuestControl
  <2>3. g \in Guests
    BY Settings
  <2>4. touched' \subseteq Guests
    BY <1>3, <2>1, <2>3
  <2>5. running' \subseteq Guests
    BY <2>1, <2>3 DEF TypeOK
  <2>6. status' \in [Managed -> {"due", "read", "settled", "byHand"}]
    BY <2>1 DEF TypeOK
  <2> QED
    BY <1>8, <2>2, <2>4, <2>5, <2>6 DEF GuestControl, TypeOK
<1>9. CASE Writes
  <2>1. status' \in [Managed -> {"due", "read", "settled", "byHand"}]
    BY <1>4, <1>9 DEF Writes, OverrideCreated, OverrideCancelled
  <2>2. /\ rows' \in Seq(Override(Managed))
        /\ Len(rows') = Len(rows) \/ (Len(rows') = Len(rows) + 1 /\ Len(rows) < MaxRows /\ MoreEvents)
    BY <1>1, <1>9, RowChange DEF TypeOK
  <2>3. UNCHANGED <<clock, up, running, lastTick, pc, tick, mishaps, acted, touched>>
    BY <1>9 DEF Writes, OverrideCreated, OverrideCancelled
  <2>4. Len(rows') <= MaxRows /\ mishaps' + Len(rows') <= MaxEvents
    BY <1>1, <2>2, <2>3, Settings DEF TypeOK, MoreEvents
  <2> QED
    BY <2>1, <2>2, <2>3, <2>4 DEF TypeOK
<1> QED
  BY <1>5, <1>6, <1>7, <1>8, <1>9 DEF Others

LEMMA NextIs == Next => Steps \/ Others
  BY DEF Next, Steps, Others, Writes

LEMMA StepTyped == TypeOK /\ [Next]_vars => TypeOK'
<1>1. TypeOK /\ UNCHANGED vars => TypeOK'
  BY DEF TypeOK, vars, world
<1> QED
  BY <1>1, TickTyped, OthersTyped, NextIs

\* The store holds whole seconds and overrides of scheduled guests, the tick
\* never starts or stops a guest that is always on, and what it remembers is
\* what instructions look like, whatever the configuration.
THEOREM TypesCorrect == Spec => []TypeOK
<1>1. Init => TypeOK
  BY InitTyped
<1>2. TypeOK /\ [Next]_vars => TypeOK'
  BY StepTyped
<1> QED
  BY <1>1, <1>2, PTL DEF Spec

-----------------------------------------------------------------------------
(* What the steps of a tick do to its local variables. *)

LEMMA PlanIs ==
    ASSUME TypeOK, Plan
    PROVE  /\ pc = "plan" /\ pc' = "act"
           /\ tick'.now = tick.now /\ tick'.found = tick.found /\ tick'.failed = tick.failed
           /\ tick'.view = [g \in Managed |-> View(rows, g, tick.now)]
           /\ \A g \in Managed :
                 /\ g \in tick'.starts <=>
                       /\ g \in tick.found /\ Triggered(g) /\ Act(View(rows, g, tick.now))
                       /\ (g \in tick.actual) # Desired(View(rows, g, tick.now))
                       /\ Desired(View(rows, g, tick.now))
                 /\ g \in tick'.stops <=>
                       /\ g \in tick.found /\ Triggered(g) /\ Act(View(rows, g, tick.now))
                       /\ (g \in tick.actual) # Desired(View(rows, g, tick.now))
                       /\ ~Desired(View(rows, g, tick.now))
           /\ UNCHANGED <<clock, up, running, rows, lastTick, mishaps, acted, touched, status>>
<1> DEFINE view == [g \in Managed |-> View(rows, g, tick.now)]
           wrong == {g \in Managed \cap tick.found :
                        /\ Triggered(g) /\ Act(view[g])
                        /\ (g \in tick.actual) # Desired(view[g])}
<1>1. /\ pc = "plan" /\ pc' = "act"
      /\ tick' = [tick EXCEPT !.view = view,
                              !.starts = {g \in wrong : Desired(view[g])},
                              !.stops = {g \in wrong : ~Desired(view[g])}]
      /\ UNCHANGED <<clock, up, running, rows, lastTick, mishaps, acted, touched, status>>
  BY DEF Plan, world
<1>2. \A g \in Managed : view[g] = View(rows, g, tick.now)
  OBVIOUS
<1>3. \A g \in Managed : g \in wrong <=>
         /\ g \in tick.found /\ Triggered(g) /\ Act(View(rows, g, tick.now))
         /\ (g \in tick.actual) # Desired(View(rows, g, tick.now))
  BY <1>2
<1> HIDE DEF wrong, view
<1>4. /\ tick'.now = tick.now /\ tick'.found = tick.found /\ tick'.failed = tick.failed
      /\ tick'.view = view
      /\ tick'.starts = {g \in wrong : Desired(view[g])}
      /\ tick'.stops = {g \in wrong : ~Desired(view[g])}
  BY <1>1 DEF TypeOK, TickLocals
<1>5. \A g \in Managed : /\ g \in tick'.starts <=> g \in wrong /\ Desired(View(rows, g, tick.now))
                         /\ g \in tick'.stops <=> g \in wrong /\ ~Desired(View(rows, g, tick.now))
  BY <1>2, <1>4
<1> QED
  BY <1>1, <1>3, <1>4, <1>5 DEF view

LEMMA StopIs ==
    ASSUME TypeOK, StopGuest
    PROVE  /\ pc = "act" /\ pc' = "act"
           /\ tick'.now = tick.now /\ tick'.found = tick.found /\ tick'.view = tick.view
           /\ tick'.starts = tick.starts
           /\ UNCHANGED <<clock, up, rows, lastTick, acted, touched>>
           /\ \E g \in tick.stops, ok \in BOOLEAN :
                 /\ Execute(running \ {g}, ok) /\ HandledNow(g)
                 /\ tick'.stops = tick.stops \ {g}
                 /\ tick'.failed <=> tick.failed \/ ~ok
<1>1. PICK g \in tick.stops, ok \in BOOLEAN :
         /\ Execute(running \ {g}, ok) /\ HandledNow(g)
         /\ tick' = [tick EXCEPT !.stops = @ \ {g}, !.failed = @ \/ ~ok]
  BY DEF StopGuest
<1>2. /\ tick'.now = tick.now /\ tick'.found = tick.found /\ tick'.view = tick.view
      /\ tick'.starts = tick.starts /\ tick'.stops = tick.stops \ {g}
      /\ tick'.failed <=> tick.failed \/ ~ok
  BY <1>1 DEF TypeOK, TickLocals
<1> QED
  BY <1>1, <1>2 DEF StopGuest

LEMMA StartIs ==
    ASSUME TypeOK, StartGuest
    PROVE  /\ pc = "act" /\ pc' = "act" /\ tick.stops = {}
           /\ tick'.now = tick.now /\ tick'.found = tick.found /\ tick'.view = tick.view
           /\ tick'.stops = tick.stops
           /\ UNCHANGED <<clock, up, rows, lastTick, acted, touched>>
           /\ \E g \in tick.starts, ok \in BOOLEAN :
                 /\ ComesFirst(g)
                 /\ Execute(running \cup {g}, ok) /\ HandledNow(g)
                 /\ tick'.starts = tick.starts \ {g}
                 /\ tick'.failed <=> tick.failed \/ ~ok
<1>1. PICK g \in tick.starts, ok \in BOOLEAN :
         /\ ComesFirst(g)
         /\ Execute(running \cup {g}, ok) /\ HandledNow(g)
         /\ tick' = [tick EXCEPT !.starts = @ \ {g}, !.failed = @ \/ ~ok]
  BY DEF StartGuest
<1>2. /\ tick'.now = tick.now /\ tick'.found = tick.found /\ tick'.view = tick.view
      /\ tick'.starts = tick.starts \ {g} /\ tick'.stops = tick.stops
      /\ tick'.failed <=> tick.failed \/ ~ok
  BY <1>1 DEF TypeOK, TickLocals
<1> QED
  BY <1>1, <1>2 DEF StartGuest

-----------------------------------------------------------------------------
(* Instants *)

InTime ==
    /\ lastTick # None => lastTick <= clock
    /\ pc # "idle" => tick.now <= clock /\ (lastTick # None => lastTick <= tick.now)

LEMMA InTimeStep == TypeOK /\ InTime /\ [Next]_vars => InTime'
<1> SUFFICES ASSUME TypeOK, InTime, [Next]_vars PROVE InTime'
  OBVIOUS
<1>1. clock \in Nat /\ tick.now \in Nat /\ (lastTick # None => lastTick \in Nat)
  BY DEF TypeOK, TickLocals, Seconds
<1>2. CASE BeginTick
  <2>1. tick'.now = clock
    BY <1>2 DEF BeginTick, NoTick
  <2> QED
    BY <1>1, <1>2, <2>1 DEF BeginTick, InTime, world
<1>3. CASE Plan
  BY <1>3, PlanIs DEF InTime
<1>4. CASE StopGuest
  BY <1>4, StopIs DEF InTime
<1>5. CASE StartGuest
  BY <1>5, StartIs DEF InTime
<1>6. CASE Fail \/ Crash
  BY <1>6 DEF Fail, Crash, Return, InTime, world
<1>7. CASE Save
  <2>1. pc = "act" /\ lastTick' = Stored(tick.now) /\ pc' = "idle" /\ clock' = clock
    BY <1>7 DEF Save, Succeeded, Carried, Checkpoint, Return, world
  <2>2. Stored(tick.now) <= clock
    BY <1>1, <2>1, StoredIs DEF InTime
  <2> QED
    BY <2>1, <2>2 DEF InTime
<1>8. CASE Advance
  BY <1>1, <1>8 DEF Advance, InTime
<1>9. CASE Outage \/ BootDone \/ GuestControl \/ Writes
  <2>1. UNCHANGED <<clock, lastTick, pc, tick>>
    BY <1>9 DEF Outage, BootDone, GuestControl, Writes, OverrideCreated, OverrideCancelled
  <2> QED
    BY <2>1 DEF InTime
<1>10. CASE UNCHANGED vars
  BY <1>10 DEF vars, world, InTime
<1> QED
  BY <1>2, <1>3, <1>4, <1>5, <1>6, <1>7, <1>8, <1>9, <1>10, NextIs DEF Steps, Others

-----------------------------------------------------------------------------
(* A guest started or stopped by hand stays as it is. *)

\* What a guest is told is the same from one instant to another.
Steady(table, g, from, to) == \A t \in from..to : View(table, g, t) = View(table, g, from)

Untroubled ==
    \A g \in Managed :
        /\ status[g] \in {"settled", "byHand"} => lastTick # None /\ Steady(rows, g, lastTick, clock)
        /\ status[g] = "read" /\ pc # "idle" => Steady(rows, g, tick.now, clock)
        /\ status[g] = "byHand" /\ pc = "act" => g \notin tick.starts /\ g \notin tick.stops

\* Of guests for which nothing changed nothing triggers an action.
LEMMA NotTriggered ==
    ASSUME TypeOK, InTime, pc = "plan", NEW g \in Managed, lastTick # None, Steady(rows, g, lastTick, clock)
    PROVE  ~Triggered(g)
<1>1. /\ lastTick \in Nat /\ tick.now \in Nat /\ clock \in Nat
      /\ lastTick <= tick.now /\ tick.now <= clock
  BY DEF TypeOK, TickLocals, Seconds, InTime
<1>2. \A t \in lastTick..clock : /\ EffectiveOverride(rows, g, t) = EffectiveOverride(rows, g, lastTick)
                                 /\ ScheduledOn(g, t) = ScheduledOn(g, lastTick)
  BY DEF Steady, View
<1>3. ~Crossed(g, lastTick, tick.now)
  <2> SUFFICES ASSUME NEW t \in lastTick + 1..tick.now PROVE ScheduledOn(g, t) = ScheduledOn(g, t - 1)
    BY DEF Crossed
  <2>1. t \in lastTick..clock /\ t - 1 \in lastTick..clock
    BY <1>1
  <2> QED
    BY <1>2, <2>1
<1>4. tick.now \in lastTick..clock
  BY <1>1
<1> QED
  BY <1>2, <1>3, <1>4 DEF Triggered

\* An instruction that is not due did not change at all.
LEMMA NotDue ==
    ASSUME TypeOK, Writes, NEW g \in Managed, status'[g] # "due", NEW t \in Nat, t <= clock
    PROVE  View(rows', g, t) = View(rows, g, t) /\ status'[g] = status[g]
<1>1. clock \in Nat /\ rows \in Seq(Override(Managed)) /\ rows' \in Seq(Override(Managed))
  BY RowChange DEF TypeOK
<1>2. Due(rows', clock)
  BY DEF Writes, OverrideCreated, OverrideCancelled
<1>3. View(rows', g, clock) = View(rows, g, clock) /\ status'[g] = status[g]
  BY <1>2 DEF Due
<1>4. CASE Stored(t) = Stored(clock)
  <2>1. View(rows', g, t) = View(rows', g, Stored(t)) /\ View(rows, g, t) = View(rows, g, Stored(t))
    BY <1>1, ViewOfSecond
  <2>2. /\ View(rows', g, clock) = View(rows', g, Stored(clock))
        /\ View(rows, g, clock) = View(rows, g, Stored(clock))
    BY <1>1, ViewOfSecond
  <2> QED
    BY <1>3, <1>4, <2>1, <2>2
<1>5. CASE Stored(t) # Stored(clock)
  <2>1. t < Stored(clock)
    BY <1>1, <1>5, LaterSecond
  <2> QED
    BY <1>1, <1>3, <2>1, RowChange
<1> QED
  BY <1>4, <1>5

LEMMA UntroubledStep == TypeOK /\ InTime /\ Untroubled /\ [Next]_vars => Untroubled'
<1> SUFFICES ASSUME TypeOK, InTime, Untroubled, [Next]_vars PROVE Untroubled'
  OBVIOUS
<1>1. /\ clock \in Nat /\ tick.now \in Nat /\ (lastTick # None => lastTick \in Nat)
      /\ lastTick \in Seconds \cup {None} /\ rows \in Seq(Override(Managed))
      /\ status \in [Managed -> {"due", "read", "settled", "byHand"}]
  BY DEF TypeOK, TickLocals, Seconds
<1>2. CASE BeginTick
  <2>1. /\ pc' = "plan" /\ tick'.now = clock /\ UNCHANGED <<clock, rows, lastTick>>
        /\ \A g \in Managed : status'[g] = IF status[g] = "due" THEN "read" ELSE status[g]
    BY <1>2 DEF BeginTick, NoTick, world
  <2>2. \A g \in Managed : Steady(rows, g, clock, clock)
    BY <1>1 DEF Steady
  <2> QED
    BY <2>1, <2>2 DEF Untroubled
<1>3. CASE Plan
  <2>1. /\ pc = "plan" /\ tick'.now = tick.now
        /\ UNCHANGED <<clock, rows, lastTick, status>>
        /\ \A g \in Managed : ~Triggered(g) => g \notin tick'.starts /\ g \notin tick'.stops
    BY <1>3, PlanIs
  <2>2. \A g \in Managed : status[g] = "byHand" => ~Triggered(g)
    BY <2>1, NotTriggered DEF Untroubled
  <2> QED
    BY <2>1, <2>2 DEF Untroubled
<1>4. ASSUME NEW g \in Managed, HandledNow(g), UNCHANGED <<clock, rows, lastTick, pc>>, tick'.now = tick.now,
             tick'.starts \subseteq tick.starts, tick'.stops \subseteq tick.stops
      PROVE  Untroubled'
  <2>1. \A h \in Managed : status'[h] = status[h] \/ (status[h] = "byHand" /\ status'[h] = "settled")
    BY <1>1, <1>4 DEF HandledNow
  <2> QED
    BY <1>4, <2>1 DEF Untroubled
<1>5. CASE StopGuest
  <2>1. tick.stops \subseteq Managed
    BY DEF TypeOK, TickLocals
  <2> QED
    BY <1>4, <1>5, <2>1, StopIs
<1>6. CASE StartGuest
  <2>1. tick.starts \subseteq Managed
    BY DEF TypeOK, TickLocals
  <2> QED
    BY <1>4, <1>6, <2>1, StartIs
<1>7. CASE Fail \/ Crash
  <2>1. pc' = "idle" /\ UNCHANGED <<clock, rows, lastTick, status>>
    BY <1>7 DEF Fail, Crash, Return, world
  <2> QED
    BY <2>1 DEF Untroubled
<1>8. CASE Save
  <2>1. /\ pc = "act" /\ pc' = "idle" /\ lastTick' = Stored(tick.now) /\ UNCHANGED <<clock, rows>>
        /\ \A g \in Managed : status'[g] = IF status[g] = "read" THEN "settled" ELSE status[g]
    BY <1>8 DEF Save, Succeeded, Carried, Checkpoint, Return, world
  <2>2. /\ tick.now <= clock /\ Stored(tick.now) \in Nat /\ Stored(tick.now) <= tick.now
        /\ tick.now <= Stored(tick.now) + 1
    BY <1>1, <2>1, StoredIs DEF InTime
  <2>3. ASSUME NEW g \in Managed, Steady(rows, g, tick.now, clock)
        PROVE  Steady(rows, g, Stored(tick.now), clock)
    <3>1. \A t \in Stored(tick.now)..clock : t = Stored(tick.now) \/ t \in tick.now..clock
      BY <1>1, <2>2
    <3>2. View(rows, g, tick.now) = View(rows, g, Stored(tick.now))
      BY <1>1, ViewOfSecond
    <3> QED
      BY <2>3, <3>1, <3>2 DEF Steady
  <2>4. ASSUME NEW g \in Managed, lastTick # None, Steady(rows, g, lastTick, clock)
        PROVE  Steady(rows, g, Stored(tick.now), clock)
    <3>1. lastTick \in Nat /\ lastTick <= Stored(tick.now)
      BY <1>1, <2>1, <2>4, StoredIs DEF InTime
    <3>2. \A t \in Stored(tick.now)..clock : t \in lastTick..clock
      BY <1>1, <2>2, <3>1
    <3>3. Stored(tick.now) \in lastTick..clock
      BY <1>1, <2>2, <3>1
    <3> QED
      BY <2>4, <3>2, <3>3 DEF Steady
  <2>5. lastTick' # None
    BY <2>1, <2>2, Settings
  <2>6. \A g \in Managed : status'[g] \in {"settled", "byHand"} => Steady(rows, g, Stored(tick.now), clock)
    BY <2>1, <2>3, <2>4 DEF Untroubled
  <2> QED
    BY <2>1, <2>5, <2>6 DEF Untroubled
<1>9. CASE Advance
  <2>1. clock' = clock + 1 /\ Due(rows, clock') /\ UNCHANGED <<rows, lastTick, pc, tick>>
    BY <1>9 DEF Advance
  <2>2. \A g \in Managed : status'[g] # "due" =>
            status'[g] = status[g] /\ View(rows, g, clock + 1) = View(rows, g, clock)
    BY <2>1 DEF Due
  <2>3. ASSUME NEW g \in Managed, status'[g] # "due", NEW from \in Nat, from <= clock, Steady(rows, g, from, clock)
        PROVE  Steady(rows, g, from, clock + 1)
    <3>1. \A t \in from..clock + 1 : t \in from..clock \/ t = clock + 1
      BY <1>1
    <3>2. clock \in from..clock
      BY <1>1, <2>3
    <3> QED
      BY <2>2, <2>3, <3>1, <3>2 DEF Steady
  <2>4. ASSUME NEW g \in Managed, status'[g] \in {"settled", "byHand"}
        PROVE  lastTick # None /\ Steady(rows, g, lastTick, clock + 1)
    <3>1. status'[g] # "due" /\ lastTick # None /\ Steady(rows, g, lastTick, clock)
      BY <2>2, <2>4 DEF Untroubled
    <3>2. lastTick \in Nat /\ lastTick <= clock
      BY <1>1, <3>1 DEF InTime
    <3> QED
      BY <2>3, <3>1, <3>2
  <2>5. ASSUME NEW g \in Managed, status'[g] = "read", pc # "idle"
        PROVE  Steady(rows, g, tick.now, clock + 1)
    <3>1. status'[g] # "due" /\ Steady(rows, g, tick.now, clock)
      BY <2>2, <2>5 DEF Untroubled
    <3>2. tick.now \in Nat /\ tick.now <= clock
      BY <1>1, <2>5 DEF InTime
    <3> QED
      BY <2>3, <3>1, <3>2
  <2>6. ASSUME NEW g \in Managed, status'[g] = "byHand", pc = "act"
        PROVE  g \notin tick.starts /\ g \notin tick.stops
    BY <2>2, <2>6 DEF Untroubled
  <2> QED
    BY <2>1, <2>4, <2>5, <2>6 DEF Untroubled
<1>10. CASE Outage
  <2>1. /\ UNCHANGED <<clock, rows, lastTick, pc, tick>>
        /\ \A g \in Managed : status'[g] = IF status[g] = "byHand" THEN "settled" ELSE status[g]
    BY <1>10 DEF Outage
  <2> QED
    BY <2>1 DEF Untroubled
<1>11. CASE GuestControl
  <2>1. /\ UNCHANGED <<clock, rows, lastTick, pc, tick>>
        /\ \A g \in Managed : \/ status'[g] = status[g]
                              \/ pc = "idle" /\ status[g] = "settled" /\ status'[g] = "byHand"
    BY <1>1, <1>11 DEF GuestControl
  <2> QED
    BY <2>1 DEF Untroubled
<1>12. CASE Writes
  <2>1. UNCHANGED <<clock, lastTick, pc, tick>>
    BY <1>12 DEF Writes, OverrideCreated, OverrideCancelled
  <2>2. ASSUME NEW g \in Managed, status'[g] # "due", NEW from \in Nat, from <= clock, Steady(rows, g, from, clock)
        PROVE  Steady(rows', g, from, clock)
    <3>1. \A t \in from..clock : t \in Nat /\ t <= clock
      BY <1>1, <2>2
    <3>2. \A t \in Nat : t <= clock => View(rows', g, t) = View(rows, g, t)
      BY <1>12, <2>2, NotDue
    <3> QED
      BY <2>2, <3>1, <3>2 DEF Steady
  <2>3. \A g \in Managed : status'[g] # "due" => status'[g] = status[g]
    BY <1>1, <1>12, NotDue
  <2>4. ASSUME NEW g \in Managed, status'[g] \in {"settled", "byHand"}
        PROVE  lastTick # None /\ Steady(rows', g, lastTick, clock)
    <3>1. status'[g] # "due" /\ lastTick # None /\ Steady(rows, g, lastTick, clock)
      BY <2>3, <2>4 DEF Untroubled
    <3>2. lastTick \in Nat /\ lastTick <= clock
      BY <1>1, <3>1 DEF InTime
    <3> QED
      BY <2>2, <3>1, <3>2
  <2>5. ASSUME NEW g \in Managed, status'[g] = "read", pc # "idle"
        PROVE  Steady(rows', g, tick.now, clock)
    <3>1. status'[g] # "due" /\ Steady(rows, g, tick.now, clock)
      BY <2>3, <2>5 DEF Untroubled
    <3>2. tick.now \in Nat /\ tick.now <= clock
      BY <1>1, <2>5 DEF InTime
    <3> QED
      BY <2>2, <3>1, <3>2
  <2>6. ASSUME NEW g \in Managed, status'[g] = "byHand", pc = "act"
        PROVE  g \notin tick.starts /\ g \notin tick.stops
    BY <2>3, <2>6 DEF Untroubled
  <2> QED
    BY <2>1, <2>4, <2>5, <2>6 DEF Untroubled
<1>13. CASE BootDone \/ UNCHANGED vars
  <2>1. UNCHANGED <<clock, rows, lastTick, pc, tick, status>>
    BY <1>13 DEF BootDone, vars, world
  <2> QED
    BY <2>1 DEF Untroubled
<1> QED
  BY <1>2, <1>3, <1>5, <1>6, <1>7, <1>8, <1>9, <1>10, <1>11, <1>12, <1>13, NextIs DEF Steps, Others

HandInv == TypeOK /\ InTime /\ Untroubled

LEMMA AlwaysUntroubled == Spec => []HandInv
<1>1. Init => HandInv
  <2> SUFFICES ASSUME Init PROVE InTime /\ Untroubled
    BY InitTyped DEF HandInv
  <2>1. InTime
    BY DEF Init, InTime
  <2>2. Untroubled
    BY DEF Init, Untroubled
  <2> QED
    BY <2>1, <2>2
<1>2. HandInv /\ [Next]_vars => HandInv'
  BY StepTyped, InTimeStep, UntroubledStep DEF HandInv
<1> QED
  BY <1>1, <1>2, PTL DEF Spec

\* A guest that somebody starts or stops by hand, after a tick has taken in its
\* last change, is left alone until its schedule or its override changes, in
\* spite of failed, repeated and interrupted ticks, and of overrides and
\* schedules that change for other guests.
THEOREM HandsOff == Spec => ManualStays
<1>1. HandInv /\ [Next]_vars =>
        [StopGuest \/ StartGuest =>
            \A g \in Managed : status[g] = "byHand" => (g \in running) = (g \in running')]_vars
  <2> SUFFICES ASSUME HandInv, StopGuest \/ StartGuest, NEW g \in Managed, status[g] = "byHand"
               PROVE  g \in running <=> g \in running'
    BY DEF HandInv
  <2>1. TypeOK /\ Untroubled
    BY DEF HandInv
  <2>2. CASE StopGuest
    <3>1. PICK h \in tick.stops, ok \in BOOLEAN : Execute(running \ {h}, ok)
      BY <2>1, <2>2, StopIs
    <3>2. g # h
      BY <2>1, <2>2, StopIs DEF Untroubled
    <3>3. running' = running \/ running' = running \ {h}
      BY <3>1 DEF Execute
    <3> QED
      BY <3>2, <3>3
  <2>3. CASE StartGuest
    <3>1. PICK h \in tick.starts, ok \in BOOLEAN : Execute(running \cup {h}, ok)
      BY <2>1, <2>3, StartIs
    <3>2. g # h
      BY <2>1, <2>3, StartIs DEF Untroubled
    <3>3. running' = running \/ running' = running \cup {h}
      BY <3>1 DEF Execute
    <3> QED
      BY <3>2, <3>3
  <2> QED
    BY <2>2, <2>3
<1> QED
  BY <1>1, AlwaysUntroubled, PTL DEF Spec, ManualStays

-----------------------------------------------------------------------------
(* What the tick in progress makes of the guests, of which nobody writes an *)
(* override in the second of a tick.                                        *)

\* Of a guest's instruction, whether to act, and whether the guest should run.
Acts(table, v) == Governs(v) => table[v.override].action # "pause"
Wants(table, v) ==
    \/ Governs(v) /\ table[v.override].action = "on"
    \/ ~(Governs(v) /\ table[v.override].action \in {"on", "off"}) /\ v.on

LEMMA DesiredIs ==
    ASSUME NEW v \in OneView
    PROVE  /\ Act(v) <=> Acts(rows, v)
           /\ Desired(v) \in BOOLEAN /\ (Desired(v) <=> Wants(rows, v))
  BY DEF Act, Acts, Desired, Wants, OneView

\* Orders do not change once they are given.
LEMMA SameOrders ==
    ASSUME NEW table, NEW later, \A i \in DOMAIN table : i \in DOMAIN later /\ later[i].action = table[i].action,
           NEW v, v.override \in DOMAIN table \cup {None}
    PROVE  (Acts(later, v) <=> Acts(table, v)) /\ (Wants(later, v) <=> Wants(table, v))
  BY DEF Acts, Wants, Governs

\* A schedule that says something else than before has been crossed.
LEMMA CrossedBetween ==
    ASSUME NEW g, NEW from \in Nat, NEW to \in Nat, from <= to, ScheduledOn(g, from) # ScheduledOn(g, to)
    PROVE  Crossed(g, from, to)
<1> DEFINE T == {t \in Nat : from <= t /\ ScheduledOn(g, t) # ScheduledOn(g, from)}
<1>1. T \subseteq Nat /\ to \in T
  OBVIOUS
<1>2. \A t \in Nat : t \in T <=> from <= t /\ ScheduledOn(g, t) # ScheduledOn(g, from)
  OBVIOUS
<1> HIDE DEF T
<1>3. PICK t \in T : \A u \in T : t <= u
  BY <1>1, Smallest
<1>4. t \in Nat /\ from <= t /\ ScheduledOn(g, t) # ScheduledOn(g, from) /\ t <= to
  BY <1>1, <1>2, <1>3
<1>5. t # from
  BY <1>4
<1>6. t - 1 \in Nat /\ from <= t - 1 /\ ~(t <= t - 1)
  BY <1>4, <1>5
<1>7. ScheduledOn(g, t - 1) = ScheduledOn(g, from)
  BY <1>2, <1>3, <1>6
<1>8. t \in from + 1..to
  BY <1>4, <1>5
<1> QED
  BY <1>4, <1>7, <1>8 DEF Crossed

Remembered ==
    /\ acted = None <=> lastTick = None
    /\ lastTick # None => \A g \in Managed : acted[g] = View(rows, g, lastTick)

Seen == pc = "act" => \A g \in Managed : tick.view[g] = View(rows, g, tick.now)

\* After an outage all guests count as touched; of the others the tick knows
\* whether they run.
Listed ==
    /\ pc # "idle" /\ ~up => touched = Guests
    /\ pc = "plan" => \A g \in tick.found \ touched : g \in tick.actual <=> g \in running

\* What changed for a guest is carried out, is still to be done, or failed.
Changed(g) == acted = None \/ acted[g] # tick.view[g]

Planned ==
    pc = "act" =>
        /\ tick.view \in Views
        /\ \A g \in tick.starts : Wants(rows, tick.view[g])
        /\ \A g \in tick.stops : ~Wants(rows, tick.view[g])
        /\ ~tick.failed /\ ~DryRun =>
              \A g \in (Managed \cap tick.found) \ touched :
                  /\ Changed(g) /\ Acts(rows, tick.view[g])
                  /\ ~(g \in running <=> Wants(rows, tick.view[g]))
                  => g \in tick.starts \/ g \in tick.stops

LEMMA ListedStep == TypeOK /\ Listed /\ [Next]_vars => Listed'
<1> SUFFICES ASSUME TypeOK, Listed, [Next]_vars PROVE Listed'
  OBVIOUS
<1>1. CASE BeginTick
  <2>1. up /\ tick'.actual = running \cap tick'.found /\ UNCHANGED <<up, running>> /\ pc' = "plan"
    BY <1>1 DEF BeginTick, NoTick, world
  <2> QED
    BY <2>1 DEF Listed
<1>2. CASE Plan
  BY <1>2, PlanIs DEF Listed
<1>3. CASE StopGuest
  BY <1>3, StopIs DEF Listed
<1>4. CASE StartGuest
  BY <1>4, StartIs DEF Listed
<1>5. CASE Fail \/ Crash \/ Save
  BY <1>5 DEF Fail, Crash, Save, Return, Listed
<1>6. CASE Advance \/ Writes \/ UNCHANGED vars
  BY <1>6 DEF Advance, Writes, OverrideCreated, OverrideCancelled, vars, world, Listed
<1>7. CASE Outage
  BY <1>7 DEF Outage, Intervene, TypeOK, Listed
<1>8. CASE BootDone
  BY <1>8 DEF BootDone, TypeOK, TickLocals, Listed
<1>9. CASE GuestControl
  <2>1. PICK g \in Managed :
           /\ up /\ UNCHANGED <<up, pc, tick>>
           /\ running' = IF g \in running THEN running \ {g} ELSE running \cup {g}
           /\ Intervene({g})
    BY <1>9 DEF GuestControl
  <2> QED
    BY <2>1 DEF Intervene, Listed
<1> QED
  BY <1>1, <1>2, <1>3, <1>4, <1>5, <1>6, <1>7, <1>8, <1>9, NextIs DEF Steps, Others

\* Earlier instants than the second in which somebody writes.
LEMMA Quiet ==
    ASSUME ~SameSecond, TypeOK, InTime, Writes
    PROVE  /\ lastTick # None => lastTick \in Nat /\ lastTick < Stored(clock)
           /\ pc # "idle" => tick.now \in Nat /\ tick.now < Stored(clock)
<1>1. /\ clock \in Nat /\ tick.now \in Nat /\ lastTick \in Seconds \cup {None}
      /\ lastTick # None => lastTick \in Nat
  BY DEF TypeOK, TickLocals, Seconds
<1>2. Stored(clock) # lastTick /\ (pc # "idle" => Stored(clock) # Stored(tick.now))
  BY DEF Writes, OverrideCreated, OverrideCancelled, MayWrite
<1>3. lastTick # None => lastTick < Stored(clock)
  BY <1>1, <1>2, LaterSecond DEF InTime
<1>4. pc # "idle" => tick.now < Stored(clock)
  BY <1>1, <1>2, LaterSecond DEF InTime
<1> QED
  BY <1>1, <1>3, <1>4

LEMMA SeenStep == ~SameSecond /\ TypeOK /\ InTime /\ Seen /\ [Next]_vars => Seen'
<1> SUFFICES ASSUME ~SameSecond, TypeOK, InTime, Seen, [Next]_vars PROVE Seen'
  OBVIOUS
<1>1. CASE BeginTick \/ Fail \/ Crash \/ Save
  <2>1. pc' # "act"
    BY <1>1 DEF BeginTick, Fail, Crash, Save, Return
  <2> QED
    BY <2>1 DEF Seen
<1>2. CASE Plan
  BY <1>2, PlanIs DEF Seen
<1>3. CASE StopGuest
  BY <1>3, StopIs DEF Seen
<1>4. CASE StartGuest
  BY <1>4, StartIs DEF Seen
<1>5. CASE Advance \/ Outage \/ BootDone \/ GuestControl \/ UNCHANGED vars
  <2>1. UNCHANGED <<rows, pc, tick>>
    BY <1>5 DEF Advance, Outage, BootDone, GuestControl, vars, world
  <2> QED
    BY <2>1 DEF Seen
<1>6. CASE Writes
  <2>1. UNCHANGED <<pc, tick>>
    BY <1>6 DEF Writes, OverrideCreated, OverrideCancelled
  <2>2. ASSUME pc # "idle", NEW g \in Managed
        PROVE  View(rows', g, tick.now) = View(rows, g, tick.now)
    <3>1. tick.now \in Nat /\ tick.now < Stored(clock)
      BY <1>6, <2>2, Quiet
    <3> QED
      BY <1>6, <3>1, RowChange DEF TypeOK
  <2> QED
    BY <2>1, <2>2 DEF Seen
<1> QED
  BY <1>1, <1>2, <1>3, <1>4, <1>5, <1>6, NextIs DEF Steps, Others

LEMMA RememberedStep ==
    ~SameSecond /\ TypeOK /\ InTime /\ Seen /\ Remembered /\ Planned /\ [Next]_vars => Remembered'
<1> SUFFICES ASSUME ~SameSecond, TypeOK, InTime, Seen, Remembered, Planned, [Next]_vars PROVE Remembered'
  OBVIOUS
<1>1. CASE Save
  <2>1. /\ pc = "act" /\ lastTick' = Stored(tick.now) /\ acted' = tick.view /\ UNCHANGED rows
    BY <1>1 DEF Save, Succeeded, Carried, Checkpoint, world
  <2>2. tick.now \in Nat /\ rows \in Seq(Override(Managed))
    BY DEF TypeOK, TickLocals
  <2>3. lastTick' # None
    BY <2>1, <2>2, StoredIs, Settings
  <2>4. acted' # None
    BY <2>1, ViewsAssumption DEF Planned, ViewsAssumption
  <2>5. \A g \in Managed : acted'[g] = View(rows, g, Stored(tick.now))
    BY <2>1, <2>2, ViewOfSecond DEF Seen
  <2> QED
    BY <2>1, <2>3, <2>4, <2>5 DEF Remembered
<1>2. CASE Writes
  <2>1. UNCHANGED <<lastTick, acted>>
    BY <1>2 DEF Writes, OverrideCreated, OverrideCancelled
  <2>2. ASSUME lastTick # None, NEW g \in Managed
        PROVE  View(rows', g, lastTick) = View(rows, g, lastTick)
    <3>1. lastTick \in Nat /\ lastTick < Stored(clock)
      BY <1>2, <2>2, Quiet
    <3> QED
      BY <1>2, <3>1, RowChange DEF TypeOK
  <2> QED
    BY <2>1, <2>2 DEF Remembered
<1>3. ASSUME UNCHANGED <<rows, lastTick, acted>> PROVE Remembered'
  BY <1>3 DEF Remembered
<1>4. CASE StopGuest
  BY <1>3, <1>4, StopIs
<1>5. CASE StartGuest
  BY <1>3, <1>5, StartIs
<1>6. CASE BeginTick \/ Plan \/ Fail \/ Crash \/ Advance \/ Outage \/ BootDone \/ GuestControl \/ UNCHANGED vars
  BY <1>3, <1>6 DEF BeginTick, Plan, Fail, Crash, Advance, Outage, BootDone, GuestControl, vars, world
<1> QED
  BY <1>1, <1>2, <1>4, <1>5, <1>6, NextIs DEF Steps, Others

\* What changed since last_tick triggers an action.
LEMMA ChangeTriggers ==
    ASSUME TypeOK, InTime, Remembered, pc = "plan", NEW g \in Managed,
           acted = None \/ acted[g] # View(rows, g, tick.now)
    PROVE  Triggered(g)
<1>1. CASE lastTick = None
  BY <1>1 DEF Triggered
<1>2. CASE lastTick # None
  <2>1. lastTick \in Nat /\ tick.now \in Nat /\ lastTick <= tick.now
    BY <1>2 DEF TypeOK, TickLocals, Seconds, InTime
  <2>2. View(rows, g, lastTick) # View(rows, g, tick.now)
    BY <1>2 DEF Remembered
  <2>3. CASE ScheduledOn(g, lastTick) # ScheduledOn(g, tick.now)
    BY <2>1, <2>3, CrossedBetween DEF Triggered
  <2>4. CASE EffectiveOverride(rows, g, lastTick) # EffectiveOverride(rows, g, tick.now)
    BY <2>4 DEF Triggered
  <2> QED
    BY <2>2, <2>3, <2>4 DEF View
<1> QED
  BY <1>1, <1>2

LEMMA ViewsOf ==
    ASSUME TypeOK, Seen, pc = "act", NEW g \in Managed
    PROVE  tick.view[g] \in OneView /\ tick.view[g].override \in DOMAIN rows \cup {None}
  BY ViewType DEF TypeOK, Seen

LEMMA PlannedStep ==
    ~SameSecond /\ TypeOK /\ InTime /\ Remembered /\ Seen /\ Listed /\ Planned /\ [Next]_vars => Planned'
<1> SUFFICES ASSUME ~SameSecond, TypeOK, InTime, Remembered, Seen, Listed, Planned, [Next]_vars PROVE Planned'
  OBVIOUS
<1>1. CASE BeginTick \/ Fail \/ Crash \/ Save
  <2>1. pc' # "act"
    BY <1>1 DEF BeginTick, Fail, Crash, Save, Return
  <2> QED
    BY <2>1 DEF Planned
<1>2. CASE Plan
  <2>1. /\ pc = "plan" /\ tick'.found = tick.found /\ tick'.failed = tick.failed
        /\ tick'.view = [g \in Managed |-> View(rows, g, tick.now)]
        /\ UNCHANGED <<running, rows, acted, touched>>
    BY <1>2, PlanIs
  <2>2. \A g \in Managed : tick'.view[g] = View(rows, g, tick.now) /\ View(rows, g, tick.now) \in OneView
    BY <2>1, ViewType DEF TypeOK
  <2>3. tick'.view \in Views
    BY <2>1, <2>2 DEF Views, OneView
  <2>4. tick'.starts \subseteq Managed /\ tick'.stops \subseteq Managed
    BY <1>2, TickTyped DEF Steps, TypeOK, TickLocals
  <2>5. ASSUME NEW g \in Managed
        PROVE  /\ g \in tick'.starts => Wants(rows, tick'.view[g])
               /\ g \in tick'.stops => ~Wants(rows, tick'.view[g])
    <3>1. /\ g \in tick'.starts => Desired(View(rows, g, tick.now))
          /\ g \in tick'.stops => ~Desired(View(rows, g, tick.now))
      BY <1>2, PlanIs
    <3>2. Desired(View(rows, g, tick.now)) <=> Wants(rows, View(rows, g, tick.now))
      BY <2>2, DesiredIs
    <3> QED
      BY <2>2, <3>1, <3>2
  <2>6. ASSUME NEW g \in (Managed \cap tick.found) \ touched,
               acted = None \/ acted[g] # tick'.view[g], Acts(rows, tick'.view[g]),
               ~(g \in running <=> Wants(rows, tick'.view[g]))
        PROVE  g \in tick'.starts \/ g \in tick'.stops
    <3> DEFINE v == View(rows, g, tick.now)
    <3>1. v \in OneView /\ tick'.view[g] = v
      BY <2>2
    <3>2. Triggered(g)
      BY <2>1, <2>6, <3>1, ChangeTriggers
    <3>3. g \in tick.actual <=> g \in running
      BY <2>1, <2>6 DEF Listed
    <3> HIDE DEF v
    <3>4. Act(v) /\ Desired(v) \in BOOLEAN /\ ~(g \in tick.actual <=> Desired(v))
      BY <2>6, <3>1, <3>3, DesiredIs
    <3>5. /\ g \in tick'.starts <=> g \in tick.found /\ Triggered(g) /\ Act(v) /\ (g \in tick.actual) # Desired(v) /\ Desired(v)
          /\ g \in tick'.stops <=> g \in tick.found /\ Triggered(g) /\ Act(v) /\ (g \in tick.actual) # Desired(v) /\ ~Desired(v)
      BY <1>2, PlanIs DEF v
    <3> QED
      BY <2>6, <3>2, <3>4, <3>5
  <2> QED
    BY <2>1, <2>3, <2>4, <2>5, <2>6 DEF Planned, Changed
<1>3. CASE StopGuest
  <2>1. /\ pc = "act" /\ tick'.found = tick.found /\ tick'.view = tick.view /\ tick'.starts = tick.starts
        /\ UNCHANGED <<up, rows, acted, touched>>
    BY <1>3, StopIs
  <2>2. PICK g \in tick.stops, ok \in BOOLEAN :
           /\ Execute(running \ {g}, ok)
           /\ tick'.stops = tick.stops \ {g}
           /\ tick'.failed <=> tick.failed \/ ~ok
    BY <1>3, StopIs
  <2>3. ~tick'.failed /\ ~DryRun => ~tick.failed /\ running' = running \ {g}
    BY <2>2 DEF Execute
  <2> QED
    BY <2>1, <2>2, <2>3 DEF Planned, Changed
<1>4. CASE StartGuest
  <2>1. /\ pc = "act" /\ tick'.found = tick.found /\ tick'.view = tick.view /\ tick'.stops = tick.stops
        /\ UNCHANGED <<up, rows, acted, touched>>
    BY <1>4, StartIs
  <2>2. PICK g \in tick.starts, ok \in BOOLEAN :
           /\ Execute(running \cup {g}, ok)
           /\ tick'.starts = tick.starts \ {g}
           /\ tick'.failed <=> tick.failed \/ ~ok
    BY <1>4, StartIs
  <2>3. ~tick'.failed /\ ~DryRun => ~tick.failed /\ running' = running \cup {g}
    BY <2>2 DEF Execute
  <2> QED
    BY <2>1, <2>2, <2>3 DEF Planned, Changed
<1>5. CASE Advance \/ UNCHANGED vars
  <2>1. UNCHANGED <<running, rows, pc, tick, acted, touched>>
    BY <1>5 DEF Advance, vars, world
  <2> QED
    BY <2>1 DEF Planned, Changed
<1>6. CASE Outage
  <2>1. UNCHANGED <<rows, pc, tick, acted>> /\ (pc = "act" => touched' = Guests)
    BY <1>6 DEF Outage, Intervene, TypeOK
  <2> QED
    BY <2>1, Settings DEF Planned, Changed
<1>7. CASE BootDone
  <2>1. UNCHANGED <<rows, pc, tick, acted>> /\ (pc = "act" => touched' = Guests)
    BY <1>7 DEF BootDone, Listed
  <2> QED
    BY <2>1, Settings DEF Planned, Changed
<1>8. CASE GuestControl
  <2>1. UNCHANGED <<rows, pc, tick, acted>>
    BY <1>8 DEF GuestControl
  <2>2. PICK g \in Managed :
           /\ running' = IF g \in running THEN running \ {g} ELSE running \cup {g}
           /\ Intervene({g})
    BY <1>8 DEF GuestControl
  <2>3. pc = "act" => touched' = touched \cup {g}
    BY <2>2 DEF Intervene
  <2>4. \A h : h # g => (h \in running' <=> h \in running)
    BY <2>2
  <2> QED
    BY <2>1, <2>3, <2>4 DEF Planned, Changed
<1>9. CASE Writes
  <2>1. UNCHANGED <<running, pc, tick, acted, touched>>
    BY <1>9 DEF Writes, OverrideCreated, OverrideCancelled
  <2>2. tick.starts \subseteq Managed /\ tick.stops \subseteq Managed
    BY DEF TypeOK, TickLocals
  <2>3. ASSUME pc = "act", NEW g \in Managed
        PROVE  /\ Acts(rows', tick.view[g]) <=> Acts(rows, tick.view[g])
               /\ Wants(rows', tick.view[g]) <=> Wants(rows, tick.view[g])
    <3>1. \A i \in DOMAIN rows : i \in DOMAIN rows' /\ rows'[i].action = rows[i].action
      BY <1>9, RowChange DEF TypeOK
    <3>2. tick.view[g].override \in DOMAIN rows \cup {None}
      BY <2>3, ViewsOf
    <3> QED
      BY <3>1, <3>2, SameOrders
  <2> QED
    BY <2>1, <2>2, <2>3 DEF Planned, Changed
<1> QED
  BY <1>1, <1>2, <1>3, <1>4, <1>5, <1>6, <1>7, <1>8, <1>9, NextIs DEF Steps, Others

TickInv == TypeOK /\ InTime /\ Remembered /\ Seen /\ Listed /\ Planned

LEMMA AlwaysPlanned == ~SameSecond => (Spec => []TickInv)
<1> SUFFICES ASSUME ~SameSecond PROVE Spec => []TickInv
  OBVIOUS
<1>1. Init => TickInv
  <2> SUFFICES ASSUME Init PROVE InTime /\ Remembered /\ Seen /\ Listed /\ Planned
    BY InitTyped DEF TickInv
  <2> QED
    BY DEF Init, InTime, Remembered, Seen, Listed, Planned
<1>2. TickInv /\ [Next]_vars => TickInv'
  BY StepTyped, InTimeStep, RememberedStep, SeenStep, ListedStep, PlannedStep DEF TickInv
<1> QED
  BY <1>1, <1>2, PTL DEF Spec

\* However long ago the last tick that succeeded was, and whatever crashed,
\* failed or went out of power since, the next one that succeeds has carried out
\* every change, of guests that Proxmox knows and nobody touched meanwhile.  It
\* takes that no override is written in the very second of a tick: last_tick
\* and created_at keep whole seconds, and such an override is overlooked.
THEOREM NoChangeIsLost == ~SameSecond => (Spec => ChangesCarriedOut)
<1> SUFFICES ASSUME ~SameSecond PROVE Spec => ChangesCarriedOut
  OBVIOUS
<1>1. TickInv /\ [Next]_vars =>
        [Save => \A g \in (Managed \cap tick.found) \ touched :
              /\ ~DryRun
              /\ acted = None \/ acted[g] # tick.view[g]
              /\ Act(tick.view[g])
              => (g \in running) = Desired(tick.view[g])]_vars
  <2> SUFFICES ASSUME TickInv, Save, NEW g \in (Managed \cap tick.found) \ touched,
                      ~DryRun, acted = None \/ acted[g] # tick.view[g], Act(tick.view[g])
               PROVE  (g \in running) = Desired(tick.view[g])
    OBVIOUS
  <2>1. pc = "act" /\ tick.stops = {} /\ tick.starts = {} /\ ~tick.failed
    BY DEF Save, Succeeded, Carried
  <2>2. tick.view[g] \in OneView
    BY <2>1, ViewsOf DEF TickInv
  <2>3. Acts(rows, tick.view[g]) /\ Desired(tick.view[g]) \in BOOLEAN
        /\ (Desired(tick.view[g]) <=> Wants(rows, tick.view[g]))
    BY <2>2, DesiredIs
  <2>4. g \in running <=> Wants(rows, tick.view[g])
    BY <2>1, <2>3 DEF TickInv, Planned, Changed
  <2> QED
    BY <2>3, <2>4
<1> QED
  BY <1>1, AlwaysPlanned, PTL DEF Spec, ChangesCarriedOut

\* A guest is started after all its dependencies that something changed for, in
\* whatever state an outage, a crash or a failed tick left them.
THEOREM InOrder == ~SameSecond => (Spec => DependenciesFirst)
<1> SUFFICES ASSUME ~SameSecond PROVE Spec => DependenciesFirst
  OBVIOUS
<1>1. TickInv /\ [Next]_vars =>
        [StartGuest /\ ~tick'.failed =>
          \A g \in running' \ running : \A h \in (DependsOn[g] \cap Managed \cap tick.found) \ touched :
              /\ acted = None \/ acted[h] # tick.view[h]
              /\ Act(tick.view[h]) /\ Desired(tick.view[h])
              => h \in running]_vars
  <2> SUFFICES ASSUME TickInv, StartGuest, ~tick'.failed, NEW g \in running' \ running,
                      NEW h \in (DependsOn[g] \cap Managed \cap tick.found) \ touched,
                      acted = None \/ acted[h] # tick.view[h],
                      Act(tick.view[h]), Desired(tick.view[h])
               PROVE  h \in running
    OBVIOUS
  <2>1. pc = "act" /\ tick.stops = {}
    BY StartIs DEF TickInv
  <2>2. PICK first \in tick.starts, ok \in BOOLEAN :
           /\ ComesFirst(first)
           /\ Execute(running \cup {first}, ok)
           /\ tick'.failed <=> tick.failed \/ ~ok
    BY StartIs DEF TickInv
  <2>3. g = first /\ ~DryRun /\ ~tick.failed
    BY <2>2 DEF Execute
  <2>4. h \notin tick.starts
    <3>1. g \in Guests /\ tick.starts \subseteq Guests
      BY <2>2, <2>3, Settings DEF TickInv, TypeOK, TickLocals
    <3>2. Rank[h] < Rank[g] /\ Rank[h] \in Nat /\ Rank[g] \in Nat
      BY <3>1, GuestsAssumption, Settings DEF GuestsAssumption
    <3> QED
      BY <2>2, <2>3, <3>2 DEF ComesFirst
  <2>5. tick.view[h] \in OneView
    BY <2>1, ViewsOf DEF TickInv
  <2>6. Acts(rows, tick.view[h]) /\ Wants(rows, tick.view[h])
    BY <2>5, DesiredIs
  <2> QED
    BY <2>1, <2>3, <2>4, <2>6 DEF TickInv, Planned, Changed
<1> QED
  BY <1>1, AlwaysPlanned, PTL DEF Spec, DependenciesFirst
==============================================================================
