------------------------------ MODULE GuestTick ------------------------------
(***************************************************************************)
(* The guest half of the engine's tick (internal/engine/guests.go and the  *)
(* rest of Tick in engine.go): which guests to start and to stop, given    *)
(* their schedules, the overrides and last_tick, the instant up to which   *)
(* everything has been acted on.  Guests are only acted on when something  *)
(* changed since last_tick, so a change that is overlooked stays           *)
(* overlooked, and one that is looked at twice is acted on twice.          *)
(*                                                                         *)
(* A tick that finds the host off, or shuts it down, returns before it     *)
(* plans and changes nothing here: module HostPower has those ticks.  What *)
(* the others do to the host is an outage in this module.                  *)
(***************************************************************************)
EXTENDS Overrides

CONSTANTS
    Guests,        \* the guests of the configuration
    AlwaysOn,      \* those labpower must never touch
    DependsOn,     \* the guests each guest depends on
    Rank,          \* position of each guest in TopologicalOrder
    OnAt,          \* the instants at which each guest's schedule says on
    GuestActions,  \* the actions of the overrides that people create
    SameSecond,    \* they also write in the very second of a tick
    DryRun,        \* dry_run
    Mishaps,       \* what may go wrong
    MaxRows,       \* overrides created in one behaviour
    MaxEvents,     \* mishaps and overrides in one behaviour
    MaxTime        \* the last instant

Managed == Guests \ AlwaysOn

\* Schedules change at full minutes, which are full seconds too.
ASSUME GuestsAssumption ==
    /\ AlwaysOn \subseteq Guests
    /\ DependsOn \in [Guests -> SUBSET Guests]
    /\ Rank \in [Guests -> Nat]
    /\ \A g, h \in Guests : g # h => Rank[g] # Rank[h]
    /\ \A g \in Guests : \A h \in DependsOn[g] : Rank[h] < Rank[g]
    /\ OnAt \in [Guests -> SUBSET Nat]
    /\ \A g \in Guests : \A t \in OnAt[g] : Stored(t) \in OnAt[g] /\ Stored(t) + 1 \in OnAt[g]
    /\ GuestActions \subseteq {"on", "off", "pause"}
    /\ SameSecond \in BOOLEAN /\ DryRun \in BOOLEAN
    /\ Mishaps \subseteq {"outage", "crash", "failure", "missing", "hand"}
    /\ MaxRows \in Nat /\ MaxEvents \in Nat /\ MaxTime \in Nat

VARIABLES
    clock,     \* the time
    up,        \* the host answers
    running,   \* guests running on it
    rows,      \* the overrides table
    lastTick,  \* the key last_tick of the state table
    pc,        \* next step of the tick in progress
    tick,      \* its local variables
    \* Observers.
    mishaps,   \* what went wrong so far
    acted,     \* what the last tick that saved last_tick made of each guest
    touched,   \* guests that others started or stopped during the tick
    status     \* how far each guest's last change has come

world == <<clock, up, running, rows>>
vars == <<world, lastTick, pc, tick, mishaps, acted, touched, status>>

\* A guest's instruction: the override in effect and the schedule.
Views == [Managed -> [override : Nat \cup {None}, on : BOOLEAN]]

ASSUME ViewsAssumption == None \notin Views

\* The local variables of Tick: its instant, ListGuests, and what plan returns.
TickLocals ==
    [now : Nat, found : SUBSET Guests, actual : SUBSET Guests,
     view : Views \cup {None}, starts : SUBSET Managed, stops : SUBSET Managed,
     failed : BOOLEAN]
NoTick ==
    [now |-> 0, found |-> {}, actual |-> {}, view |-> None,
     starts |-> {}, stops |-> {}, failed |-> FALSE]

\* The types of the world, of the store, of the tick and of the observers:
\* every stored instant is a full second.
TypeOK ==
    /\ clock \in 0..MaxTime /\ up \in BOOLEAN /\ running \subseteq Guests
    /\ rows \in Seq(Override(Managed))
    /\ lastTick \in Seconds \cup {None}
    /\ pc \in {"idle", "plan", "act"} /\ tick \in TickLocals
    /\ Len(rows) <= MaxRows /\ mishaps \in Nat /\ mishaps + Len(rows) <= MaxEvents
    /\ acted \in Views \cup {None} /\ touched \subseteq Guests
    /\ status \in [Managed -> {"due", "read", "settled", "byHand"}]

-----------------------------------------------------------------------------
(* Schedules and instructions.  A definition named Mutant_... is a mistake *)
(* the code could contain, with the definition it would replace after it.  *)

\* Schedule.IsOn
ScheduledOn(g, t) == t \in OnAt[g]

\* Schedule.Crossings: the schedule changes in (from, to].
Crossed(g, from, to) == \E t \in from + 1..to : ScheduledOn(g, t) # ScheduledOn(g, t - 1)

View(table, g, t) == [override |-> EffectiveOverride(table, g, t), on |-> ScheduledOn(g, t)]

Governs(view) == view.override # None

\* desiredState under an instruction: whether to act, and towards what.
Act(view) == Governs(view) => rows[view.override].action # "pause"
Desired(view) ==
    CASE Governs(view) /\ rows[view.override].action = "on" -> TRUE
      [] Governs(view) /\ rows[view.override].action = "off" -> FALSE
      [] OTHER -> view.on

MoreEvents == mishaps + Len(rows) < MaxEvents
May(mishap) == mishap \in Mishaps /\ MoreEvents
Count == mishaps' = mishaps + 1

Return == pc' = "idle" /\ tick' = NoTick

\* A change of the instructions makes guests due.
Due(table, t) ==
    status' = [g \in Managed |-> IF View(table, g, t) # View(rows, g, clock) THEN "due" ELSE status[g]]

-----------------------------------------------------------------------------
(* The tick *)

\* Tick up to plan, of a host that is up and stays up.  ListGuests may miss a
\* guest that was renamed, moved or removed.
BeginTick ==
    /\ pc = "idle" /\ up
    /\ \E found \in {Guests} \cup {Guests \ {g} : g \in Managed} :
          /\ IF found = Guests THEN UNCHANGED mishaps ELSE May("missing") /\ Count
          /\ tick' = [NoTick EXCEPT !.now = clock, !.found = found, !.actual = running \cap found]
    /\ pc' = "plan"
    /\ touched' = {}
    /\ status' = [g \in Managed |-> IF status[g] = "due" THEN "read" ELSE status[g]]
    /\ UNCHANGED <<world, lastTick, acted>>

Mutant_LevelTriggered(g) == TRUE

\* Something changed for g since last_tick, or there was no tick yet.
Triggered(g) ==
    \/ lastTick = None
    \/ Crossed(g, lastTick, tick.now)
    \/ EffectiveOverride(rows, g, lastTick) # EffectiveOverride(rows, g, tick.now)

Plan ==
    LET view == [g \in Managed |-> View(rows, g, tick.now)]
        wrong == {g \in Managed \cap tick.found :
                     /\ Triggered(g) /\ Act(view[g])
                     /\ (g \in tick.actual) # Desired(view[g])}
    IN  /\ pc = "plan"
        /\ pc' = "act"
        /\ tick' = [tick EXCEPT !.view = view,
                                !.starts = {g \in wrong : Desired(view[g])},
                                !.stops = {g \in wrong : ~Desired(view[g])}]
        /\ UNCHANGED <<world, lastTick, mishaps, acted, touched, status>>

\* execute and waitForTask towards the guests in `after`.  A call or its task
\* may fail, of which the guest may have been started or stopped all the same.
Execute(after, ok) ==
    LET carried == IF DryRun \/ ~up THEN running ELSE after
    IN  \/ ok /\ (DryRun \/ up) /\ running' = carried /\ UNCHANGED mishaps
        \/ ~ok /\ May("failure") /\ Count /\ running' \in {running, carried}
        \/ ~ok /\ ~DryRun /\ ~up /\ UNCHANGED <<running, mishaps>>

HandledNow(g) == status' = [status EXCEPT ![g] = IF @ = "byHand" THEN "settled" ELSE @]

\* Stops first, dependents before their dependencies.
StopGuest ==
    /\ pc = "act"
    /\ \E g \in tick.stops, ok \in BOOLEAN :
          /\ \A h \in tick.stops : Rank[h] <= Rank[g]
          /\ Execute(running \ {g}, ok)
          /\ tick' = [tick EXCEPT !.stops = @ \ {g}, !.failed = @ \/ ~ok]
          /\ HandledNow(g)
    /\ UNCHANGED <<clock, up, rows, lastTick, pc, acted, touched>>

Mutant_ComesLast(g) == \A h \in tick.starts : Rank[h] <= Rank[g]

\* No guest still to be started comes before g in the order.
ComesFirst(g) == \A h \in tick.starts : Rank[g] <= Rank[h]

\* Then starts, dependencies before their dependents.
StartGuest ==
    /\ pc = "act" /\ tick.stops = {}
    /\ \E g \in tick.starts, ok \in BOOLEAN :
          /\ ComesFirst(g)
          /\ Execute(running \cup {g}, ok)
          /\ tick' = [tick EXCEPT !.starts = @ \ {g}, !.failed = @ \/ ~ok]
          /\ HandledNow(g)
    /\ UNCHANGED <<clock, up, rows, lastTick, pc, acted, touched>>

Carried == pc = "act" /\ tick.stops = {} /\ tick.starts = {}

\* A tick of which an action failed is done again from the same last_tick.
Fail ==
    /\ Carried /\ tick.failed
    /\ Return
    /\ UNCHANGED <<world, lastTick, mishaps, acted, touched, status>>

Mutant_SaveAnyway == Carried
Succeeded == Carried /\ ~tick.failed

Mutant_Nanoseconds == lastTick' = tick.now
Checkpoint == lastTick' = Stored(tick.now)

Save ==
    /\ Succeeded
    /\ Checkpoint
    /\ acted' = tick.view
    /\ status' = [g \in Managed |-> IF status[g] = "read" THEN "settled" ELSE status[g]]
    /\ Return
    /\ UNCHANGED <<world, mishaps, touched>>

\* The process dies, or a call of the step in progress returns an error.
Crash ==
    /\ pc # "idle" /\ May("crash") /\ Count
    /\ Return
    /\ UNCHANGED <<world, lastTick, acted, touched, status>>

-----------------------------------------------------------------------------
(* The world moves on. *)

\* Others have changed what runs, which the tick in progress does not know.
Intervene(guests) == touched' = IF pc = "idle" THEN {} ELSE touched \cup guests

Advance ==
    /\ clock < MaxTime /\ clock' = clock + 1
    /\ Due(rows, clock')
    /\ UNCHANGED <<up, running, rows, lastTick, pc, tick, mishaps, acted, touched>>

\* The host goes down, by a power cut or a shutdown.
Outage ==
    /\ up /\ May("outage") /\ Count
    /\ up' = FALSE /\ running' = {}
    /\ Intervene(Guests)
    /\ status' = [g \in Managed |-> IF status[g] = "byHand" THEN "settled" ELSE status[g]]
    /\ UNCHANGED <<clock, rows, lastTick, pc, tick, acted>>

\* Guests set to start on boot run; those labpower schedules are not.
BootDone ==
    /\ ~up /\ up' = TRUE
    /\ running' = AlwaysOn
    /\ UNCHANGED <<clock, rows, lastTick, pc, tick, mishaps, acted, touched, status>>

\* A guest is started or stopped in the Proxmox UI.
GuestControl ==
    /\ up /\ May("hand") /\ Count
    /\ \E g \in Managed :
          /\ running' = IF g \in running THEN running \ {g} ELSE running \cup {g}
          /\ Intervene({g})
          /\ status' = [status EXCEPT ![g] = IF pc = "idle" /\ @ = "settled" THEN "byHand" ELSE @]
    /\ UNCHANGED <<clock, up, rows, lastTick, pc, tick, acted>>

\* Whether an override may be written now.
MayWrite ==
    \/ SameSecond
    \/ /\ Stored(clock) # lastTick
       /\ pc # "idle" => Stored(clock) # Stored(tick.now)

\* handleGuestStart, handleGuestStop and handleSchedulesPause
OverrideCreated ==
    /\ MayWrite /\ Len(rows) < MaxRows /\ MoreEvents
    /\ \E g \in Managed, action \in GuestActions, until \in {Stored(t) : t \in clock + 2..MaxTime} \cup {None} :
          /\ action = "off" => until = None
          /\ rows' = CreateOverride(rows, g, action, until, clock)
    /\ Due(rows', clock)
    /\ UNCHANGED <<clock, up, running, lastTick, pc, tick, mishaps, acted, touched>>

\* handleOverrideCancel
OverrideCancelled ==
    /\ MayWrite
    /\ \E id \in DOMAIN rows :
          /\ Cancellable(rows, id)
          /\ rows' = CancelOverride(rows, id, clock)
    /\ Due(rows', clock)
    /\ UNCHANGED <<clock, up, running, lastTick, pc, tick, mishaps, acted, touched>>

-----------------------------------------------------------------------------
Init ==
    /\ clock = 0 /\ up = TRUE /\ running \in {AlwaysOn, Guests}
    /\ rows = <<>>
    /\ lastTick = None
    /\ pc = "idle" /\ tick = NoTick
    /\ mishaps = 0 /\ acted = None /\ touched = {}
    /\ status = [g \in Managed |-> "due"]

Next ==
    \/ BeginTick \/ Plan \/ StopGuest \/ StartGuest \/ Fail \/ Save \/ Crash
    \/ Advance \/ Outage \/ BootDone \/ GuestControl
    \/ OverrideCreated \/ OverrideCancelled

Spec == Init /\ [][Next]_vars

-----------------------------------------------------------------------------
(* Properties *)

\* When a tick saves last_tick, everything that changed since the tick that
\* saved it before has been carried out: a guest whose schedule or override is
\* another one than then is in the desired state, unless it is paused, unknown
\* to Proxmox or was started or stopped by somebody during the tick.  No crash,
\* failed action or outage in between makes the engine lose a change.
ChangesCarriedOut ==
    [][Save => \A g \in (Managed \cap tick.found) \ touched :
          /\ ~DryRun
          /\ acted = None \/ acted[g] # tick.view[g]
          /\ Act(tick.view[g])
          => (g \in running) = Desired(tick.view[g])]_vars

\* A guest that is started or stopped by hand, after a tick that succeeded has
\* taken in its last change, stays as it is until its schedule or its override
\* changes, however often the ticks in between fail, crash or are repeated.
ManualStays ==
    [][StopGuest \/ StartGuest =>
          \A g \in Managed : status[g] = "byHand" => (g \in running) = (g \in running')]_vars

\* Until an action of the tick has failed, a guest is started only when those
\* of its dependencies run that something changed for, if they should run:
\* whatever an outage, a crash or a failed tick left of an earlier attempt.
DependenciesFirst ==
    [][StartGuest /\ ~tick'.failed =>
          \A g \in running' \ running : \A h \in (DependsOn[g] \cap Managed \cap tick.found) \ touched :
              /\ acted = None \/ acted[h] # tick.view[h]
              /\ Act(tick.view[h]) /\ Desired(tick.view[h])
              => h \in running]_vars
==============================================================================
