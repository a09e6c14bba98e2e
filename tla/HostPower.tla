------------------------------ MODULE HostPower ------------------------------
(***************************************************************************)
(* The host half of the engine's tick (internal/engine/host.go and the     *)
(* frame of Tick in engine.go): whether the Proxmox host is to be woken,   *)
(* shut down or left alone, given the weather, the overrides and the       *)
(* schedules.  A tick is a sequence of steps that other processes run      *)
(* between: the web server writes overrides, people use the Proxmox UI,    *)
(* backups start, the power fails (cmd/fakepve simulates exactly these).   *)
(*                                                                         *)
(* The engine persists instants ("last sent at", "since") and only ever    *)
(* looks at how long ago they were, so the model keeps their ages, which   *)
(* grow as far as the durations they are compared with.  A tick reads the  *)
(* clock once, at its start, and measures and stores by that instant       *)
(* however long its calls to the weather services and to Proxmox take:     *)
(* time passes between its steps, and the instant it works with is         *)
(* tick.age old.                                                           *)
(*                                                                         *)
(* A step that writes several keys can be cut short after any of them: by  *)
(* a crash of the process or an error of the store or of the API, either   *)
(* of which ends the tick there.  MaxFaults bounds how often that happens. *)
(***************************************************************************)
EXTENDS Integers, FiniteSets

CONSTANTS
    None,             \* no value stored under a key
    Guests,           \* the guests of the configuration
    AlwaysOn,         \* those labpower must never touch
    DependsOn,        \* the guests each guest depends on
    Rank,             \* position of each guest in TopologicalOrder
    Levels,           \* the weather levels that occur
    HostSchedule,     \* what the host's schedule may say, on or off
    OverrideActions,  \* the power overrides that people create on the host
    WakeTimeout,      \* wol.wake_timeout
    WakeRetries,      \* wol.retries
    Countdown,        \* weather.levels.warning.countdown
    Grace,            \* host.shutdown_grace
    Enforce,          \* weather.mode is "enforce"
    DryRun,           \* dry_run
    Patience,         \* longest from the tick's Clock.Now to its last use of it
    Rounding,         \* what an instant loses when stored in whole seconds
    MaxFaults         \* steps cut short in one behaviour

Normal  == 0
Watch   == 1
Warning == 2
Danger  == 3

ASSUME ConstantsAssumption ==
    /\ None \notin Nat
    /\ AlwaysOn \subseteq Guests
    /\ DependsOn \in [Guests -> SUBSET Guests]
    /\ Rank \in [Guests -> Nat]
    /\ \A g, h \in Guests : g # h => Rank[g] # Rank[h]
    /\ \A g \in Guests : \A h \in DependsOn[g] : Rank[h] < Rank[g]
    /\ Levels \subseteq Normal..Danger
    /\ HostSchedule \subseteq BOOLEAN
    /\ OverrideActions \subseteq {"on", "off", "pause"}
    /\ None \notin {"on", "off", "pause"}
    /\ WakeTimeout \in Nat /\ Countdown \in Nat /\ Grace \in Nat
    /\ Patience \in Nat /\ Rounding \in Nat
    /\ WakeRetries \in Nat /\ MaxFaults \in Nat
    /\ Enforce \in BOOLEAN /\ DryRun \in BOOLEAN

VARIABLES
    \* The world outside the process.
    power,        \* the host: "off", "booting", "on" or "halting"
    running,      \* guests running on it
    backup,       \* a task of somebody else's is active on it
    level,        \* weather threat level of the last evaluation
    hostSched,    \* the host schedule says on
    guestsWant,   \* some guest's schedule or override says on
    override,     \* action of the effective power override on the host
    ignoring,     \* an ignore_weather override is in effect
    trusted,      \* the clock is synchronised
    \* Keys of the state table.
    attempts,     \* host_wake_attempts
    lastSent,     \* age of host_wake_last_sent_at
    failed,       \* host_wake_failed
    postponed,    \* host_shutdown_postponed_notified
    warnSince,    \* age of weather_warning_since
    graceSince,   \* age of weather_danger_task_grace_since
    \* The tick in progress.
    pc,           \* its next step
    tick,         \* its local variables
    \* Observers: what a bystander could note down.
    faults,       \* steps cut short so far
    packets,      \* Wake-on-LAN packets sent in this wake episode
    quota,        \* packets the configuration allows in this episode
    gap,          \* age of the last packet of this episode
    stormAge,     \* age of the first of the checks that saw an enforced threat,
                  \* without a calm one since; None after a calm one
    told,         \* notifications in the current postponement, None outside one
    intruders     \* guests others started since the tick read the guests

host == <<power, running, backup>>
wishes == <<level, hostSched, guestsWant, override, ignoring, trusted>>
world == <<host, wishes>>
wakeKeys == <<attempts, lastSent, failed>>
offKeys == <<postponed, warnSince, graceSince>>
ticking == <<pc, tick, faults>>
wakeLog == <<packets, quota, gap>>
vars == <<world, wakeKeys, offKeys, ticking, wakeLog, stormAge, told, intruders>>

\* The age of a key as far as a tick can tell whether `time` has passed since.
KeyAges(time) == 0..time + Patience + Rounding
StormLimit == IF Countdown > Grace THEN Countdown ELSE Grace
Steps == {"idle", "safety", "decide", "tasks", "stop", "halt", "await", "guests"}

\* What a tick knows: how old its `now` is, whether NodeStatus answered,
\* what weatherSafety returned, and the running guests of its ListGuests still to
\* be stopped.
TickLocals ==
    [age : 0..Patience, seen : BOOLEAN, forceOff : BOOLEAN, bypass : BOOLEAN,
     left : SUBSET Guests]
NoTick ==
    [age |-> 0, seen |-> FALSE, forceOff |-> FALSE, bypass |-> FALSE, left |-> {}]

HostOK ==
    /\ power \in {"off", "booting", "on", "halting"}
    /\ running \subseteq Guests
    /\ backup \in BOOLEAN

WishesOK ==
    /\ level \in Normal..Danger
    /\ hostSched \in BOOLEAN /\ guestsWant \in BOOLEAN
    /\ override \in {"on", "off", "pause", None}
    /\ ignoring \in BOOLEAN /\ trusted \in BOOLEAN

WakeKeysOK ==
    /\ attempts \in Nat \cup {None}
    /\ lastSent \in KeyAges(WakeTimeout) \cup {None}
    /\ failed \in BOOLEAN

OffKeysOK ==
    /\ postponed \in BOOLEAN
    /\ warnSince \in KeyAges(Countdown) \cup {None}
    /\ graceSince \in KeyAges(Grace) \cup {None}

TickingOK ==
    /\ pc \in Steps
    /\ tick \in TickLocals
    /\ faults \in 0..MaxFaults

ObserversOK ==
    /\ packets \in Nat /\ quota \in Nat /\ gap \in 0..WakeTimeout
    /\ stormAge \in (0..StormLimit) \cup {None}
    /\ told \in Nat \cup {None}
    /\ intruders \subseteq Guests

\* The types of the world, of the store, of the tick and of the observers.
TypeOK ==
    HostOK /\ WishesOK /\ WakeKeysOK /\ OffKeysOK /\ TickingOK /\ ObserversOK

-----------------------------------------------------------------------------
(* Ages and interrupted steps.  A definition named Mutant_... is a mistake *)
(* the code could contain, with the definition it would replace after it.  *)

Older(a, limit) == IF a = None THEN None ELSE IF a < limit THEN a + 1 ELSE limit
KeyOlder(a, time) == Older(a, time + Patience + Rounding)

\* now.Format(time.RFC3339): the instant of the tick, in whole seconds.
Stored == tick.age..tick.age + Rounding

\* stateSince keeps the instant under a key, or stores that of the tick, and
\* returns how long before the tick it was.
Kept(a) == IF a = None THEN Stored ELSE {a}
Since(a) == IF a = None THEN 0 ELSE a - tick.age

\* getIntState: the number of attempts, 0 if the key is absent.
AttemptsMade == IF attempts = None THEN 0 ELSE attempts

\* Packets of one undisturbed wake episode: the first is always sent.
WakeLimit == IF WakeRetries = 0 THEN 1 ELSE WakeRetries

Up == power \in {"on", "halting"}

Return == pc' = "idle" /\ tick' = NoTick
Continue(step) == pc' = step /\ UNCHANGED tick

\* A step of `total` effects stops after the first n: it goes on only if all
\* of them happened, and otherwise the tick is over.
Effects(n, total, goOn) ==
    IF n = total
    THEN goOn /\ UNCHANGED faults
    ELSE faults < MaxFaults /\ faults' = faults + 1 /\ Return

\* What an interruption of the wake pursuit may cost: the count of attempts.
Disturbed(n, total) == IF n = total THEN quota ELSE quota + WakeLimit

-----------------------------------------------------------------------------
(* The tick reads the world. *)

\* Tick up to the call of reconcileHost: the weather is evaluated (as module
\* Weather says), then the node is asked.  NodeStatus of a host that is up may
\* fail, which Tick cannot tell from a host that is off.
BeginTick ==
    /\ pc = "idle" /\ trusted
    /\ level' \in Levels
    /\ \E seen \in BOOLEAN :
          /\ seen => Up
          /\ seen # Up => faults < MaxFaults
          /\ faults' = IF seen = Up THEN faults ELSE faults + 1
          /\ tick' = [NoTick EXCEPT !.seen = seen,
                                    !.left = IF seen THEN running \ AlwaysOn ELSE {}]
    /\ pc' = "safety"
    /\ intruders' = {}
    /\ UNCHANGED <<host, hostSched, guestsWant, override, ignoring, trusted, wakeKeys, offKeys, wakeLog, stormAge, told>>

-----------------------------------------------------------------------------
(* weatherSafety *)

Threatened == Enforce /\ level >= Warning

Mutant_ForgetGraceOnly(n) ==
    /\ warnSince' = warnSince
    /\ graceSince' = IF n = 2 THEN None ELSE graceSince

\* clearWeatherEnforcementState, cut short after n of its deletes (Interrupt
\* stops it before the first).
ForgetThreat(n) ==
    /\ warnSince' = None
    /\ graceSince' = IF n = 2 THEN None ELSE graceSince

\* No enforced threat: the countdown and the grace period are forgotten.
AllClear ==
    /\ pc = "safety" /\ ~Threatened
    /\ \E n \in 1..2 :
          /\ ForgetThreat(n)
          /\ stormAge' = IF n = 2 THEN None ELSE stormAge
          /\ Effects(n, 2, Continue("decide"))
    /\ UNCHANGED <<world, wakeKeys, postponed, wakeLog, told, intruders>>

\* A bystander dates the storm by the first check that sees it.
ThreatSeen ==
    /\ pc = "safety" /\ Threatened
    /\ stormAge' = IF stormAge # None THEN stormAge
                   ELSE IF tick.age < StormLimit THEN tick.age ELSE StormLimit

ThreatIgnored ==
    /\ ThreatSeen /\ ignoring
    /\ Continue("decide")
    /\ UNCHANGED <<world, wakeKeys, offKeys, faults, wakeLog, told, intruders>>

DangerForcesOff ==
    /\ ThreatSeen /\ ~ignoring /\ level = Danger
    /\ pc' = "decide"
    /\ tick' = [tick EXCEPT !.forceOff = TRUE, !.bypass = TRUE]
    /\ UNCHANGED <<world, wakeKeys, offKeys, faults, wakeLog, told, intruders>>

WarningCountsDown ==
    /\ ThreatSeen /\ ~ignoring /\ level = Warning
    /\ pc' = "decide"
    /\ warnSince' \in Kept(warnSince)
    /\ tick' = IF Since(warnSince) >= Countdown THEN [tick EXCEPT !.forceOff = TRUE] ELSE tick
    /\ UNCHANGED <<world, wakeKeys, postponed, graceSince, faults, wakeLog, told, intruders>>

-----------------------------------------------------------------------------
(* hostDesiredState: the weather outranks an override, which outranks the  *)
(* schedules.                                                              *)

BaseDesired == hostSched \/ guestsWant
Act == tick.forceOff \/ override # "pause"
WantOn ==
    /\ ~tick.forceOff
    /\ override = "on" \/ (override = None /\ BaseDesired)
WantOff == Act /\ ~WantOn

\* clearWakeState, cut short after n of its three deletes (Interrupt stops it
\* before the first).
ClearWake(n) ==
    /\ attempts' = None
    /\ lastSent' = IF n >= 2 THEN None ELSE lastSent
    /\ failed' = IF n >= 3 THEN FALSE ELSE failed
    /\ packets' = IF n >= 3 THEN 0 ELSE packets
    /\ quota' = IF n >= 3 THEN WakeLimit ELSE Disturbed(n, 3)
    /\ gap' = IF n >= 3 THEN WakeTimeout ELSE gap

\* reconcileHost under a "pause": the host stays as it is.
LeaveAlone ==
    /\ pc = "decide" /\ ~Act
    /\ IF tick.seen THEN Continue("guests") ELSE Return
    /\ told' = None
    /\ UNCHANGED <<world, wakeKeys, offKeys, faults, wakeLog, stormAge, intruders>>

StandDown ==
    /\ pc = "decide" /\ WantOff
    /\ \E n \in 1..3 :
          /\ ClearWake(n)
          /\ Effects(n, 3, IF tick.seen THEN Continue("tasks") ELSE Return)
    /\ told' = IF tick.seen THEN told ELSE None
    /\ UNCHANGED <<world, offKeys, stormAge, intruders>>

\* completeWake and clearWakeState: the host is wanted and up.
CompleteWake ==
    /\ pc = "decide" /\ WantOn /\ tick.seen
    /\ \E n \in 1..3 :
          /\ ClearWake(n)
          /\ Effects(n, 3, Continue("guests"))
    /\ told' = None
    /\ UNCHANGED <<world, offKeys, stormAge, intruders>>

-----------------------------------------------------------------------------
(* pursueWake: the host is wanted and does not answer. *)

Mutant_WakeDespiteFailure == pc = "decide" /\ WantOn /\ ~tick.seen
MustWake == pc = "decide" /\ WantOn /\ ~tick.seen /\ ~failed

Mutant_TimedOutEarly == lastSent - tick.age + 1 >= WakeTimeout
Mutant_NeverTimedOut == FALSE

\* The current attempt has had its wake_timeout, by the instants of the ticks.
TimedOut == lastSent - tick.age >= WakeTimeout

\* All the attempts of wol.retries were made.
Exhausted == AttemptsMade >= WakeRetries

\* sendWoL.  A packet may be lost; one that arrives boots a host that is off
\* (HandleWoL).
Send ==
    IF DryRun
    THEN UNCHANGED <<power, packets, gap>>
    ELSE /\ packets' = packets + 1
         /\ gap' = 0
         /\ power' \in {power, IF power = "off" THEN "booting" ELSE power}

WakeGivenUp ==
    /\ pc = "decide" /\ WantOn /\ ~tick.seen /\ failed
    /\ Return
    /\ told' = None
    /\ UNCHANGED <<world, wakeKeys, offKeys, faults, wakeLog, stormAge, intruders>>

\* The first packet, then the two keys, then the notification and the event.
FirstPacket ==
    /\ MustWake /\ lastSent = None
    /\ Send
    /\ \E n \in 0..2 :
          /\ attempts' = IF n >= 1 THEN 1 ELSE attempts
          /\ lastSent' \in IF n >= 2 THEN Stored ELSE {lastSent}
          /\ quota' = Disturbed(n, 2)
          /\ Effects(n, 2, Return)
    /\ told' = None
    /\ UNCHANGED <<running, backup, wishes, failed, offKeys, stormAge, intruders>>

WaitForBoot ==
    /\ MustWake /\ lastSent # None /\ ~TimedOut
    /\ Return
    /\ told' = None
    /\ UNCHANGED <<world, wakeKeys, offKeys, faults, wakeLog, stormAge, intruders>>

Mutant_GiveUpAtOnce ==
    /\ MustWake /\ lastSent # None
    /\ Exhausted
    /\ failed' = TRUE
    /\ Return
    /\ told' = None
    /\ UNCHANGED <<world, attempts, lastSent, offKeys, faults, wakeLog, stormAge, intruders>>

GiveUp ==
    /\ MustWake /\ lastSent # None /\ TimedOut
    /\ Exhausted
    /\ failed' = TRUE
    /\ Return
    /\ told' = None
    /\ UNCHANGED <<world, attempts, lastSent, offKeys, faults, wakeLog, stormAge, intruders>>

Resend ==
    /\ MustWake /\ lastSent # None /\ TimedOut
    /\ ~Exhausted
    /\ Send
    /\ \E n \in 0..2 :
          /\ attempts' = IF n >= 1 THEN AttemptsMade + 1 ELSE attempts
          /\ lastSent' \in IF n >= 2 THEN Stored ELSE {lastSent}
          /\ quota' = Disturbed(n, 2)
          /\ Effects(n, 2, Return)
    /\ told' = None
    /\ UNCHANGED <<running, backup, wishes, failed, offKeys, stormAge, intruders>>

-----------------------------------------------------------------------------
(* shutdownHost *)

\* Any call to a host that has gone down fails, and so does the tick.
HostGone ==
    /\ pc \in {"tasks", "stop", "halt", "await", "guests"} /\ ~Up
    /\ Return
    /\ UNCHANGED <<world, wakeKeys, offKeys, faults, wakeLog, stormAge, told, intruders>>

\* The grace period starts at the first Danger tick that finds a task.
Mutant_NoGrace == tick.bypass
Mutant_WaitForTasks == FALSE
MayInterruptTasks == tick.bypass /\ Since(graceSince) >= Grace

\* Both flags are forgotten once the shutdown goes ahead.
ForgetPostponement(n) ==
    /\ postponed' = IF n >= 1 THEN FALSE ELSE postponed
    /\ graceSince' \in IF n >= 2 THEN {None} ELSE IF backup THEN Kept(graceSince) ELSE {graceSince}
    /\ told' = IF n >= 2 THEN None ELSE told
    /\ Effects(n, 2, Continue("stop"))

NoActiveTasks ==
    /\ pc = "tasks" /\ Up /\ ~backup
    /\ \E n \in 0..2 : ForgetPostponement(n)
    /\ UNCHANGED <<world, wakeKeys, warnSince, wakeLog, stormAge, intruders>>

ForceDespiteTasks ==
    /\ pc = "tasks" /\ Up /\ backup /\ MayInterruptTasks
    /\ \E n \in 0..2 : ForgetPostponement(n)
    /\ UNCHANGED <<world, wakeKeys, warnSince, wakeLog, stormAge, intruders>>

Mutant_ForgetNotified(n) == UNCHANGED postponed
RememberNotified(n) == postponed' = (postponed \/ n = 1)

\* The first postponed tick notifies, then remembers that it did.
Postpone ==
    /\ pc = "tasks" /\ Up /\ backup /\ ~MayInterruptTasks
    /\ graceSince' \in IF tick.bypass THEN Kept(graceSince) ELSE {graceSince}
    /\ told' = (IF told = None THEN 0 ELSE told) + (IF postponed THEN 0 ELSE 1)
    /\ \E n \in 0..1 :
          /\ RememberNotified(n)
          /\ Effects(n, 1, Return)
    /\ UNCHANGED <<world, wakeKeys, warnSince, wakeLog, stormAge, intruders>>

Mutant_ComesFirst(g) == \A h \in tick.left : Rank[h] >= Rank[g]

\* The guest TopologicalOrder puts after all others still to be stopped.
ComesLast(g) == \A h \in tick.left : Rank[h] <= Rank[g]

\* execute(shutdown) of the guest that comes last in the dependency order,
\* with the wait for its task.
StopGuest ==
    /\ pc = "stop" /\ Up
    /\ \E g \in tick.left :
          /\ ComesLast(g)
          /\ running' = IF DryRun THEN running ELSE running \ {g}
          /\ tick' = [tick EXCEPT !.left = @ \ {g}]
    /\ UNCHANGED <<power, backup, wishes, wakeKeys, offKeys, pc, faults, wakeLog, stormAge, told, intruders>>

Mutant_SomeStopped ==
    /\ pc = "stop" /\ Up
    /\ IF DryRun THEN Return ELSE Continue("halt")
    /\ UNCHANGED <<world, wakeKeys, offKeys, faults, wakeLog, stormAge, told, intruders>>

AllStopped ==
    /\ pc = "stop" /\ Up /\ tick.left = {}
    /\ IF DryRun THEN Return ELSE Continue("halt")
    /\ UNCHANGED <<world, wakeKeys, offKeys, faults, wakeLog, stormAge, told, intruders>>

\* Proxmox.ShutdownHost; the node halts whatever labpower does next.
RequestHalt ==
    /\ pc = "halt" /\ Up
    /\ power' = "halting"
    /\ Continue("await")
    /\ UNCHANGED <<running, backup, wishes, wakeKeys, offKeys, faults, wakeLog, stormAge, told, intruders>>

\* waitForTask of the shutdown task, the notification and the event.
HaltAcknowledged ==
    /\ pc = "await" /\ Up
    /\ Return
    /\ UNCHANGED <<world, wakeKeys, offKeys, faults, wakeLog, stormAge, told, intruders>>

\* The rest of Tick, which starts and stops guests as module GuestTick says.
ReconcileGuests ==
    /\ pc = "guests" /\ Up
    /\ \/ UNCHANGED running
       \/ /\ ~DryRun
          /\ \E g \in Guests \ AlwaysOn : running' \in {running \cup {g}, running \ {g}}
    /\ Return
    /\ UNCHANGED <<power, backup, wishes, wakeKeys, offKeys, faults, wakeLog, stormAge, told, intruders>>

\* The process dies, or a call of the step in progress fails, before the
\* step has had an effect.  systemd starts labpower again.
Interrupt ==
    /\ pc # "idle" /\ faults < MaxFaults
    /\ faults' = faults + 1
    /\ Return
    /\ UNCHANGED <<world, wakeKeys, offKeys, wakeLog, stormAge, told, intruders>>

-----------------------------------------------------------------------------
(* The world moves: cmd/fakepve's node and its controls, the web handlers  *)
(* and the clock.                                                          *)

\* The tick still measures or stores by its `now`.
Dated == pc \in {"safety", "decide", "tasks"}

\* Time passes between ticks and between the steps of one.  The calls a tick
\* makes before its last use of `now` have timeouts, Patience in all.
Advance ==
    /\ Dated => tick.age < Patience
    /\ tick' = IF Dated THEN [tick EXCEPT !.age = @ + 1] ELSE tick
    /\ lastSent' = KeyOlder(lastSent, WakeTimeout)
    /\ warnSince' = KeyOlder(warnSince, Countdown)
    /\ graceSince' = KeyOlder(graceSince, Grace)
    /\ gap' = Older(gap, WakeTimeout)
    /\ stormAge' = Older(stormAge, StormLimit)
    /\ UNCHANGED <<world, attempts, failed, postponed, packets, quota, pc, faults, told, intruders>>

Unobserved == UNCHANGED <<wakeKeys, offKeys, ticking, wakeLog, stormAge, told, intruders>>

PowerOff ==
    /\ power' = "off" /\ running' = {} /\ backup' = FALSE
    /\ UNCHANGED wishes
    /\ Unobserved

HaltDone == power = "halting" /\ PowerOff
PowerCut == power \in {"on", "booting"} /\ PowerOff

PowerButton ==
    /\ power = "off" /\ power' = "booting"
    /\ UNCHANGED <<running, backup, wishes>>
    /\ Unobserved

\* Guests set to start on boot run; those labpower schedules are not.
BootDone ==
    /\ power = "booting" /\ power' = "on"
    /\ running' = AlwaysOn
    /\ UNCHANGED <<backup, wishes>>
    /\ Unobserved

GuestControl ==
    /\ Up
    /\ \E g \in Guests : running' \in {running \cup {g}, running \ {g}}
    /\ running' # running
    /\ intruders' = IF pc = "idle" THEN {} ELSE intruders \cup (running' \ running)
    /\ UNCHANGED <<power, backup, wishes, wakeKeys, offKeys, ticking, wakeLog, stormAge, told>>

BackupControl ==
    /\ Up /\ backup' = ~backup
    /\ UNCHANGED <<power, running, wishes>>
    /\ Unobserved

ScheduleChanges ==
    /\ \/ ~hostSched \in HostSchedule /\ hostSched' = ~hostSched /\ UNCHANGED guestsWant
       \/ Guests # AlwaysOn /\ guestsWant' = ~guestsWant /\ UNCHANGED hostSched
    /\ UNCHANGED <<host, level, override, ignoring, trusted>>
    /\ Unobserved

\* An override is created, cancelled or expires (module Overrides).
OverrideChanges ==
    /\ override' \in (OverrideActions \cup {None}) \ {override}
    /\ UNCHANGED <<host, level, hostSched, guestsWant, ignoring, trusted>>
    /\ Unobserved

\* An ignore_weather override comes or goes; it matters in a storm only.
IgnoreChanges ==
    /\ Danger \in Levels \/ Warning \in Levels
    /\ ignoring' = ~ignoring
    /\ UNCHANGED <<host, level, hostSched, guestsWant, override, trusted>>
    /\ Unobserved

ClockSynchronised ==
    /\ ~trusted /\ trusted' = TRUE
    /\ UNCHANGED <<host, level, hostSched, guestsWant, override, ignoring>>
    /\ Unobserved

-----------------------------------------------------------------------------
Init ==
    /\ power \in {"off", "on"}
    /\ running = IF power = "on" THEN AlwaysOn ELSE {}
    /\ backup = FALSE
    /\ level = Normal
    /\ hostSched \in HostSchedule /\ guestsWant = FALSE
    /\ override = None /\ ignoring = FALSE /\ trusted = FALSE
    /\ attempts = None /\ lastSent = None /\ failed = FALSE
    /\ postponed = FALSE /\ warnSince = None /\ graceSince = None
    /\ pc = "idle" /\ tick = NoTick
    /\ faults = 0
    /\ packets = 0 /\ quota = WakeLimit /\ gap = WakeTimeout
    /\ stormAge = None
    /\ told = None
    /\ intruders = {}

\* The steps of a tick that do not depend on an interruption.
TickStep ==
    \/ AllClear \/ ThreatIgnored \/ DangerForcesOff \/ WarningCountsDown
    \/ LeaveAlone \/ StandDown \/ CompleteWake
    \/ WakeGivenUp \/ FirstPacket \/ WaitForBoot \/ GiveUp \/ Resend
    \/ HostGone \/ NoActiveTasks \/ ForceDespiteTasks \/ Postpone
    \/ StopGuest \/ AllStopped \/ RequestHalt \/ HaltAcknowledged
    \/ ReconcileGuests

World ==
    \/ PowerCut \/ PowerButton \/ GuestControl \/ BackupControl
    \/ ScheduleChanges \/ OverrideChanges \/ IgnoreChanges
    \/ ClockSynchronised

\* Everything but the passing of time.
Instant == BeginTick \/ TickStep \/ Interrupt \/ HaltDone \/ BootDone \/ World

Next == Advance \/ Instant

Spec == Init /\ [][Next]_vars

\* serve's ticker starts a tick every 30 seconds, so that time passes between
\* ticks however they are scheduled, and a tick runs to its end; a halting host
\* halts and a booting host boots.
Fairness ==
    /\ WF_vars(BeginTick \/ TickStep)
    /\ SF_vars(Advance)
    /\ WF_vars(HaltDone \/ BootDone)

FairSpec == Spec /\ Fairness

-----------------------------------------------------------------------------
(* Properties *)

\* No wake episode sends more Wake-on-LAN packets than wol.retries allows,
\* plus what an interrupted tick loses count of: the counter in the store
\* never runs ahead of the packets, nor far behind them.
WakeBudget == packets <= quota

\* The host is declared impossible to wake only after every packet the
\* configuration asks for was really sent, even if ticks were interrupted.
GivenUpJustified == failed /\ ~DryRun => packets >= WakeRetries

\* The last packet has had a wake_timeout, less the time its tick had spent
\* since it read the clock, by which the packet is dated, and a lost second.
HadItsTimeout == gap + Patience + Rounding >= WakeTimeout

\* In an undisturbed episode a packet follows another only when that one has
\* had its time, so a host that is booting is not disturbed.
ResendSpacing ==
    [][packets' = packets + 1 /\ packets > 0 /\ quota = WakeLimit => HadItsTimeout]_vars

\* Nor is the host given up, in an undisturbed episode, before the last of its
\* packets has had its time as well.
LastPacketWaited ==
    [][failed' /\ ~failed /\ ~DryRun /\ quota = WakeLimit => HadItsTimeout]_vars

\* A Warning forces the host off only a `Countdown`, to the second, after the
\* first check that saw Warning or worse: one calm check starts it afresh.
CountdownRespected ==
    pc = "decide" /\ tick.forceOff /\ level = Warning
        => stormAge # None /\ stormAge + Rounding >= Countdown

\* A shutdown that goes ahead over somebody's active task does so in Danger,
\* and not before the storm has lasted for the grace period, to the second.
GraceRespected ==
    [][pc = "tasks" /\ pc' = "stop" /\ backup
          => level = Danger /\ stormAge # None /\ stormAge + Rounding >= Grace]_vars

\* While a shutdown is postponed people are told at most once, except that an
\* interruption between telling and remembering tells them again.
ToldOnce == told # None => told <= 1 + faults

\* A guest is stopped only once none of its dependents runs that ran when the
\* tick read the guests.
DependentsFirst ==
    [][\A g \in tick.left : pc = "stop" /\ pc' = "stop" /\ g \notin tick'.left
          => \A h \in tick.left : g \notin DependsOn[h]]_vars

\* The node is told to halt only when every scheduled guest is stopped, but
\* for those that others started after the tick read the list of guests.
GuestsStoppedFirst ==
    [][pc = "halt" /\ pc' = "await" => running \ AlwaysOn \subseteq intruders]_vars

\* In dry-run no step of a tick changes the host or a guest.
DryRunInert ==
    [][DryRun /\ <<pc, tick>>' # <<pc, tick>> => UNCHANGED host]_vars

\* An enforced storm that lasts, and that nobody chooses to ignore, gets the
\* host off again and again whatever overrides and schedules say: in Danger
\* despite any backup, in Warning if no backup is running.
StormPowersOff ==
    LET Enforced == Enforce /\ trusted /\ ~ignoring
    IN  \/ <>[](Enforced /\ level = Danger)
        \/ <>[](Enforced /\ level = Warning /\ ~backup)
        => []<>(power = "off")

\* However ticks are interrupted, the three wake keys implement an episode
\* that sends a bounded number of packets, gives up after all of them and then
\* stays silent until the host is up or no longer wanted.
Episode == INSTANCE WakeEpisode WITH
    Retries <- IF DryRun THEN 0 ELSE WakeRetries, Limit <- WakeLimit,
    sent <- packets, givenUp <- failed, allowance <- quota
WakesByEpisode == Episode!Spec

\* A host that stays wanted is either up or reported as failing to wake.
WakeResolves ==
    <>[](trusted /\ level = Normal /\ override = "on") => []<>(Up \/ failed)
==============================================================================
