# Verification of labpower in TLA+

labpower runs on a small always-on machine and owns the power state of one
Proxmox host and of the guests on it: it wakes the host and starts guests by
their schedules, shuts them down again, obeys what people ask for in a web
interface, and gets the host off before a thunderstorm arrives. These modules
model the code that decides all this and who may ask for it, check it with TLC
and prove what matters most with TLAPS. Paths below are relative to the
repository.

## 1. Inventory

| Part | State | Operations | Works with |
|---|---|---|---|
| Host reconciliation, `internal/engine/host.go` | seven keys of the state table: `host_wake_attempts`, `host_wake_last_sent_at`, `host_wake_failed`, `host_shutdown_postponed_notified`, `weather_warning_since`, `weather_danger_task_grace_since`, `host_last_wake_ok_at` | `reconcileHost`, `weatherSafety`, `pursueWake`, `completeWake`, `shutdownHost` | Proxmox API, Wake-on-LAN sender, store, notifier |
| Guest reconciliation, `internal/engine/guests.go` | key `last_tick` | `plan`, `desiredState`, `execute`, `TopologicalOrder` | Proxmox API, overrides, schedules |
| Weather notification, `internal/engine/weather.go` | keys `weather_level`, `weather_stale_notified` | `reconcileWeather`, `reconcileStaleNotification` | weather monitor, notifier |
| Tick loop, `cmd/labpower/serve.go` | none | a tick every 30 s, one at a time, beside the HTTP server | engine |
| Schedules, `internal/schedule` | none (pure) | `IsOn`, `Crossings` | engine, web, configuration |
| Configuration, `internal/config` | read once at start | `Validate`, `findDependencyCycle`, `validateCoverage`, `Warnings` | schedules, engine |
| Overrides, `internal/store/overrides.go` | table `overrides` | create, cancel, the one in effect at an instant, those that overlap a time | written by the web handlers, read by the engine and the timeline |
| Weather monitor and sources, `internal/weather` | cached forecast and warnings, time of each source's last success | `Evaluate` | HTTP sources, lightning sensor |
| Lightning sensor, `internal/sensor/as3935` | detections of the last 30 minutes | `Run` (goroutine), `Detections` | weather monitor |
| Power actions, `internal/web/handlers_actions.go` | key `web.vacation_override_id` | guest start/stop, host wake/shutdown, vacation, ignore weather, pause, cancel | overrides |
| Timeline, `internal/web/timeline.go` | none | `track`, `upcoming` | overrides, schedules |
| Sessions and step-up, `internal/auth/session.go`, `internal/web/middleware.go` | table `sessions` | create, validate, step up, revoke | store |
| Passkeys and challenges, `internal/auth/webauthn.go`, `internal/web/handlers_auth.go`, `handlers_security.go` | table `credentials`, TOTP secret, challenges in memory | sign in, add and remove passkeys, authenticator app | store |
| Enrolment, `internal/auth/enrol.go`, `internal/web/handlers_enrol.go` | keys `enrol_token_hash`, `enrol_expires_at`, table `users` | `labpower enrol`, first registration | store |
| Rate limiter and alerts, `internal/auth/ratelimit.go`, `handlers_auth.go` | buckets and lockouts in memory, events, key `auth.fail_burst_notified_at` | `Allow`, `Failure`, `Success`; alerts of bursts and new addresses | sign-in and step-up requests |
| Command line, `cmd/labpower` | none | `host shutdown`, `guest start`, `wake`, `enrol` | Proxmox API and store, beside a running engine |
| `cmd/fakepve` | simulated node, guests, tasks | the Proxmox API, power button, plug, backups | stands for the host in development |

The engine and the web server share nothing but the SQLite store: a handler
writes an override, and the next tick finds it. A tick is long. It calls
Proxmox once per guest and waits for each task, up to two minutes by default,
and meanwhile handlers write, people use the Proxmox UI, backups start, the
level of the weather changes and the power fails. The store is written key by
key, so that a crash or an error leaves any prefix of a step's writes. Requests
run concurrently with each other, and none of them holds a transaction over a
read and the write that depends on it.

What makes each part correct, and what is hard about it:

* **Host reconciliation.** A wake episode sends as many packets as configured,
  a wake timeout apart, and ends in success or in a report. Shutdowns wait for
  tasks, except in Danger after a grace period; guests go down in dependency
  order and before the node; dry-run touches nothing; a lasting storm wins
  against everything. Hard: keys written one by one, counters and instants that
  survive an episode they belong to, data read early and used late.
* **Guest reconciliation.** Edge-triggered: every change of schedule or override
  is carried out once, whatever crashed or failed in between, and what people do
  by hand is left alone. Hard: partial failure of a tick, the checkpoint's
  resolution, changes during a tick.
* **Schedules and configuration.** What is reported as crossed between ticks is
  what changed; what validation accepts is what the engine relies on: an order
  of the guests, windows inside the host's. Hard: midnight, days of 23 and 25
  hours, boundaries on the tick, cycles behind unknown names.
* **Overrides and power actions.** The newest active one wins, and each request
  has the effect it names and no other. Hard: equal instants, rows that hide
  others, handlers that write several times.
* **Weather.** The level follows the sources, unreachable ones included; every
  change is notified. Hard: caches, staleness, corroboration, a goroutine that
  records while an evaluation waits.
* **Sign-in.** What is revoked stays revoked, a step-up is fresh, the enrolment
  token is used once and in time, the owner can always sign in, guessing is
  limited in rate, locked out for longer with every failure in a row, and
  noticed. Hard: requests that overlap, writes that fail
  half-way.

## 2. Plan

| Order | Module | Models | State |
|---|---|---|---|
| 1 | `HostPower` (+ `MCHostPower`) | the host half of a tick | done |
| 2 | `HostPowerProofs` | theorems about it | done |
| 3 | `Overrides`, `GuestTick` (+ `MCGuestTick`, `GuestClaims`, `GuestTickProofs`) | overrides and the guest half of a tick | done, checked and proved |
| 4 | `Schedule` (+ `TimetableProofs`) | schedules; lemmas about them and about tables of overrides | done |
| 5 | `WakeEpisode` | abstract specification of a wake, implemented by `HostPower` | done, checked and proved |
| 6 | `Dependencies` | `TopologicalOrder` and `findDependencyCycle` | done, checked and proved |
| 7 | `Config` (+ `MCConfig`, `ConfigProofs`) | validation, and ticks under the schedules it accepted | done, checked and proved |
| 8 | `Weather` (+ `MCWeather`, `WeatherClaims`, `WeatherProofs`) | monitor, sensor window, notification of levels | done, checked and proved |
| 9 | `WebActions` (+ `MCWebActions`, `WebActionsProofs`) | handlers that write overrides, timeline and announcements | done, checked and proved |
| 10 | `RateLimiter`, `SignIn` (+ `MCSignIn`, `SignInProofs`) | rate limits and alerts around overlapping attempts | done, checked and proved |
| 11 | `Accounts` (+ `MCAccounts`, `AccountsClaims`, `AccountsProofs`) | sessions, step-up, challenges, enrolment, security settings | done, checked and proved |

How the modules are composed: `GuestTick` and `WebActions` extend `Overrides`,
`WebActions` and `Config` extend `Schedule`, `Config` extends `Dependencies`,
`SignIn` extends `RateLimiter`; `HostPower` instantiates `WakeEpisode`. A module
of proofs extends the module it is about, and those that need lemmas about
schedules or overrides extend `TimetableProofs`. The modules of the engine meet
at flags and sets that one of them leaves free and another explains: `HostPower`
sees guests' wishes as `guestsWant`, overrides on the host as `override` and the
threat as `level`, which any tick may find changed, as the first two may be at
any time; `GuestTick` sees what
the host half does as outages and as ticks that return early;
`GuestTick!ScheduledOn` is a given set of instants, and `Config` shows that the
code's `Crossings` reports the changes of its `IsOn` and no others, which is how
`GuestTick!Crossed` reads it; the dependency `Rank` of the engine's modules is
the order that `Dependencies` proves to exist. The power actions that
`Accounts!Act` stands for are those of `WebActions`.

## 3. The modules and the code

### HostPower, WakeEpisode

One action per branch of the code; `pc` is where the tick is, `tick` its local
variables. `BeginTick` is `Tick` up to `reconcileHost` (it reads NodeStatus,
ListGuests and the level). `AllClear`, `ThreatIgnored`, `DangerForcesOff` and
`WarningCountsDown` are `weatherSafety`; `LeaveAlone`, `StandDown` and
`CompleteWake` the rest of `reconcileHost`; `WakeGivenUp`, `FirstPacket`,
`WaitForBoot`, `GiveUp` and `Resend` are `pursueWake`; `NoActiveTasks`,
`ForceDespiteTasks`, `Postpone`, `StopGuest`, `AllStopped`, `RequestHalt` and
`HaltAcknowledged` are `shutdownHost`; `ReconcileGuests` stands for the guest
half.

* **Time.** The keys hold instants and the code only asks how long ago they are,
  so variables hold ages, which grow as far as a tick can tell (`KeyAges`). A
  tick reads the clock once (`engine.go:169`), and measures and stores by that
  instant however long it takes: the weather services and notices are asked with
  timeouts of 10 s each, Proxmox with 15 s, and a packet may leave after all of
  them. `Advance` is therefore enabled in every step; `tick.age` is how old the
  tick's clock reading is, `Since` subtracts it, and what is stored under a key is
  of that age (`Stored`), or up to `Rounding` older, since RFC 3339 drops part of
  a second. `Patience` is the sum of those timeouts: it bounds `tick.age` for as
  long as a tick still uses its reading (`Dated`), and nothing bounds the rest of
  it. The weather, the node and the list of guests are read in one action,
  `BeginTick`; the time between these reads passes after it.
* **Partial failure.** A step with several writes takes an `n` of them
  (`Effects`): with fewer than all, the tick is over, by a crash or by an error,
  which have the same effect. `Interrupt` is the case of none. Calls to a host
  that went down fail by themselves (`HostGone`).
* **The world** is what `cmd/fakepve` simulates: `PowerCut`, `PowerButton`,
  `BootDone`, `HaltDone`, `GuestControl`, `BackupControl`; a packet may be lost.
  Schedules and overrides change at any time, the level with each evaluation.
* **Observers** (`packets`, `quota`, `gap`, `stormAge`, `told`, `intruders`)
  count what happened for the properties; no step of the code reads them. `gap`
  is the real age of the last packet, beside `lastSent`, the one the store has.
* **Refinement.** `WakeEpisode` has no keys, ticks or power, only what was sent
  and whether somebody was told that the host does not wake. Under the mapping
  `sent <- packets`, `givenUp <- failed`, `allowance <- quota` every step of
  `HostPower` is a step of the episode or leaves it alone: the property
  `WakesByEpisode`.

Left out: `host_last_wake_ok_at`, which only a page shows, and the wording and
priority of notices. The model's own notices are those of a postponement.

### Overrides, GuestTick

`Overrides` has the table as a sequence of rows and the query as operators.
Instants are half seconds and `Stored` drops the half, as `Time.Unix` and
RFC 3339 do, so that the model can tell what the table cannot.
`GuestTick` has `BeginTick`, `Plan` (all of `plan`: it reads the overrides at
`last_tick` and now), `StopGuest` and `StartGuest` (`execute` with its task: done,
failed, or failed though it happened), `Save` and `Fail`. `OverrideCreated` and
`OverrideCancelled` are the handlers, which run at any time; unless `SameSecond`
they do not write in the second of a tick. Plan is one action: the reads for
different guests do not depend on each other.

### Schedule, Dependencies, Config

A calendar is the instants of its local midnights (`Midnights`), which only have
to increase, so that a day may have any length. `Instance`, `InstancesCovering`,
`IsOn`, `Candidates` and `Crossings` are the functions of the same names, sets
where the code has slices. `EndsInTime` names the schedules of which no window
ends after the day that follows the one it begins on (see section 4).

The depth-first walk of `findDependencyCycle` and `TopologicalOrder` is a state
machine: `open` is the call stack of `visit`, `Visit` the loop over all names,
`Descend`, `PassBy` and `FindCycle` the cases of the inner loop, `Leave` the end
of a call. The two functions are the same walk; one returns the path when it
finds a cycle, the other the order.

`Config` takes a configuration through `validateGuests` (`WalkGuests`,
`GuestsChecked`), `validateCoverage` and `Warnings`, and then lets ticks happen
at any instants. The coverage is compared in a reference week of ordinary days
(`Ordinary`), the ticks run on a calendar on which the clocks change and which
has room for a reference week. `required` is a set of windows, each compared on
its own as `Warnings` does. The code collects all errors where the model stops at the first; what is accepted is the
same.

### Weather

`Evaluate` is split where it waits: `AskLightning`, `AskWarnings`,
`AskForecast`, `AskLocal`. Between these, `Record` is the goroutine of the
sensor, and the feed, the sky and the sources' reachability change. `Report`,
`Remember`, `ReportStale` and `RememberStale` are `reconcileWeather` and
`reconcileStaleNotification`: a notice that may be lost and then a write that may
fail. `Done` is what the pages are shown. `Restart` loses the caches and the
detections. Distances are numbers, the feed a set of warnings with an expiry
that may be missing, as in an entry without a readable date. `Retain` is how long
the watcher keeps detections (30 minutes, `watcher.go:39`) and `Window` the
configured `corroboration_window`; nothing ties one to the other, in the code or
here.

### WebActions

One action per handler of one write; `VacationStart`, `VacationEnd` and
`SchedulesPause` are sequences of writes of which several can be in progress,
each of which can fail or die half-way. `StateAt` and `Upcoming` are `track` and
`upcoming`: rows that are fetched once for a day and read for each instant of it.
`Position` is a guest's place in the configuration, in which the requests to
pause go through them. Days begin, and schedules turn on and off, at whole
seconds, as HH:MM in a configuration makes them. Left out: the wording of
announcements and that only the first 5 or 20 of them are listed.

### RateLimiter, SignIn, Accounts

`RateLimiter` has an entry's bucket and lockout as functions of the entry and the
time. In `SignIn` a request reads the clock (`Arrive`), asks the limiter (`Admit`,
at most `Slip` later, so that instants may reach a bucket out of order), runs step
by step through `recordLoginFailure`, `finishLogin` or `handleStepUpFinish`, and
is counted when it ends. A wrong passkey is counted twice in a step-up
(`Rejected`, then the middleware), a right one too, even if the write between
fails and counts as a failure (`Accepted`). `login` and `stepup` are the two
limiters; requests that only ask for a challenge pass them as well and end in a
success. The store keeps instants in whole seconds (`Stored`, `Second`).

`Accounts` has a request's reads and writes as steps: `InSession` reads the
session, `Touch` or `Expire` writes it, `Admit` is `requireStepUp`, which judges
the session as it was read by the clock as it is now, and the handler writes in
steps of their own after that (`Act`, `StorePasskey`, `DeletePasskey`,
`ConfirmTOTP`, `DisableTOTP`). In a step-up, too, the assertion (`StepUp`) and the
write (`Raise`) are apart, and the session is raised from a clock reading between
the two. `asserted` is the observer of the first. `Patience` bounds the time
between such a check and its write (`Hurried`): a body must arrive within the
server's `ReadTimeout` of 15 s (`server.go:30`), and what is left are reads and
writes of a local database. Tokens and ids are positions in a table, since random
ones do not collide.

### Conventions

A definition `Mutant_X` stands before the definition that it would replace and
is a mistake the code could contain: with it in place, the run named in
`PROJECT.json` must fail. `MC...` modules give the constants values, `...Claims`
modules state sentences of documents, comments and tests that the code does not
live up to. `CHECK_DEADLOCK FALSE` is set in all configurations: behaviours end
where bounds are used up (time, rows, requests, mishaps), and an engine whose
clock is never trusted has nothing to do.

## 4. Runs

| Run | Checks | Bounds |
|---|---|---|
| `host` | `CountdownRespected`, `ToldOnce`, `GraceRespected`, `WakesByEpisode`, `StormPowersOff`, `WakeResolves` | fair; 2 retries; levels Normal, Warning, Danger; durations 1, and as much may pass within a tick; the host is wanted by an override only; 1 interruption |
| `host_wake` | `ResendSpacing`, `LastPacketWaited`, `DependentsFirst`, `GuestsStoppedFirst` | no storm; a host schedule that changes at any time; 2 retries, a wake timeout of 3, of which a tick may spend 1 and storing an instant lose 1; 3 guests, one always on, one dependency |
| `guest_changes` | `TypeOK`, `ChangesCarriedOut`, `ManualStays`, `DependenciesFirst` | 2 guests, one depending on the other; at most 2 overrides, and 3 events in all (overrides and mishaps of five kinds); 4 instants of half a second |
| `weather` | `SilenceNoticed`, `WarningFollowed`, `LevelTold`, `PairConfirmed`, `StaleToldOnce` | 4 sources, 2 feeds, 3 forecasts, 3 skies; detections are kept for 1 and confirm each other for 2; 3 events, 5 instants |
| `web_actions` | `TimelineAgrees`, `UpcomingComplete`, `OnlyVacationsEnded`, `UntilTheSchedule`, `PauseTaken`, `IgnoreHarmless` | host and 2 guests, one always on; 2 rows, 2 requests of several writes at a time, 1 failure; 4 days of 3 s, a host window over midnight |
| `sign_in` | `WaitsGrow`, `RateKept`, `AlertOnce`, `BurstAlerted` | 3 requests of any of the four kinds, all at a time, from one address; a request takes up to 1, which is also how far instants may be out of order, a second of the store is 2, a window 4 of 6 instants; 1 fault |
| `accounts` | `EnrolledOnce`, `OwnerCanSignIn`, `GoneForGood`, `FreshStepUp`, `EnrolTimely` | 4 requests, 2 at a time; 2 passkeys, sessions, challenges and tokens; 4 instants, durations of 1 and 2, 1 between a check and its write; 1 fault |
| `config` | `DependenciesComeFirst`, `OrderComplete`, `CycleExact`, `BoundariesExact`, `AsOnTheWall`, `WindowsInsideHost` | every `depends_on` of up to 2 among 3 guests and an unknown name; host schedules of 1 or 2 windows; a week of 2 days, 6 days of 4 units, one with 2 and one with 6 |

`TypeOK` is checked for the guests' half of a tick and proved for every module.
`WakeBudget` and `GivenUpJustified` of `HostPower` are what `WakesByEpisode`
makes of packets and reports, stated as invariants: they are proved (section 6)
and no run repeats them.

Why these bounds suffice:

* Durations of 1 distinguish before and at a deadline, and different clocks are
  compared with each other only through properties that are proved for every
  value (section 6). Two retries are the least with a first and a last packet.
  What makes `host` wanted is one bit to a tick, whether an override or the
  schedule sets it: `HostSchedule` lets the schedule change in `host_wake` and
  not in `host`, the run with the liveness properties. That run has no interruptions, because the two properties of packets are
  about undisturbed episodes and the other two are proved for any number of them.
  Its wake timeout is longer than what a tick may spend and lose together, so that
  both properties say something.
* Guests do not influence each other but through dependencies and through a tick
  that fails as a whole, for which two suffice; three events are enough for a
  failure, its retry and somebody who interferes, or for two overrides that
  supersede each other and a mishap. The instants of `GuestTick` contain the
  boundary at which both guests begin, ticks on both halves of the seconds before
  and after it and so room for a retry; guests are stopped by overrides.
* In `Weather` a source falls silent, the other sources go on, and the caches run
  out at different instants: 5 instants hold the longest of these delays. With
  `Retain` below `Window` the watcher drops detections that an evaluation would
  still have paired.
* In `WebActions` one row hides, outlives or ends before another; a third adds a
  repetition. The two instants at which requests arrive lie before and after the
  host turns off, and the days after them hold every boundary that is computed.
* `SignIn!Patience` bounds what a request takes, and two of them are shorter than
  a window: the server's and the notifier's timeouts are seconds,
  `failBurstWindow` is minutes. With longer requests alerts would be sent in
  another order than their failures happened.
* Two requests show every overlap of a read and a write; a third at the same
  time would have to depend on both. Four in a row are two enrolments, each asked
  for and finished; behaviours begin with nobody enrolled or with the owner in a
  session, where a step-up and what it is used for are three. Three failures have
  two waits between them. Two passkeys are the least of which one can be removed.
* A window touches at most two days, so that six days show every neighbourhood
  of ordinary, short and long ones that includes a change of the clocks. With
  three guests a walk can come back to a guest by two ways and close a cycle of
  one, two or three.

What the passing runs show: wakes keep to the episode and to their budget through
crashes, and end; packets get their wake timeout but for what a tick takes;
countdown and grace are really waited for, and a lasting storm gets the host off; no guest is stopped under its dependents,
and the node never halts over a guest that the tick could know of; a change is
never lost by a crash or a failure; what people do by hand is respected once a
tick has succeeded; silence of a source is noticed in time and people know the
level; every request on overrides does what it names and no more, also when two
of them overlap or one dies half-way; the timeline shows and announces what the
engine will do; a session that is gone stays gone, a step-up is fresh, an
enrolment happens once and in time; attempts keep to the rate of the bucket and failures
to doubling lockouts until the limiter is told of a success, which handing out a
challenge is too (see below), and bursts of them are reported; accepted configurations have an order of guests and keep guests'
windows inside the host's on ordinary days; boundaries are reported exactly.

### Disagreements between the code and its documents

Each is a run that must find its property violated.

| Run | What happens |
|---|---|
| `claim_restored` | After an outage inside their window guests stay off until their next boundary |
| `claim_same_second` | An override written in the second of a tick, after its start, is not acted on |
| `claim_stale` | A warnings feed that fails during a storm makes the level fall to Normal and never rise to Danger |
| `claim_enrol_retry` | An enrolment that fails between the user and the passkey cannot be retried, and nobody can sign in |

### What the models have and no run states

Behaviour a maintainer may want to know of; where a sentence of the repository
says otherwise, it is named.

* `host_shutdown_postponed_notified` survives a postponement that was called
  off, so that the next one is not announced (`docs/ROLLOUT.md:132`).
* Packets are dated by the clock reading at the start of their tick, in whole
  seconds. They leave after requests to the weather services and to Proxmox, so
  that two of them can be closer than `wake_timeout` by what those take and a
  second, and the host can be given up as much too early. `ResendSpacing` and
  `LastPacketWaited` say so (`HadItsTimeout`).
* Danger that returns after a Warning finds the grace period of the earlier
  Danger running or used up (`internal/engine/weather_enforce_test.go:138`).
* An ignored storm leaves `weather_warning_since` as it is, so that the host goes
  down at once when the ignore override expires.
* A calm check that cannot delete its keys leaves the countdown or the grace
  period as it was; the properties date the storm by the last calm check that
  deleted them all. A guest that somebody starts after the tick has listed the
  guests is not in its list and goes down with the node (`intruders`).
* A backup that starts while guests are being stopped is cut off by the halt; a
  node that takes longer than a tick to halt is told again; one guest that cannot
  be stopped fails the whole shutdown, in Danger too.
* While one guest's action fails, `last_tick` stays behind for all, so that a
  guest which somebody started by hand in the meantime is stopped again at the
  next try (`ManualStays` only speaks of changes that a successful tick has taken
  in). A guest that Proxmox does not list at its boundary misses it.
* A window that crosses midnight into the day the clocks go forward and ends
  after 23:00, such as one from 23:45 to 23:30, has its end on the day after the
  next. `instancesCovering` looks one day back only, so that `IsOn` turns off at
  midnight, which is no candidate of `Crossings`: no tick reports the change,
  though the comment speaks of "every window instance whose on/off pair could
  possibly overlap" (`internal/schedule/schedule.go:160-163`). `EndsInTime`
  excepts such windows: without it TLC finds `BoundariesExact` violated.
* Around the days on which the clocks change a guest's window can leave the
  host's, though `validateCoverage` accepted both
  (`internal/config/coverage.go:32-34`): `OrdinaryDay` excepts them.
* Nothing compares the schedules of guests that depend on each other, and neither
  `wake_timeout` nor the weather's `all_clear_after` and `on_stale_data` have any
  effect at 0 or at all.
* More than 50 later overrides hide one that is still in effect; an override
  written before the clock is synchronised can lose against older ones.
* Between the two writes of a vacation, and if the second fails, the host is off
  without a vacation that could be ended (`handlers_actions.go:152-154`). An
  announcement says "schedule takes over" when an override ends, also where
  another override does.
* Two overlapping removals can take the last two passkeys
  (`handlers_security.go:129-133`): `OwnerCanSignIn` excepts them (`raced`), as it
  excepts failing writes, which are `claim_enrol_retry`.
* Every request for a challenge, of a sign-in, an enrolment or a step-up, passes
  the limiter and ends in a 2xx status, so that the middleware calls `Success`
  (`middleware.go:156-160`) and both the lockout and the bucket of that address
  start afresh. A wrong passkey always has such a request before it, so that its
  lockouts do not grow beyond those of one attempt. The comment on the limiter says
  "a burst of wrong passkey/TOTP attempts gets progressively slower rather than
  just capped at a fixed rate" (`internal/auth/ratelimit.go:15-19`), that on
  `Success` speaks of "a successful login/step-up" (`:77-78`). `WaitsGrow` and
  `RateKept` are about attempts with no such success between them, wrong codes for
  instance: they are properties of the limiter, not the promise of that comment,
  which the code does not keep for passkeys. A success of one attempt likewise
  clears the failures of all others from its address.
* A failure that is counted late sets a shorter lockout than the one before; two
  failures that overlap can both alert, and the time of the last alert can go back
  by what a request takes; the notice of a new address is lost with
  the process. `RateLimiter.Prune`, `ChallengeStore.Prune` and
  `DeleteExpiredSessions` are never called.
* The sensor's watcher keeps detections for 30 minutes
  (`cmd/labpower/weather.go:106`), "comfortably longer than any corroboration
  window internal/weather uses" (`internal/sensor/as3935/watcher.go:31-33`), but
  `validateWeather` (`internal/config/config.go:360-406`) puts no bound on
  `corroboration_window`. With a longer one a pair of detections within the window
  is dropped and makes no Danger: `PairConfirmed` promises only what is retained.
* When an expired session cannot be deleted, the request is refused all the same
  and the row stays (`internal/auth/session.go:97-100`).

## 5. Fairness

`FairSpec` of `HostPower` assumes:

* weak fairness of `BeginTick` and of the steps of a tick: `serve` starts a tick
  every 30 seconds for as long as it runs, every call has a timeout, and systemd
  restarts the process;
* strong fairness of `Advance`: it is disabled while a tick has used up
  `Patience` and still works with its clock reading, but enabled between ticks
  again and again, and 30 seconds pass there;
* weak fairness of `HaltDone` and `BootDone`: a host that halts or boots gets
  there, as `cmd/fakepve` has it after `HaltTime` and `BootTime`.

Nothing is assumed of the world: packets may all be lost (then `WakeResolves`
is met by the report), people may do what they like. Failures are bounded by
`MaxFaults`, without which a tick could fail for ever. The other modules state
no liveness: what a request or an evaluation must have done is stated of the
moment at which it is answered.

## 6. Proofs

Every safety property that a passing run checks is a theorem: what the run shows
on a small instance holds for every value of the constants that satisfies the
named assumptions. Those on configured values are what `Validate` or the types
guarantee; those on how long things take rest on the timeouts of clients and
server and on a store that answers in time; TLC evaluates all of them on every run.

| Module | Assumed |
|---|---|
| `HostPower` | dependencies are acyclic: `Rank` increases along them; durations, `Patience` and `Rounding` are natural numbers, whatever they are |
| `GuestTick` | dependencies are acyclic; schedules change at whole seconds |
| `Dependencies` | guests are numbered as their names sort; not that they are finitely many |
| `Overrides` | a query returns at least one row |
| `Schedule`, `Config` | midnights increase; the calendar has room for the reference week |
| `WebActions` | days and windows begin at whole seconds; the horizon is a day at least and within the calendar |
| `Weather` | intervals and the window are positive; nothing of how long the watcher keeps detections or an evaluation waits |
| `RateLimiter`, `SignIn` | durations are positive; enough doublings of the lockout reach its limit; two requests and a second of the store take no more than a window, which is whole seconds; between reading the clock and `Allow` passes no more than a request takes |
| `Accounts` | durations are positive; `Patience` is a natural number; there is a row at least |

`None` is assumed to be none of the values it stands beside. Four theorems have
hypotheses, and each is one a reader should know of:

* `~SameSecond` (`NoChangeIsLost`, `InOrder`): nobody writes an override in the
  very second of a tick. `claim_same_second` shows what happens otherwise.
  `HandsOff` needs no such thing.
* `MaxRows <= RowLimit` (`TimelineIsTrue`, `PausesAreTaken`,
  `NothingUnannounced`): the table is not longer than the 50 rows one query
  returns.
* `AllEndInTime` (`TakeoversAreMet`, `NothingUnannounced`), and `EndsInTime`
  within `BoundariesExact`: no window ends after the day that follows its own.
* `Powers` (`WaitsDouble`, and `TypesCorrect` of `SignIn`): `2 ^ n` of a natural
  number is one, a fact of arithmetic for which the prover has no induction.

| Theorem | States | Argument |
|---|---|---|
| **`HostPowerProofs`** | | |
| `TypeCorrect` | `Spec => []TypeOK` | one lemma per group of actions |
| `WakeBudgetKept` | `Spec => []WakeBudget`, which no run repeats | invariant `WakeCounted` |
| `GivenUpOnlyAfterRetries` | `Spec => []GivenUpJustified`, likewise | invariant `GivenUpCounted` |
| `EpisodeImplemented` | `Spec => WakesByEpisode` | both of them: every step is a step of the episode |
| `PacketsSpaced` | `ResendSpacing` | invariant `Spaced` |
| `GivenUpInTime` | `LastPacketWaited` | invariant `Spaced` |
| `CountdownKept`, `GraceKept` | `CountdownRespected`, `GraceRespected` | invariant `StormTimed` |
| `DryRunKept` | `DryRunInert`, which no run repeats | invariant `DryRunStops`: in dry-run a tick never reaches `halt` |
| `DependentsStopFirst` | `DependentsFirst` | from the order alone: the guest that comes last has no dependents left |
| `GuestsStopBeforeHalt` | `GuestsStoppedFirst` | invariant `GuestsAccounted` |
| `ToldOnceKept` | `Spec => []ToldOnce` | invariant `ToldCounted` |
| **`ConfigProofs`** | | |
| `WalkTypeCorrect` | `WalkSpec => []WalkTypeOK` | one step per action |
| `DependenciesFirstInOrder` | `WalkSpec => []DependenciesComeFirst` | invariant `WalkInv` |
| `EveryGuestOnce` | `WalkSpec => []OrderComplete` | `WalkInv` and `AllLeft` |
| `CyclesFoundExactly` | `WalkSpec => []CycleExact` | `WalkInv`; a smallest position in the order for one direction, the open calls for the other |
| `ValidateWalks` and `OrderOfGuests`, `OrderOfAllGuests`, `CyclesRefused` | the three above of `Config` | every step of `Config` is a step of the walk or leaves it alone |
| `TypesCorrect` | `Spec => []TypeOK` | invariant `TicksInv` |
| `BoundariesReported` | `BoundariesExact` | `CrossingsExact` |
| `ReadOffTheWall` | `AsOnTheWall` | a window that is on began today or yesterday |
| `WindowsCovered` | `WindowsInsideHost` | `TicksInv`; each weekday has its like in the reference week |
| **`GuestTickProofs`** | | |
| `TypesCorrect` | `Spec => []TypeOK` | a view of a table is typed; one step per action |
| `NoChangeIsLost` | `ChangesCarriedOut` | invariant `TickInv` |
| `HandsOff` | `ManualStays` | invariant `HandInv` |
| `InOrder` | `DependenciesFirst` | `TickInv`; `Rank` of the guest that is started is the least |
| **`WeatherProofs`** | | |
| `TypesCorrect` | `Spec => []TypeOK` | the nearest of a finite set of distances is one of them |
| `NoSilenceIsMissed`, `FeedIsFollowed` | `SilenceNoticed`, `WarningFollowed` | invariant `WarnInv` |
| `PeopleKnow`, `StaleIsToldOnce` | `LevelTold`, `StaleToldOnce` | invariant `ToldInv` |
| `PairsConfirmed` | `PairConfirmed` | invariant `PairInv` |
| **`WebActionsProofs`** | | |
| `TypesCorrect` | types, and that a request holds rows of the table | one lemma per kind of write |
| `VacationsEndAlone` | `OnlyVacationsEnded` | invariant `Vacations` |
| `IgnoringIsHarmless` | `IgnoreHarmless` | rows of another action are never fetched |
| `TimelineIsTrue` | `TimelineAgrees` | what is fetched for a day holds what is fetched for each instant of it |
| `PausesAreTaken` | `PauseTaken` | invariant `Pausing` |
| `TakeoversAreMet` | `UntilTheSchedule` | `CrossingsExact` |
| `NothingUnannounced` | `UpcomingComplete` | invariant `Past`, `CrossingsExact` |
| **`SignInProofs`** | | |
| `TypesCorrect` | `Spec => []TypeOK` | `Typed` is inductive; the lockouts' part needs `LockInv` |
| `RatesAreKept` | `RateKept` | invariant `MeterInv` |
| `AlertedOnce`, `BurstsAlerted` | `AlertOnce`, `BurstAlerted` | invariant `TellInv` |
| `WaitsDouble` | `WaitsGrow` | invariant `LockInv` |
| **`AccountsProofs`** | | |
| `TypesCorrect` | types, and that a request is about rows of the tables | one lemma per handler |
| `DeletedStaysDeleted` | `GoneForGood` | invariants `TypeOK` and `LocalsAgree`: a row that is gone is not written by those who read it before |
| `OnlyOneEnrols` | `EnrolledOnce` | invariant `OneEnrolment` |
| `OwnersSignIn` | `OwnerCanSignIn` | invariant `OneLeft` |
| `StepUpsAreFresh` | `FreshStepUp` | invariant `StepUpsCovered` |
| `EnrolmentsInTime` | `EnrolTimely` | invariant `TokensInTime` |

The properties are not inductive, and what makes them so is said here module by
module.

**Host.** `WakeBudget` compares packets with a quota, but a step knows the stored
count only: `WakeCounted` says that the packets are bounded by the count plus
what interruptions have added to the quota. `GivenUpCounted` is the opposite
bound: the stored count never exceeds the packets sent, because a packet leaves
before it is counted. `Spaced` says that in an undisturbed episode the last
packet is at least as old as the stored age of it, less `Patience` and `Rounding`:
the stored age counts from the clock reading of the tick that sent it. `StormTimed`
relates the stored ages to the storm's: a countdown or grace period is older than
the storm by a lost second at most, in every step of a tick, while the reading of
the tick in progress ages, and after every interrupted deletion.
`GuestsAccounted` says of each step from `stop` to `halt` that a scheduled guest
which runs is either still to be stopped or was started by others. `ToldCounted`
allows for a notice that was sent and not remembered.

**Walk.** `WalkInv` says what the colours mean while calls are open: the gray
guests are those of the open calls and no others (`OnStack`), the black ones
those of the order (`InOrder`), every entry before a call's position is black or
unknown (`LookedAt`), and each open call was made for the entry at which the call
below it stands (`Chain`). When a guest is left, all its entries have been looked
at, so that its dependencies are in the order already; when a gray guest is
reached, the chain from it to the top of the stack is a cycle; and in a complete
order the first guest of an alleged cycle would depend on one after it.

**Schedules and overrides.** `TimetableProofs` has the lemmas about the two data
structures that engine and web share. In the table: the newest row of those in
effect exists and is one only, and a view of the table at an instant does not
change when a row is added or cancelled later, nor within a second
(`SameBefore`, `WholeSecond`, `CreatedLater`, `CancelledLater`). In schedules:
`IsOn` is the same however far around the instances are looked for
(`OnIsCovered`), it changes only at candidates (`ChangesAtCandidates`), and
between two candidates not at all (`NothingBetween`, which takes a smallest
counterexample where a textbook would use induction). `CrossingsExact` follows:
the code compares each candidate with the one before it, and finds the changes of
`IsOn` and no others. `WindowsCovered` adds the arithmetic of the reference week:
an instant of an ordinary day has its like, of the same weekday and time of day,
in that week, and `IsOn` is the same at both.

**Guests' half.** `TickInv` says what a tick in progress knows: what it plans
with is still what the table says of its instant (`Seen`), what it remembers is
the view at the last successful tick (`Remembered`), and a guest that changed is
in the lists, done, or accounted for (`Planned`). `HandInv` is what keeps hands
off a guest: since the tick that took in its last change, its view has not
changed, so that no later plan finds a trigger.

**Weather.** `WarnInv` relates the caches to the feed: what a cache holds was the
feed's at the instant of its last success, or the feed has changed since
(`Followed`), and that instant is the last one at which the source was heard
(`Heard`). `ToldInv` says that the stored level and what people were told agree
where it matters, between the notice and the write too. `PairInv` says that the
detections kept are the end of all since the start, in their order, and that what
was dropped was older than `Retain` when the newest of them came: it needs nothing
of how `Retain` and `Window` compare.

**Web.** `Vacations`: what the key names, and what requests for a vacation hold,
was written by such a request. `Pausing`: a request with rows left has written
those of its other targets. `Past`: no row was created or cancelled, and no
request began, later than now.

**Sign-in.** `MeterInv` charges each attempt let through against the bucket: the
tokens left are at most those of a full bucket and of the time since any of the
attempts, less the attempts from it on, with a slip for each
instant that came out of order. `LockInv` says how late the lockout ends
that the last failures have earned. `TellInv` says of every two alerts, sent or
about to be sent, that they are a window apart, give or take `Patience` and a
second, or one overtook the other, and of every burst that it was told or that its request is still on the way to look.
The proof of the order of alerts found the bound on `Patience`.

**Accounts.** `LocalsAgree` ties a request in progress to the rows it read.
`OneEnrolment` says that whoever got past the insertion of the user is the only
one, `StepUpsCovered` that every instant until which a session is stepped up, in
the table, as a request has read it or on its way there, goes back to an assertion
in the same session at most `StepUpDuration` and `Patience` before (`Covers`), and
that a request between a check or an assertion and its write has been so for no
longer than `Patience` (`OnItsWay`), so that the two add up in `FreshStepUp`,
`TokensInTime` that a stored expiry is at most `EnrolTTL` after its token was
made, whichever of the two writes came last.

Only model-checked: `StormPowersOff` and `WakeResolves`, because liveness under
fairness is out of the prover's reach, and the four claims, which are refuted. In
dry-run nothing is model-checked: the theorem covers the host's half, and of the
guests' half `Execute` says that nothing runs or stops.

## 7. Not modelled

* The command line: `labpower host shutdown` does from another process what
  `shutdownHost` does, without its keys and its check for tasks, and nothing
  keeps the two apart. A second actor in `HostPower` goes beyond what a run can
  visit.
* HTTP, TLS, JSON, SQL, I2C and cryptography; the distance on a sphere; pages,
  templates and assets; queries and parts of the audit log that only pages read;
  parsing and formatting of times and of the configuration, and the ranges of its
  single values, which are assumptions on the constants.
* Migrations of the store, pruning of events, and the shutdown of the HTTP
  server.
