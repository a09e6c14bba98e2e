--------------------------- MODULE HostPowerProofs ---------------------------
(***************************************************************************)
(* Proofs about HostPower for every configuration: all numbers of retries, *)
(* timeouts, guests, interruptions and all interleavings with the world.   *)
(***************************************************************************)
EXTENDS HostPower, TLAPS

-----------------------------------------------------------------------------
(* Type correctness. *)

\* What type correctness needs to know of the configuration.
LEMMA Sizes ==
    /\ AlwaysOn \subseteq Guests
    /\ WakeTimeout \in Nat /\ Countdown \in Nat /\ Grace \in Nat
    /\ Patience \in Nat /\ Rounding \in Nat
    /\ WakeRetries \in Nat /\ MaxFaults \in Nat
  BY ConstantsAssumption DEF ConstantsAssumption

LEMMA Actions == OverrideActions \subseteq {"on", "off", "pause"} /\ Levels \subseteq Normal..Danger
  BY ConstantsAssumption DEF ConstantsAssumption

LEMMA NoAge == None \notin Nat
  BY ConstantsAssumption DEF ConstantsAssumption

LEMMA StormLimitType ==
    StormLimit \in Nat /\ StormLimit >= Countdown /\ StormLimit >= Grace
  BY Sizes DEF StormLimit

\* Ages stay within their bound when time passes.
LEMMA OlderType ==
    ASSUME NEW limit \in Nat, NEW a \in (0..limit) \cup {None}
    PROVE  /\ Older(a, limit) \in (0..limit) \cup {None}
           /\ a # None => Older(a, limit) \in 0..limit
           /\ Older(a, limit) = None <=> a = None
  BY NoAge DEF Older

LEMMA KeyOlderType ==
    ASSUME NEW time \in Nat, NEW a \in KeyAges(time) \cup {None}
    PROVE  /\ KeyOlder(a, time) \in KeyAges(time) \cup {None}
           /\ KeyOlder(a, time) = None <=> a = None
<1>1. time + Patience + Rounding \in Nat
  BY Sizes
<1> QED
  BY <1>1, OlderType DEF KeyOlder, KeyAges

\* What a tick stores is of the right type, for a comparison with any duration.
LEMMA StoredType ==
    ASSUME NEW time \in Nat, tick \in TickLocals, NEW b \in Stored
    PROVE  b \in KeyAges(time) /\ b \in Nat /\ b <= tick.age + Rounding
  BY Sizes DEF Stored, KeyAges, TickLocals

LEMMA KeptType ==
    ASSUME NEW time \in Nat, tick \in TickLocals,
           NEW a \in KeyAges(time) \cup {None}, NEW b \in Kept(a)
    PROVE  b \in KeyAges(time)
  BY StoredType DEF Kept

LEMMA WakeLimitType == WakeLimit \in Nat
  BY Sizes DEF WakeLimit

LEMMA NoTickType == NoTick \in TickLocals /\ "idle" \in Steps
  BY Sizes DEF NoTick, TickLocals, Steps

\* The parts of the state that a step leaves alone keep their types.
LEMMA Untouched ==
    /\ HostOK /\ UNCHANGED host => HostOK'
    /\ WishesOK /\ UNCHANGED wishes => WishesOK'
    /\ WakeKeysOK /\ UNCHANGED wakeKeys => WakeKeysOK'
    /\ OffKeysOK /\ UNCHANGED offKeys => OffKeysOK'
    /\ TickingOK /\ UNCHANGED ticking => TickingOK'
    /\ ObserversOK /\ UNCHANGED <<wakeLog, stormAge, told, intruders>> => ObserversOK'
<1>1. HostOK /\ UNCHANGED host => HostOK'
  BY DEF HostOK, host
<1>2. WishesOK /\ UNCHANGED wishes => WishesOK'
  BY DEF WishesOK, wishes
<1>3. WakeKeysOK /\ UNCHANGED wakeKeys => WakeKeysOK'
  BY DEF WakeKeysOK, wakeKeys
<1>4. OffKeysOK /\ UNCHANGED offKeys => OffKeysOK'
  BY DEF OffKeysOK, offKeys
<1>5. TickingOK /\ UNCHANGED ticking => TickingOK'
  BY DEF TickingOK, ticking
<1>6. ObserversOK /\ UNCHANGED <<wakeLog, stormAge, told, intruders>> => ObserversOK'
  BY DEF ObserversOK, wakeLog
<1> QED
  BY <1>1, <1>2, <1>3, <1>4, <1>5, <1>6

LEMMA InitType == Init => TypeOK
<1> SUFFICES ASSUME Init PROVE TypeOK
  OBVIOUS
<1>1. HostOK
  BY Sizes DEF Init, HostOK
<1>2. WishesOK
  <2>1. level \in Normal..Danger
    BY DEF Init, Normal, Danger
  <2>2. hostSched \in BOOLEAN
    BY ConstantsAssumption DEF Init
  <2> QED
    BY <2>1, <2>2 DEF Init, WishesOK
<1>3. WakeKeysOK /\ OffKeysOK
  BY DEF Init, WakeKeysOK, OffKeysOK
<1>4. TickingOK
  BY NoTickType, Sizes DEF Init, TickingOK
<1>5. ObserversOK
  BY WakeLimitType, Sizes DEF Init, ObserversOK
<1> QED
  BY <1>1, <1>2, <1>3, <1>4, <1>5 DEF TypeOK

\* How a tick goes on.
LEMMA ControlType ==
    /\ Return => pc' \in Steps /\ tick' \in TickLocals
    /\ \A step \in Steps : Continue(step) /\ TickingOK => pc' \in Steps /\ tick' \in TickLocals
  BY NoTickType DEF TickingOK, Return, Continue

\* The storm is dated within its bound.
LEMMA ThreatSeenType ==
    ASSUME TypeOK, ThreatSeen
    PROVE  stormAge' \in (0..StormLimit) \cup {None} /\ stormAge' # None
<1>1. tick.age \in Nat /\ stormAge \in (0..StormLimit) \cup {None}
  BY Sizes DEF TypeOK, TickingOK, TickLocals, ObserversOK
<1> QED
  BY <1>1, StormLimitType, NoAge DEF ThreatSeen

LEMMA SafetyType ==
    ASSUME TypeOK,
           BeginTick \/ AllClear \/ ThreatIgnored \/ DangerForcesOff \/ WarningCountsDown
    PROVE  TypeOK'
<1> USE Untouched, Sizes DEF TypeOK, world
<1>1. CASE BeginTick
  <2>1. TickingOK'
    <3>1. PICK seen \in BOOLEAN :
             /\ seen # Up => faults < MaxFaults
             /\ faults' = IF seen = Up THEN faults ELSE faults + 1
             /\ tick' = [NoTick EXCEPT !.seen = seen,
                                       !.left = IF seen THEN running \ AlwaysOn ELSE {}]
      BY <1>1 DEF BeginTick
    <3>2. tick' \in TickLocals
      <4>1. (IF seen THEN running \ AlwaysOn ELSE {}) \in SUBSET Guests
        BY DEF HostOK
      <4> QED
        BY <3>1, <4>1, NoTickType DEF TickLocals
    <3>3. faults' \in 0..MaxFaults
      <4>1. (faults < MaxFaults /\ faults' = faults + 1) \/ faults' = faults
        BY <3>1
      <4>2. faults \in 0..MaxFaults
        BY DEF TickingOK
      <4> QED
        BY <4>1, <4>2
    <3> QED
      BY <1>1, <3>2, <3>3 DEF BeginTick, TickingOK, Steps
  <2>2. ObserversOK'
    BY <1>1 DEF BeginTick, ObserversOK, wakeLog
  <2>3. WishesOK'
    BY <1>1, Actions DEF BeginTick, WishesOK
  <2> QED
    BY <1>1, <2>1, <2>2, <2>3 DEF BeginTick
<1>2. CASE AllClear
  <2>1. OffKeysOK'
    BY <1>2 DEF AllClear, OffKeysOK, ForgetThreat
  <2>2. TickingOK'
    BY <1>2, ControlType DEF AllClear, Effects, TickingOK, Steps
  <2>3. ObserversOK'
    BY <1>2 DEF AllClear, ObserversOK, wakeLog
  <2> QED
    BY <1>2, <2>1, <2>2, <2>3 DEF AllClear
<1>3. CASE ThreatIgnored
  <2>1. TickingOK'
    BY <1>3, ControlType DEF ThreatIgnored, TickingOK, Steps
  <2>2. ObserversOK'
    BY <1>3, ThreatSeenType DEF ThreatIgnored, ObserversOK, wakeLog
  <2> QED
    BY <1>3, <2>1, <2>2 DEF ThreatIgnored
<1>4. CASE DangerForcesOff
  <2>1. TickingOK'
    BY <1>4 DEF DangerForcesOff, TickingOK, Steps, TickLocals
  <2>2. ObserversOK'
    BY <1>4, ThreatSeenType DEF DangerForcesOff, ObserversOK, wakeLog
  <2> QED
    BY <1>4, <2>1, <2>2 DEF DangerForcesOff
<1>5. CASE WarningCountsDown
  <2>1. TickingOK'
    BY <1>5 DEF WarningCountsDown, TickingOK, Steps, TickLocals
  <2>2. OffKeysOK'
    BY <1>5, KeptType DEF WarningCountsDown, OffKeysOK, TickingOK
  <2>3. ObserversOK'
    BY <1>5, ThreatSeenType DEF WarningCountsDown, ObserversOK, wakeLog
  <2> QED
    BY <1>5, <2>1, <2>2, <2>3 DEF WarningCountsDown
<1> QED
  BY <1>1, <1>2, <1>3, <1>4, <1>5

\* clearWakeState, whole or cut short.
LEMMA ClearWakeType ==
    ASSUME TypeOK, NEW n \in 1..3, ClearWake(n)
    PROVE  WakeKeysOK' /\ packets' \in Nat /\ quota' \in Nat /\ gap' \in 0..WakeTimeout
<1>1. WakeKeysOK'
  BY DEF TypeOK, ClearWake, WakeKeysOK
<1>2. packets' \in Nat /\ gap' \in 0..WakeTimeout
  BY Sizes DEF TypeOK, ClearWake, ObserversOK
<1>3. quota' \in Nat
  BY WakeLimitType DEF TypeOK, ClearWake, ObserversOK, Disturbed
<1> QED
  BY <1>1, <1>2, <1>3

LEMMA DecideType ==
    ASSUME TypeOK, LeaveAlone \/ StandDown \/ CompleteWake
    PROVE  TypeOK'
<1> USE Untouched, Sizes DEF TypeOK, world
<1>1. CASE LeaveAlone
  <2>1. TickingOK'
    BY <1>1, ControlType DEF LeaveAlone, TickingOK, Steps
  <2>2. ObserversOK'
    BY <1>1 DEF LeaveAlone, ObserversOK, wakeLog
  <2> QED
    BY <1>1, <2>1, <2>2 DEF LeaveAlone
<1>2. CASE StandDown
  <2>1. TickingOK'
    BY <1>2, ControlType DEF StandDown, Effects, TickingOK, Steps
  <2>2. WakeKeysOK' /\ packets' \in Nat /\ quota' \in Nat /\ gap' \in 0..WakeTimeout
    BY <1>2, ClearWakeType DEF StandDown
  <2>3. ObserversOK'
    BY <1>2, <2>2 DEF StandDown, ObserversOK
  <2> QED
    BY <1>2, <2>1, <2>2, <2>3 DEF StandDown
<1>3. CASE CompleteWake
  <2>1. TickingOK'
    BY <1>3, ControlType DEF CompleteWake, Effects, TickingOK, Steps
  <2>2. WakeKeysOK' /\ packets' \in Nat /\ quota' \in Nat /\ gap' \in 0..WakeTimeout
    BY <1>3, ClearWakeType DEF CompleteWake
  <2>3. ObserversOK'
    BY <1>3, <2>2 DEF CompleteWake, ObserversOK
  <2> QED
    BY <1>3, <2>1, <2>2, <2>3 DEF CompleteWake
<1> QED
  BY <1>1, <1>2, <1>3

\* A packet, lost or not, or none at all in dry-run.
LEMMA SendType ==
    ASSUME TypeOK, Send
    PROVE  /\ power' \in {"off", "booting", "on", "halting"}
           /\ packets' \in Nat /\ gap' \in 0..WakeTimeout
  BY Sizes DEF TypeOK, Send, HostOK, ObserversOK

LEMMA WakeType ==
    ASSUME TypeOK, WakeGivenUp \/ FirstPacket \/ WaitForBoot \/ GiveUp \/ Resend
    PROVE  TypeOK'
<1> USE Untouched, Sizes DEF TypeOK, world
<1>1. CASE WakeGivenUp
  <2>1. TickingOK'
    BY <1>1, ControlType DEF WakeGivenUp, TickingOK
  <2>2. ObserversOK'
    BY <1>1 DEF WakeGivenUp, ObserversOK, wakeLog
  <2> QED
    BY <1>1, <2>1, <2>2 DEF WakeGivenUp
<1>2. CASE FirstPacket
  <2>1. TickingOK'
    BY <1>2, ControlType DEF FirstPacket, Effects, TickingOK
  <2>2. WakeKeysOK'
    BY <1>2, StoredType DEF FirstPacket, WakeKeysOK, TickingOK
  <2>3. HostOK'
    BY <1>2, SendType DEF FirstPacket, HostOK
  <2>4. ObserversOK'
    BY <1>2, SendType, WakeLimitType DEF FirstPacket, ObserversOK, Disturbed
  <2> QED
    BY <1>2, <2>1, <2>2, <2>3, <2>4 DEF FirstPacket
<1>3. CASE WaitForBoot
  <2>1. TickingOK'
    BY <1>3, ControlType DEF WaitForBoot, TickingOK
  <2>2. ObserversOK'
    BY <1>3 DEF WaitForBoot, ObserversOK, wakeLog
  <2> QED
    BY <1>3, <2>1, <2>2 DEF WaitForBoot
<1>4. CASE GiveUp
  <2>1. TickingOK'
    BY <1>4, ControlType DEF GiveUp, TickingOK
  <2>2. ObserversOK' /\ WakeKeysOK'
    BY <1>4 DEF GiveUp, ObserversOK, WakeKeysOK, wakeLog
  <2> QED
    BY <1>4, <2>1, <2>2 DEF GiveUp
<1>5. CASE Resend
  <2>1. TickingOK'
    BY <1>5, ControlType DEF Resend, Effects, TickingOK
  <2>2. WakeKeysOK'
    BY <1>5, StoredType DEF Resend, WakeKeysOK, AttemptsMade, TickingOK
  <2>3. HostOK'
    BY <1>5, SendType DEF Resend, HostOK
  <2>4. ObserversOK'
    BY <1>5, SendType, WakeLimitType DEF Resend, ObserversOK, Disturbed
  <2> QED
    BY <1>5, <2>1, <2>2, <2>3, <2>4 DEF Resend
<1> QED
  BY <1>1, <1>2, <1>3, <1>4, <1>5

LEMMA ForgetPostponementType ==
    ASSUME TypeOK, NEW n \in 0..2, ForgetPostponement(n), UNCHANGED warnSince
    PROVE  OffKeysOK' /\ TickingOK' /\ told' \in Nat \cup {None}
<1>1. OffKeysOK'
  <2>1. graceSince' \in KeyAges(Grace) \cup {None}
    BY KeptType, Sizes DEF TypeOK, ForgetPostponement, OffKeysOK, TickingOK
  <2>2. postponed' \in BOOLEAN
    BY DEF TypeOK, ForgetPostponement, OffKeysOK
  <2> QED
    BY <2>1, <2>2 DEF TypeOK, OffKeysOK
<1>2. Effects(n, 2, Continue("stop")) /\ TickingOK
  BY DEF TypeOK, ForgetPostponement
<1>3. TickingOK'
  BY <1>2, ControlType, Sizes DEF Effects, TickingOK, Steps
<1>4. told' \in Nat \cup {None}
  BY DEF TypeOK, ForgetPostponement, ObserversOK
<1> QED
  BY <1>1, <1>3, <1>4

LEMMA ShutdownType ==
    ASSUME TypeOK,
           HostGone \/ NoActiveTasks \/ ForceDespiteTasks \/ Postpone \/ StopGuest
           \/ AllStopped \/ RequestHalt \/ HaltAcknowledged \/ ReconcileGuests
    PROVE  TypeOK'
<1> USE Untouched, Sizes DEF TypeOK, world
<1>1. CASE HostGone
  <2>1. TickingOK'
    BY <1>1, ControlType DEF HostGone, TickingOK
  <2> QED
    BY <1>1, <2>1 DEF HostGone
<1>2. CASE NoActiveTasks \/ ForceDespiteTasks
  <2>1. OffKeysOK' /\ TickingOK' /\ told' \in Nat \cup {None}
    BY <1>2, ForgetPostponementType DEF NoActiveTasks, ForceDespiteTasks
  <2>2. ObserversOK'
    BY <1>2, <2>1 DEF NoActiveTasks, ForceDespiteTasks, ObserversOK, wakeLog
  <2> QED
    BY <1>2, <2>1, <2>2 DEF NoActiveTasks, ForceDespiteTasks
<1>3. CASE Postpone
  <2>1. TickingOK'
    BY <1>3, ControlType DEF Postpone, Effects, TickingOK
  <2>2. OffKeysOK'
    BY <1>3, KeptType DEF Postpone, OffKeysOK, RememberNotified, TickingOK
  <2>3. told' \in Nat \cup {None}
    BY <1>3 DEF Postpone, ObserversOK
  <2>4. ObserversOK'
    BY <1>3, <2>3 DEF Postpone, ObserversOK, wakeLog
  <2> QED
    BY <1>3, <2>1, <2>2, <2>4 DEF Postpone
<1>4. CASE StopGuest
  <2>1. HostOK' /\ TickingOK'
    BY <1>4 DEF StopGuest, HostOK, TickingOK, TickLocals
  <2> QED
    BY <1>4, <2>1 DEF StopGuest
<1>5. CASE AllStopped
  <2>1. TickingOK'
    BY <1>5, ControlType DEF AllStopped, TickingOK, Steps
  <2> QED
    BY <1>5, <2>1 DEF AllStopped
<1>6. CASE RequestHalt
  <2>1. HostOK' /\ TickingOK'
    BY <1>6, ControlType DEF RequestHalt, HostOK, TickingOK, Steps
  <2> QED
    BY <1>6, <2>1 DEF RequestHalt
<1>7. CASE HaltAcknowledged
  <2>1. TickingOK'
    BY <1>7, ControlType DEF HaltAcknowledged, TickingOK
  <2> QED
    BY <1>7, <2>1 DEF HaltAcknowledged
<1>8. CASE ReconcileGuests
  <2>1. HostOK'
    BY <1>8 DEF ReconcileGuests, HostOK
  <2>2. TickingOK'
    BY <1>8, ControlType DEF ReconcileGuests, TickingOK
  <2> QED
    BY <1>8, <2>1, <2>2 DEF ReconcileGuests
<1> QED
  BY <1>1, <1>2, <1>3, <1>4, <1>5, <1>6, <1>7, <1>8

LEMMA WorldType ==
    ASSUME TypeOK, Interrupt \/ Advance \/ HaltDone \/ BootDone \/ World
    PROVE  TypeOK'
<1> USE Untouched, Sizes DEF TypeOK, world, Unobserved
<1>1. CASE Interrupt
  <2>1. TickingOK'
    BY <1>1, ControlType DEF Interrupt, TickingOK
  <2> QED
    BY <1>1, <2>1 DEF Interrupt
<1>2. CASE Advance
  <2>1. WakeKeysOK' /\ OffKeysOK'
    BY <1>2, KeyOlderType DEF Advance, WakeKeysOK, OffKeysOK
  <2>2. ObserversOK'
    BY <1>2, OlderType, StormLimitType, NoAge DEF Advance, ObserversOK
  <2>3. TickingOK'
    BY <1>2 DEF Advance, TickingOK, TickLocals
  <2> QED
    BY <1>2, <2>1, <2>2, <2>3 DEF Advance
<1>3. CASE HaltDone \/ BootDone \/ PowerCut \/ PowerButton \/ BackupControl
  <2>1. HostOK'
    BY <1>3 DEF HaltDone, BootDone, PowerCut, PowerButton, BackupControl, PowerOff, HostOK, host
  <2> QED
    BY <1>3, <2>1 DEF HaltDone, BootDone, PowerCut, PowerButton, BackupControl, PowerOff
<1>4. CASE GuestControl
  <2>1. HostOK' /\ ObserversOK'
    BY <1>4 DEF GuestControl, HostOK, ObserversOK, wakeLog
  <2> QED
    BY <1>4, <2>1 DEF GuestControl
<1>5. CASE ScheduleChanges \/ OverrideChanges \/ IgnoreChanges \/ ClockSynchronised
  <2>1. WishesOK'
    BY <1>5, Actions
    DEF ScheduleChanges, OverrideChanges, IgnoreChanges, ClockSynchronised, WishesOK
  <2> QED
    BY <1>5, <2>1
    DEF ScheduleChanges, OverrideChanges, IgnoreChanges, ClockSynchronised
<1> QED
  BY <1>1, <1>2, <1>3, <1>4, <1>5 DEF World

\* Every reachable state is well typed: whatever happens, no key of the store
\* holds a value of the wrong kind and no tick goes astray.
THEOREM TypeCorrect == Spec => []TypeOK
<1>1. ASSUME TypeOK, [Next]_vars
      PROVE  TypeOK'
  <2>1. CASE UNCHANGED vars
    BY <1>1, <2>1, Untouched DEF TypeOK, vars, world
  <2>2. CASE Next
    BY <1>1, <2>2, SafetyType, DecideType, WakeType, ShutdownType, WorldType
    DEF Next, Instant, TickStep
  <2> QED
    BY <1>1, <2>1, <2>2
<1> QED
  BY <1>1, InitType, PTL DEF Spec

-----------------------------------------------------------------------------
(* The Wake-on-LAN budget.  The counter in the store is compared with what *)
(* was sent: as long as an attempt is pending the packets of the episode,  *)
(* with those still allowed, fit the quota; an interruption between the    *)
(* packet and the counter is what the quota grows for.                     *)

WakeCounted ==
    /\ AttemptsMade <= WakeLimit
    /\ lastSent = None => packets + WakeLimit <= quota
    /\ lastSent # None => packets + WakeLimit <= quota + AttemptsMade

GivenUpCounted ==
    ~DryRun => /\ AttemptsMade <= packets
               /\ failed => packets >= WakeRetries

\* The steps that touch the wake keys or what was sent.
LEMMA WakeFrame ==
    ASSUME [Next]_vars
    PROVE  \/ UNCHANGED <<wakeKeys, wakeLog>>
           \/ StandDown \/ CompleteWake \/ FirstPacket \/ GiveUp \/ Resend \/ Advance
<1>1. CASE BeginTick \/ AllClear \/ ThreatIgnored \/ DangerForcesOff \/ WarningCountsDown
  BY <1>1 DEF BeginTick, AllClear, ThreatIgnored, DangerForcesOff, WarningCountsDown, wakeLog
<1>2. CASE LeaveAlone \/ WakeGivenUp \/ WaitForBoot
  BY <1>2 DEF LeaveAlone, WakeGivenUp, WaitForBoot, wakeLog
<1>3. CASE HostGone \/ NoActiveTasks \/ ForceDespiteTasks \/ Postpone \/ StopGuest
           \/ AllStopped \/ RequestHalt \/ HaltAcknowledged \/ ReconcileGuests \/ Interrupt
  BY <1>3
  DEF HostGone, NoActiveTasks, ForceDespiteTasks, Postpone, StopGuest, AllStopped,
      RequestHalt, HaltAcknowledged, ReconcileGuests, Interrupt, wakeLog
<1>4. CASE HaltDone \/ BootDone \/ World
  BY <1>4
  DEF HaltDone, BootDone, World, PowerCut, PowerButton, PowerOff, GuestControl, BackupControl,
      ScheduleChanges, OverrideChanges, IgnoreChanges, ClockSynchronised,
      Unobserved, wakeLog
<1>5. CASE UNCHANGED vars
  BY <1>5 DEF vars, wakeLog
<1> QED
  BY <1>1, <1>2, <1>3, <1>4, <1>5 DEF Next, Instant, TickStep

LEMMA WakeLimitPositive == WakeLimit \in Nat /\ WakeLimit >= 1 /\ WakeRetries <= WakeLimit
  BY Sizes DEF WakeLimit

\* The count of attempts and its keys, typed for arithmetic.
LEMMA AttemptsType == ASSUME TypeOK PROVE AttemptsMade \in Nat /\ packets \in Nat /\ quota \in Nat
  BY DEF TypeOK, WakeKeysOK, ObserversOK, AttemptsMade

LEMMA WakeCountedStep ==
    ASSUME TypeOK, WakeCounted, [Next]_vars
    PROVE  WakeCounted'
<1> USE AttemptsType, WakeLimitPositive, NoAge
<1>1. CASE UNCHANGED <<wakeKeys, wakeLog>>
  BY <1>1 DEF WakeCounted, AttemptsMade, wakeKeys, wakeLog
<1>2. CASE StandDown \/ CompleteWake
  <2>1. PICK n \in 1..3 : ClearWake(n)
    BY <1>2 DEF StandDown, CompleteWake
  <2>3. CASE n = 1
    BY <2>1, <2>3 DEF WakeCounted, AttemptsMade, ClearWake, Disturbed
  <2>4. CASE n = 2
    BY <2>1, <2>4 DEF WakeCounted, AttemptsMade, ClearWake, Disturbed
  <2>5. CASE n = 3
    BY <2>1, <2>5 DEF WakeCounted, AttemptsMade, ClearWake, Disturbed
  <2> QED
    BY <2>3, <2>4, <2>5
<1>3. CASE FirstPacket
  <2>1. lastSent = None /\ packets' \in {packets, packets + 1}
    BY <1>3 DEF FirstPacket, Send
  <2>2. PICK n \in 0..2 :
           /\ attempts' = IF n >= 1 THEN 1 ELSE attempts
           /\ lastSent' \in IF n >= 2 THEN Stored ELSE {lastSent}
           /\ quota' = Disturbed(n, 2)
    BY <1>3 DEF FirstPacket
  <2>3. n = 2 => lastSent' # None
    BY <2>2, StoredType DEF TypeOK, TickingOK
  <2>4. packets + WakeLimit <= quota
    BY <2>1 DEF WakeCounted
  <2>5. CASE n = 2
    BY <2>1, <2>2, <2>3, <2>4, <2>5 DEF WakeCounted, AttemptsMade, Disturbed
  <2>6. CASE n = 1
    BY <2>1, <2>2, <2>4, <2>6 DEF WakeCounted, AttemptsMade, Disturbed
  <2>7. CASE n = 0
    BY <2>1, <2>2, <2>4, <2>7 DEF WakeCounted, AttemptsMade, Disturbed
  <2> QED
    BY <2>5, <2>6, <2>7
<1>4. CASE Resend
  <2>1. lastSent # None /\ AttemptsMade < WakeRetries /\ packets' \in {packets, packets + 1}
    BY <1>4, Sizes DEF Resend, Send, Exhausted
  <2>2. PICK n \in 0..2 :
           /\ attempts' = IF n >= 1 THEN AttemptsMade + 1 ELSE attempts
           /\ lastSent' \in IF n >= 2 THEN Stored ELSE {lastSent}
           /\ quota' = Disturbed(n, 2)
    BY <1>4 DEF Resend
  <2>3. AttemptsMade' = IF n >= 1 THEN AttemptsMade + 1 ELSE AttemptsMade
    BY <2>2 DEF AttemptsMade
  <2>4. lastSent' # None
    BY <2>1, <2>2, StoredType DEF TypeOK, TickingOK
  <2> QED
    BY <2>1, <2>2, <2>3, <2>4, Sizes DEF WakeCounted, Disturbed
<1>5. CASE GiveUp
  BY <1>5 DEF GiveUp, WakeCounted, AttemptsMade, wakeLog
<1>6. CASE Advance
  <2>1. lastSent' = None <=> lastSent = None
    BY <1>6, KeyOlderType, Sizes DEF Advance, TypeOK, WakeKeysOK
  <2> QED
    BY <1>6, <2>1 DEF Advance, WakeCounted, AttemptsMade
<1> QED
  BY <1>1, <1>2, <1>3, <1>4, <1>5, <1>6, WakeFrame

\* No wake episode sends more packets than its quota (pursueWake's counter is
\* never behind by more than the interrupted ticks account for).
THEOREM WakeBudgetKept == Spec => []WakeBudget
<1>1. Init => WakeCounted
  BY WakeLimitPositive DEF Init, WakeCounted, AttemptsMade
<1>2. TypeOK /\ WakeCounted => WakeBudget
  BY AttemptsType, WakeLimitPositive DEF WakeCounted, WakeBudget
<1> QED
  BY <1>1, <1>2, WakeCountedStep, TypeCorrect, PTL DEF Spec

LEMMA GivenUpCountedStep ==
    ASSUME TypeOK, GivenUpCounted, [Next]_vars
    PROVE  GivenUpCounted'
<1> SUFFICES ASSUME ~DryRun
             PROVE  /\ AttemptsMade' <= packets'
                    /\ failed' => packets' >= WakeRetries
  BY DEF GivenUpCounted
<1> USE AttemptsType, Sizes DEF GivenUpCounted
<1>1. CASE UNCHANGED <<wakeKeys, wakeLog>>
  BY <1>1 DEF AttemptsMade, wakeKeys, wakeLog
<1>2. CASE StandDown \/ CompleteWake
  <2>1. PICK n \in 1..3 : ClearWake(n)
    BY <1>2 DEF StandDown, CompleteWake
  <2>2. CASE n = 3
    BY <2>1, <2>2 DEF AttemptsMade, ClearWake
  <2>3. CASE n # 3
    <3>1. packets' = packets /\ (failed' => failed)
      <4>1. n < 3
        BY <2>3
      <4> QED
        BY <2>1, <4>1 DEF ClearWake
    <3>2. attempts' = None \/ attempts' = attempts
      BY <2>1 DEF ClearWake
    <3>3. AttemptsMade' = 0 \/ AttemptsMade' = AttemptsMade
      BY <3>2 DEF AttemptsMade
    <3> QED
      BY <3>1, <3>3
  <2> QED
    BY <2>2, <2>3
<1>3. CASE FirstPacket
  <2>1. packets' = packets + 1 /\ failed' = failed
    BY <1>3 DEF FirstPacket, Send
  <2>2. AttemptsMade' \in {1, AttemptsMade}
    BY <1>3, NoAge DEF FirstPacket, AttemptsMade
  <2> QED
    BY <2>1, <2>2
<1>4. CASE Resend
  <2>1. packets' = packets + 1 /\ failed' = failed
    BY <1>4 DEF Resend, Send
  <2>2. AttemptsMade' \in {AttemptsMade + 1, AttemptsMade}
    BY <1>4, NoAge DEF Resend, AttemptsMade
  <2> QED
    BY <2>1, <2>2
<1>5. CASE GiveUp
  BY <1>5 DEF GiveUp, Exhausted, AttemptsMade, wakeLog
<1>6. CASE Advance
  BY <1>6 DEF Advance, AttemptsMade
<1> QED
  BY <1>1, <1>2, <1>3, <1>4, <1>5, <1>6, WakeFrame

\* The host is reported as impossible to wake (host_wake_failed) only after all
\* packets of wol.retries were sent, whatever was interrupted in between.
THEOREM GivenUpOnlyAfterRetries == Spec => []GivenUpJustified
<1>1. Init => GivenUpCounted
  BY DEF Init, GivenUpCounted, AttemptsMade
<1>2. GivenUpCounted => GivenUpJustified
  BY DEF GivenUpCounted, GivenUpJustified
<1> QED
  BY <1>1, <1>2, GivenUpCountedStep, TypeCorrect, PTL DEF Spec

-----------------------------------------------------------------------------
(* The three keys of pursueWake implement a wake episode (WakeEpisode).    *)

\* Every step of the host half is a step of the episode or leaves it alone.
LEMMA EpisodeStep ==
    ASSUME TypeOK, GivenUpCounted, WakeBudget', [Next]_vars
    PROVE  [Episode!Next]_<<packets, failed, quota>>
<1> DEFINE Allowed == quota' \in {quota, quota + WakeLimit}
           Sent == ~failed /\ failed' = failed /\ packets' = packets + 1 /\ Allowed
           Spared == failed' = failed /\ packets' = packets /\ Allowed
<1>1. packets' <= quota'
  BY DEF WakeBudget
<1>2. Sent => Episode!Send
  BY <1>1 DEF Episode!Send, Episode!Allowed
<1>3. Spared => Episode!Disturbed \/ UNCHANGED <<packets, failed, quota>>
  BY DEF Episode!Disturbed
<1>4. CASE UNCHANGED <<wakeKeys, wakeLog>>
  BY <1>4 DEF wakeKeys, wakeLog
<1>5. CASE StandDown \/ CompleteWake
  <2>1. PICK n \in 1..3 : ClearWake(n)
    BY <1>5 DEF StandDown, CompleteWake
  <2>2. CASE n = 3
    BY <2>1, <2>2 DEF ClearWake, Episode!Over, Episode!Next
  <2>3. CASE n < 3
    <3>1. ~(n >= 3) /\ n # 3
      BY <2>3
    <3>2. failed' = failed
      BY <2>1, <3>1, Zenon DEF ClearWake
    <3>3. packets' = packets
      BY <2>1, <3>1, Zenon DEF ClearWake
    <3>4. Allowed
      BY <2>1, <3>1, Zenon DEF ClearWake, Disturbed
    <3> QED
      BY <3>2, <3>3, <3>4, <1>3 DEF Episode!Next
  <2> QED
    BY <2>2, <2>3
<1>6. CASE FirstPacket \/ Resend
  <2>1. ~failed /\ failed' = failed /\ Allowed
    BY <1>6 DEF FirstPacket, Resend, MustWake, Disturbed
  <2>2. packets' \in {packets, packets + 1}
    BY <1>6 DEF FirstPacket, Resend, Send
  <2> QED
    BY <2>1, <2>2, <1>2, <1>3 DEF Episode!Next
<1>7. CASE GiveUp
  <2>1. packets >= IF DryRun THEN 0 ELSE WakeRetries
    BY <1>7, AttemptsType, Sizes DEF GiveUp, Exhausted, GivenUpCounted
  <2>2. Episode!GiveUp
    BY <1>7, <2>1 DEF GiveUp, MustWake, Episode!GiveUp, wakeLog
  <2> QED
    BY <2>2 DEF Episode!Next
<1>8. CASE Advance
  BY <1>8 DEF Advance
<1> QED
  BY <1>4, <1>5, <1>6, <1>7, <1>8, WakeFrame

\* Whatever interrupts its ticks, the engine keeps what a wake episode
\* promises: bounded packets, no early surrender, and silence after it.
THEOREM EpisodeImplemented == Spec => WakesByEpisode
<1>1. Init => Episode!Init
  BY DEF Init, Episode!Init
<1>2. Init => GivenUpCounted
  BY DEF Init, GivenUpCounted, AttemptsMade
<1>3. TypeOK /\ GivenUpCounted /\ WakeBudget' /\ [Next]_vars
        => [Episode!Next]_(Episode!episode)
  BY EpisodeStep DEF Episode!episode
<1> QED
  BY <1>1, <1>2, <1>3, GivenUpCountedStep, WakeBudgetKept, TypeCorrect, PTL
  DEF Spec, WakesByEpisode, Episode!Spec

-----------------------------------------------------------------------------
(* Every packet has its wake_timeout: while no interruption has raised the *)
(* quota, the stored instant is that of the last packet's tick, which read *)
(* the clock at most Patience before the packet.                           *)

Spaced ==
    /\ quota >= WakeLimit
    /\ quota = WakeLimit =>
          /\ lastSent = None => packets = 0
          /\ lastSent # None /\ ~DryRun => lastSent <= gap + Patience + Rounding

LEMMA SpacedInit == Init => Spaced
  BY WakeLimitPositive DEF Init, Spaced

\* The instants of a typed state, for arithmetic.
LEMMA SpacedTypes ==
    ASSUME TypeOK
    PROVE  /\ lastSent \in KeyAges(WakeTimeout) \cup {None} /\ gap \in 0..WakeTimeout
           /\ quota \in Nat /\ packets \in Nat
           /\ tick \in TickLocals
  BY Sizes DEF TypeOK, WakeKeysOK, ObserversOK, TickingOK

\* The stored instant and the packet grow old together.
LEMMA SpacedAges ==
    ASSUME NEW a \in KeyAges(WakeTimeout), NEW b \in 0..WakeTimeout,
           a <= b + Patience + Rounding
    PROVE  KeyOlder(a, WakeTimeout) <= Older(b, WakeTimeout) + Patience + Rounding
<1>1. a # None /\ b # None
  BY Sizes, NoAge DEF KeyAges
<1>2. a \in Nat /\ b \in Nat
  BY Sizes DEF KeyAges
<1> QED
  BY <1>1, <1>2, Sizes DEF KeyOlder, Older, KeyAges

LEMMA SpacedStep ==
    ASSUME TypeOK, Spaced, [Next]_vars
    PROVE  Spaced'
<1> USE SpacedTypes, WakeLimitPositive
<1>1. CASE UNCHANGED <<wakeKeys, wakeLog>>
  BY <1>1 DEF Spaced, wakeKeys, wakeLog
<1>2. CASE StandDown \/ CompleteWake
  <2>1. PICK n \in 1..3 : ClearWake(n)
    BY <1>2 DEF StandDown, CompleteWake
  <2>2. CASE n = 3
    BY <2>1, <2>2 DEF Spaced, ClearWake
  <2>3. CASE n \in 1..2
    <3>1. quota' = quota + WakeLimit
      BY <2>1, <2>3 DEF ClearWake, Disturbed
    <3> QED
      BY <3>1 DEF Spaced
  <2> QED
    BY <2>2, <2>3
<1>3. CASE FirstPacket \/ Resend
  <2>1. PICK n \in 0..2 : /\ lastSent' \in IF n >= 2 THEN Stored ELSE {lastSent}
                          /\ quota' = Disturbed(n, 2)
    BY <1>3 DEF FirstPacket, Resend
  <2>2. CASE n \in 0..1
    <3>1. quota' = quota + WakeLimit
      BY <2>1, <2>2 DEF Disturbed
    <3> QED
      BY <3>1 DEF Spaced
  <2>3. CASE n = 2
    <3>1. lastSent' \in Stored
      BY <2>1, <2>3
    <3>2. quota' = quota /\ (~DryRun => gap' = 0)
      BY <1>3, <2>1, <2>3 DEF Disturbed, FirstPacket, Resend, Send
    <3>3. lastSent' \in Nat /\ lastSent' <= tick.age + Rounding
      BY <3>1, StoredType, Sizes
    <3>4. tick.age \in Nat /\ tick.age <= Patience
      BY Sizes DEF TickLocals
    <3>5. lastSent' <= 0 + Patience + Rounding
      BY <3>3, <3>4, Sizes
    <3>6. lastSent' # None
      BY <3>3, NoAge
    <3> QED
      BY <3>2, <3>5, <3>6 DEF Spaced
  <2> QED
    BY <2>2, <2>3
<1>4. CASE GiveUp
  BY <1>4 DEF GiveUp, Spaced, wakeLog
<1>5. CASE Advance
  <2>1. /\ lastSent' = KeyOlder(lastSent, WakeTimeout) /\ gap' = Older(gap, WakeTimeout)
        /\ UNCHANGED <<packets, quota>>
    BY <1>5 DEF Advance
  <2>2. lastSent' = None <=> lastSent = None
    BY <2>1, KeyOlderType, Sizes
  <2>3. ASSUME lastSent # None, lastSent <= gap + Patience + Rounding
        PROVE  lastSent' <= gap' + Patience + Rounding
    BY <2>1, <2>3, SpacedAges
  <2> QED
    BY <2>1, <2>2, <2>3 DEF Spaced
<1> QED
  BY <1>1, <1>2, <1>3, <1>4, <1>5, WakeFrame

\* When the stored instant has timed out, the packet has had its time.
LEMMA TimedOutJustified ==
    ASSUME TypeOK, Spaced, TimedOut, lastSent # None, ~DryRun, quota = WakeLimit
    PROVE  HadItsTimeout
<1> USE SpacedTypes
<1>1. lastSent \in Nat /\ tick.age \in Nat /\ gap \in Nat
  BY Sizes DEF KeyAges, TickLocals
<1>2. lastSent <= gap + Patience + Rounding
  BY DEF Spaced
<1> QED
  BY <1>1, <1>2, Sizes DEF TimedOut, HadItsTimeout

\* In an undisturbed episode a packet follows another only when that one has had
\* wol.wake_timeout, however long the ticks take between reading the clock and
\* sending: less Patience, the time its own tick took, and the lost second.
THEOREM PacketsSpaced == Spec => ResendSpacing
<1>1. ASSUME TypeOK, Spaced, [Next]_vars, packets' = packets + 1, packets > 0, quota = WakeLimit
      PROVE  HadItsTimeout
  <2> USE SpacedTypes, WakeLimitPositive
  <2>1. lastSent # None
    BY <1>1 DEF Spaced
  <2>2. Resend /\ ~DryRun
    <3>1. CASE UNCHANGED <<wakeKeys, wakeLog>>
      BY <1>1, <3>1 DEF wakeLog
    <3>2. CASE StandDown \/ CompleteWake
      <4>1. packets' \in {packets, 0}
        BY <3>2 DEF StandDown, CompleteWake, ClearWake
      <4>2. packets \in Nat
        BY <1>1
      <4> QED
        BY <1>1, <4>1, <4>2
    <3>3. CASE GiveUp \/ Advance
      BY <1>1, <3>3 DEF GiveUp, Advance, wakeLog
    <3>4. CASE FirstPacket
      BY <2>1, <3>4 DEF FirstPacket
    <3>5. CASE Resend
      BY <1>1, <3>5 DEF Resend, Send
    <3> QED
      BY <1>1, <3>1, <3>2, <3>3, <3>4, <3>5, WakeFrame
  <2> QED
    BY <1>1, <2>1, <2>2, TimedOutJustified DEF Resend
<1>2. TypeOK /\ Spaced /\ [Next]_vars
        => [packets' = packets + 1 /\ packets > 0 /\ quota = WakeLimit => HadItsTimeout]_vars
  BY <1>1
<1> QED
  BY <1>2, SpacedInit, SpacedStep, TypeCorrect, PTL DEF Spec, ResendSpacing

\* pursueWake reports a host that does not wake only when, in an undisturbed
\* episode, the last packet has had wol.wake_timeout in the same sense.
THEOREM GivenUpInTime == Spec => LastPacketWaited
<1>1. ASSUME TypeOK, Spaced, [Next]_vars, failed', ~failed, ~DryRun, quota = WakeLimit
      PROVE  HadItsTimeout
  <2>1. GiveUp
    <3>1. CASE UNCHANGED <<wakeKeys, wakeLog>>
      BY <1>1, <3>1 DEF wakeKeys
    <3>2. CASE StandDown \/ CompleteWake
      BY <1>1, <3>2 DEF StandDown, CompleteWake, ClearWake
    <3>3. CASE FirstPacket \/ Resend \/ Advance
      BY <1>1, <3>3 DEF FirstPacket, Resend, Advance
    <3> QED
      BY <3>1, <3>2, <3>3, <1>1, WakeFrame
  <2> QED
    BY <1>1, <2>1, TimedOutJustified DEF GiveUp
<1>2. TypeOK /\ Spaced /\ [Next]_vars
        => [failed' /\ ~failed /\ ~DryRun /\ quota = WakeLimit => HadItsTimeout]_vars
  BY <1>1
<1> QED
  BY <1>2, SpacedInit, SpacedStep, TypeCorrect, PTL DEF Spec, LastPacketWaited

-----------------------------------------------------------------------------
(* The countdown of a Warning and the grace period of Danger.  The ages    *)
(* kept in the store exceed the time since the first check that saw the    *)
(* storm by no more than the fraction of a second that storing loses, and  *)
(* a tick's `now` is not older than that check.                            *)

\* A storm of age `storm` has lasted for `a`, as far as its age is counted.
Lasted(a, storm) == storm # None /\ (a <= storm \/ storm = StormLimit)

StormTimed ==
    /\ warnSince # None => Lasted(warnSince - Rounding, stormAge)
    /\ graceSince # None => Lasted(graceSince - Rounding, stormAge)
    /\ Dated /\ stormAge # None => Lasted(tick.age, stormAge)
    /\ pc = "safety" => ~tick.forceOff /\ ~tick.bypass
    /\ tick.bypass => level = Danger /\ stormAge # None
    /\ CountdownRespected

\* The steps that touch what StormTimed speaks of.
LEMMA StormFrame ==
    ASSUME [Next]_vars
    PROVE  \/ UNCHANGED <<warnSince, graceSince, stormAge, level, pc, tick>>
           \/ /\ UNCHANGED <<warnSince, graceSince, stormAge, level>>
              /\ Return \/ \E step \in {"tasks", "halt", "await", "guests"} : Continue(step)
              /\ pc = "decide" \/ pc' # "tasks"
           \/ BeginTick \/ AllClear \/ ThreatIgnored \/ DangerForcesOff \/ WarningCountsDown
           \/ NoActiveTasks \/ ForceDespiteTasks \/ Postpone \/ StopGuest \/ Advance
<1>1. CASE LeaveAlone
  BY <1>1 DEF LeaveAlone, offKeys, world, wishes
<1>2. CASE StandDown \/ CompleteWake \/ FirstPacket \/ Resend
  BY <1>2
  DEF StandDown, CompleteWake, FirstPacket, Resend, Effects, offKeys, world, wishes, MustWake
<1>3. CASE WakeGivenUp \/ WaitForBoot \/ GiveUp \/ HostGone \/ AllStopped \/ RequestHalt
           \/ HaltAcknowledged \/ ReconcileGuests \/ Interrupt
  <2>1. UNCHANGED <<warnSince, graceSince, stormAge, level>>
    BY <1>3
    DEF WakeGivenUp, WaitForBoot, GiveUp, HostGone, AllStopped, RequestHalt, HaltAcknowledged,
        ReconcileGuests, Interrupt, offKeys, world, wishes
  <2>2. Return \/ Continue("halt") \/ Continue("await")
    BY <1>3
    DEF WakeGivenUp, WaitForBoot, GiveUp, HostGone, AllStopped, RequestHalt, HaltAcknowledged,
        ReconcileGuests, Interrupt
  <2>3. pc' # "tasks"
    BY <2>2 DEF Return, Continue
  <2> QED
    BY <2>1, <2>2, <2>3
<1>4. CASE HaltDone \/ BootDone \/ World
  BY <1>4
  DEF HaltDone, BootDone, World, PowerCut, PowerButton, PowerOff, GuestControl, BackupControl,
      ScheduleChanges, OverrideChanges, IgnoreChanges, ClockSynchronised,
      Unobserved, offKeys, ticking, wishes
<1>5. CASE UNCHANGED vars
  BY <1>5 DEF vars, offKeys, ticking, world, wishes
<1> QED
  BY <1>1, <1>2, <1>3, <1>4, <1>5 DEF Next, Instant, TickStep

\* The stored ages of a typed state, for arithmetic.
LEMMA StormTypes ==
    ASSUME TypeOK
    PROVE  /\ stormAge \in (0..StormLimit) \cup {None}
           /\ warnSince \in KeyAges(Countdown) \cup {None}
           /\ graceSince \in KeyAges(Grace) \cup {None}
           /\ tick \in TickLocals /\ tick.age \in Nat
  BY Sizes DEF TypeOK, ObserversOK, OffKeysOK, TickingOK, TickLocals

\* A key is as old as the tick that writes it, but for the lost second.
LEMMA StormStored ==
    ASSUME TypeOK, NEW b \in Stored
    PROVE  b \in Nat /\ b - Rounding <= tick.age
  BY StoredType, StormTypes, Sizes

\* Time passes for the storm as it does for the keys and for the tick.
LEMMA StormOlder ==
    ASSUME NEW storm \in (0..StormLimit) \cup {None}, NEW a \in Int, NEW b \in Int,
           b <= a + 1, Lasted(a, storm)
    PROVE  Lasted(b, Older(storm, StormLimit))
<1>1. storm \in Nat /\ storm <= StormLimit /\ storm # None
  BY StormLimitType DEF Lasted
<1>2. Older(storm, StormLimit) = IF storm < StormLimit THEN storm + 1 ELSE StormLimit
  BY <1>1 DEF Older
<1>3. Older(storm, StormLimit) \in Nat
  BY <1>1, <1>2, StormLimitType
<1>4. Older(storm, StormLimit) # None
  BY <1>3, NoAge
<1>5. b <= Older(storm, StormLimit) \/ Older(storm, StormLimit) = StormLimit
  BY <1>1, <1>2, StormLimitType DEF Lasted
<1> QED
  BY <1>4, <1>5 DEF Lasted

\* A key that grows older with the storm keeps its measure.
LEMMA StormKeyOlder ==
    ASSUME NEW storm \in (0..StormLimit) \cup {None}, NEW time \in Nat,
           NEW a \in KeyAges(time), Lasted(a - Rounding, storm)
    PROVE  Lasted(KeyOlder(a, time) - Rounding, Older(storm, StormLimit))
<1>1. a \in Nat /\ a # None
  BY Sizes, NoAge DEF KeyAges
<1>2. KeyOlder(a, time) \in Nat /\ KeyOlder(a, time) <= a + 1
  BY <1>1, Sizes DEF KeyOlder, Older, KeyAges
<1>3. a - Rounding \in Int /\ KeyOlder(a, time) - Rounding \in Int
  BY <1>1, <1>2, Sizes
<1>4. KeyOlder(a, time) - Rounding <= (a - Rounding) + 1
  BY <1>1, <1>2, Sizes
<1> QED
  BY <1>3, <1>4, StormOlder

\* What a check that sees the storm knows of its age.
LEMMA StormSeen ==
    ASSUME TypeOK, StormTimed, ThreatSeen
    PROVE  /\ stormAge' # None
           /\ \A a \in Int : Lasted(a, stormAge) \/ a <= tick.age => Lasted(a, stormAge')
<1> USE StormTypes, StormLimitType, NoAge
<1>1. CASE stormAge = None
  <2>1. stormAge' = IF tick.age < StormLimit THEN tick.age ELSE StormLimit
    BY <1>1 DEF ThreatSeen
  <2>2. stormAge' \in Nat /\ (tick.age <= stormAge' \/ stormAge' = StormLimit)
    BY <2>1
  <2>3. stormAge' # None
    BY <2>2
  <2>4. ASSUME NEW a \in Int PROVE ~Lasted(a, stormAge)
    BY <1>1 DEF Lasted
  <2>5. ASSUME NEW a \in Int, a <= tick.age PROVE Lasted(a, stormAge')
    BY <2>2, <2>3, <2>5 DEF Lasted
  <2> QED
    BY <2>3, <2>4, <2>5
<1>2. CASE stormAge # None
  <2>1. stormAge' = stormAge /\ stormAge \in Nat
    BY <1>2 DEF ThreatSeen
  <2>2. Lasted(tick.age, stormAge)
    BY <1>2 DEF ThreatSeen, StormTimed, Dated
  <2>3. ASSUME NEW a \in Int, a <= tick.age PROVE Lasted(a, stormAge)
    BY <2>1, <2>2, <2>3 DEF Lasted
  <2> QED
    BY <1>2, <2>1, <2>3
<1> QED
  BY <1>1, <1>2

\* A key written or kept by such a check measures the storm.
LEMMA StormKept ==
    ASSUME TypeOK, StormTimed, ThreatSeen, NEW time \in Nat,
           NEW a \in KeyAges(time) \cup {None}, NEW b \in Kept(a),
           a # None => Lasted(a - Rounding, stormAge)
    PROVE  Lasted(b - Rounding, stormAge')
<1>1. CASE a = None
  <2>1. b \in Stored
    BY <1>1 DEF Kept
  <2>2. b \in Nat /\ b - Rounding <= tick.age
    BY <2>1, StormStored
  <2> QED
    BY <2>2, StormSeen, Sizes
<1>2. CASE a # None
  <2>1. b = a /\ a \in Nat
    BY <1>2, Sizes DEF Kept, KeyAges
  <2> QED
    BY <1>2, <2>1, StormSeen, Sizes
<1> QED
  BY <1>1, <1>2

\* A duration that a tick has measured by its key has passed in the storm.
LEMMA StormMeasured ==
    ASSUME NEW storm \in (0..StormLimit) \cup {None}, NEW time \in Nat, time <= StormLimit,
           NEW age \in Nat, NEW a \in Nat, a - age >= time, Lasted(a - Rounding, storm)
    PROVE  storm # None /\ storm + Rounding >= time
<1>1. storm \in Nat /\ storm # None
  BY StormLimitType DEF Lasted
<1>2. a - Rounding <= storm \/ storm = StormLimit
  BY DEF Lasted
<1> QED
  BY <1>1, <1>2, StormLimitType, Sizes

\* What has lasted long enough, to the second, has when it is older.
LEMMA LongEnough ==
    /\ \A a \in Nat : 0 >= Countdown => a + Rounding >= Countdown
    /\ \A a, b \in Nat : a + Rounding >= Countdown /\ b >= a => b + Rounding >= Countdown
  BY Sizes

LEMMA StormTimedStep ==
    ASSUME TypeOK, StormTimed, [Next]_vars
    PROVE  StormTimed'
<1> USE StormTypes, NoAge, Sizes
<1>1. CASE UNCHANGED <<warnSince, graceSince, stormAge, level, pc, tick>>
  BY <1>1 DEF StormTimed, CountdownRespected, Dated
<1>2. CASE /\ UNCHANGED <<warnSince, graceSince, stormAge, level>>
           /\ Return \/ \E step \in {"tasks", "halt", "await", "guests"} : Continue(step)
           /\ pc = "decide" \/ pc' # "tasks"
  <2>1. Return \/ (pc' \in {"tasks", "halt", "await", "guests"} /\ tick' = tick)
    BY <1>2 DEF Continue
  <2>2. CASE Return
    BY <1>2, <2>2 DEF StormTimed, CountdownRespected, Return, NoTick, Dated
  <2>3. CASE pc' \in {"tasks", "halt", "await", "guests"} /\ tick' = tick
    <3>1. pc' = "tasks" => Dated
      BY <1>2, <2>3 DEF Dated, TypeOK, TickingOK, Steps
    <3> QED
      BY <1>2, <2>3, <3>1 DEF StormTimed, CountdownRespected, Dated
  <2> QED
    BY <2>1, <2>2, <2>3
<1>3. CASE BeginTick
  <2>1. pc' = "safety" /\ ~tick'.forceOff /\ ~tick'.bypass /\ tick'.age = 0
    BY <1>3 DEF BeginTick, NoTick
  <2>2. UNCHANGED <<warnSince, graceSince, stormAge>>
    BY <1>3 DEF BeginTick, offKeys
  <2>3. stormAge # None => Lasted(0, stormAge)
    BY StormLimitType DEF Lasted
  <2> QED
    BY <2>1, <2>2, <2>3 DEF StormTimed, CountdownRespected
<1>4. CASE AllClear
  <2>1. PICK n \in 1..2 :
           /\ ForgetThreat(n)
           /\ stormAge' = IF n = 2 THEN None ELSE stormAge
           /\ Effects(n, 2, Continue("decide"))
    BY <1>4 DEF AllClear
  <2>2. ~tick'.forceOff /\ ~tick'.bypass /\ pc' # "safety"
    BY <1>4, <2>1 DEF AllClear, Effects, Return, Continue, NoTick, StormTimed
  <2>3. n = 2 => stormAge' = None /\ warnSince' = None /\ graceSince' = None
    BY <2>1 DEF ForgetThreat
  <2>4. n = 1 => pc' = "idle" /\ UNCHANGED <<graceSince, stormAge>> /\ warnSince' = None
    BY <2>1 DEF ForgetThreat, Effects, Return
  <2>5. n = 1 \/ n = 2
    BY <2>1
  <2> QED
    BY <2>2, <2>3, <2>4, <2>5 DEF StormTimed, CountdownRespected, Dated
<1>5. CASE ThreatIgnored \/ DangerForcesOff \/ WarningCountsDown
  <2>1. ThreatSeen /\ UNCHANGED <<graceSince, level>>
    BY <1>5 DEF ThreatIgnored, DangerForcesOff, WarningCountsDown, offKeys, world, wishes
  <2>2. stormAge' # None /\ Lasted(tick.age, stormAge')
    BY <2>1, StormSeen
  <2>3. graceSince' # None => Lasted(graceSince' - Rounding, stormAge')
    <3>1. graceSince # None => graceSince - Rounding \in Int
      BY DEF KeyAges
    <3> QED
      BY <2>1, <3>1, StormSeen DEF StormTimed
  <2>4. warnSince' # None => Lasted(warnSince' - Rounding, stormAge')
    <3>1. CASE WarningCountsDown
      BY <2>1, <3>1, StormKept DEF WarningCountsDown, StormTimed
    <3>2. CASE ThreatIgnored \/ DangerForcesOff
      <4>1. warnSince' = warnSince
        BY <3>2 DEF ThreatIgnored, DangerForcesOff, offKeys
      <4>2. warnSince # None => warnSince - Rounding \in Int
        BY DEF KeyAges
      <4> QED
        BY <2>1, <4>1, <4>2, StormSeen DEF StormTimed
    <3> QED
      BY <1>5, <3>1, <3>2
  <2>5. pc' = "decide" /\ tick'.age = tick.age
    BY <1>5 DEF ThreatIgnored, DangerForcesOff, WarningCountsDown, Continue, TickLocals
  <2>6. tick'.bypass => level' = Danger
    BY <1>5, <2>1
    DEF ThreatIgnored, DangerForcesOff, WarningCountsDown, Continue, TickLocals, StormTimed,
        ThreatSeen
  <2>7. tick'.forceOff /\ level' = Warning => stormAge' + Rounding >= Countdown
    <3>1. SUFFICES ASSUME tick'.forceOff, level' = Warning
                   PROVE  stormAge' + Rounding >= Countdown
      OBVIOUS
    <3>2. WarningCountsDown
      BY <1>5, <2>1, <3>1
      DEF ThreatIgnored, DangerForcesOff, Continue, StormTimed, ThreatSeen, Warning, Danger
    <3>3. Since(warnSince) >= Countdown
      BY <3>1, <3>2 DEF WarningCountsDown, StormTimed, ThreatSeen
    <3>4. stormAge' \in (0..StormLimit) \cup {None}
      BY <2>1, ThreatSeenType
    <3>5. CASE warnSince = None
      <4>1. stormAge' \in Nat
        BY <2>2, <3>4, StormLimitType
      <4>2. 0 >= Countdown
        BY <3>3, <3>5 DEF Since
      <4> QED
        BY <4>1, <4>2, LongEnough
    <3>6. CASE warnSince # None
      <4>1. warnSince \in Nat /\ warnSince' = warnSince
        BY <3>2, <3>6 DEF WarningCountsDown, Kept, KeyAges
      <4>2. warnSince - tick.age >= Countdown
        BY <3>3, <3>6 DEF Since
      <4>3. Lasted(warnSince - Rounding, stormAge')
        BY <2>4, <3>6, <4>1
      <4>4. stormAge' \in Nat /\ tick.age \in Nat
        BY <2>2, <3>4, StormLimitType
      <4> QED
        BY <3>4, <4>1, <4>2, <4>3, StormMeasured, StormLimitType
    <3> QED
      BY <3>5, <3>6
  <2> QED
    BY <2>2, <2>3, <2>4, <2>5, <2>6, <2>7 DEF StormTimed, CountdownRespected
<1>6. CASE NoActiveTasks \/ ForceDespiteTasks \/ Postpone
  <2>1. UNCHANGED <<warnSince, stormAge, level>> /\ (Return \/ Continue("stop"))
    BY <1>6
    DEF NoActiveTasks, ForceDespiteTasks, Postpone, ForgetPostponement, Effects, world, wishes
  <2>2. graceSince' \in {None, graceSince} \/ (tick.bypass /\ graceSince' \in Kept(graceSince))
    BY <1>6
    DEF NoActiveTasks, ForceDespiteTasks, Postpone, ForgetPostponement, MayInterruptTasks
  <2>3. ASSUME tick.bypass, graceSince' \in Kept(graceSince)
        PROVE  Lasted(graceSince' - Rounding, stormAge)
    <3>1. pc = "tasks"
      BY <1>6 DEF NoActiveTasks, ForceDespiteTasks, Postpone
    <3>2. Lasted(tick.age, stormAge)
      BY <2>3, <3>1 DEF StormTimed, Dated
    <3>3. CASE graceSince # None
      BY <2>3, <3>3 DEF StormTimed, Kept
    <3>4. CASE graceSince = None
      <4>1. graceSince' \in Nat /\ graceSince' - Rounding <= tick.age
        BY <2>3, <3>4, StormStored DEF Kept
      <4>2. graceSince' - Rounding \in Int
        BY <4>1
      <4> QED
        BY <3>2, <4>1, <4>2, StormLimitType DEF Lasted
    <3> QED
      BY <3>3, <3>4
  <2>4. graceSince' # None => Lasted(graceSince' - Rounding, stormAge)
    BY <2>2, <2>3 DEF StormTimed
  <2>5. CASE Return
    BY <2>1, <2>4, <2>5 DEF StormTimed, CountdownRespected, Dated, Return, NoTick
  <2>6. CASE Continue("stop")
    BY <2>1, <2>4, <2>6 DEF StormTimed, CountdownRespected, Dated, Continue
  <2> QED
    BY <2>1, <2>5, <2>6
<1>7. CASE StopGuest
  <2>1. /\ UNCHANGED <<warnSince, graceSince, stormAge, level, pc>> /\ pc = "stop"
        /\ tick'.bypass = tick.bypass
    BY <1>7 DEF StopGuest, TickLocals, offKeys, wishes
  <2> QED
    BY <2>1 DEF StormTimed, CountdownRespected, Dated
<1>8. CASE Advance
  <2>1. /\ warnSince' = KeyOlder(warnSince, Countdown)
        /\ graceSince' = KeyOlder(graceSince, Grace)
        /\ stormAge' = Older(stormAge, StormLimit)
        /\ UNCHANGED <<pc, level>>
        /\ tick' = IF Dated THEN [tick EXCEPT !.age = @ + 1] ELSE tick
    BY <1>8 DEF Advance, world, wishes
  <2>2. warnSince' # None => Lasted(warnSince' - Rounding, stormAge')
    BY <2>1, KeyOlderType, StormKeyOlder DEF StormTimed
  <2>3. graceSince' # None => Lasted(graceSince' - Rounding, stormAge')
    BY <2>1, KeyOlderType, StormKeyOlder DEF StormTimed
  <2>4. stormAge' = None <=> stormAge = None
    BY <2>1, OlderType, StormLimitType
  <2>5. tick'.forceOff = tick.forceOff /\ tick'.bypass = tick.bypass
    BY <2>1 DEF TickLocals
  <2>6. Dated' /\ stormAge' # None => Lasted(tick'.age, stormAge')
    <3>1. SUFFICES ASSUME Dated, stormAge # None PROVE Lasted(tick'.age, stormAge')
      BY <2>1, <2>4 DEF Dated
    <3>2. tick'.age = tick.age + 1
      BY <2>1, <3>1 DEF TickLocals
    <3>3. Lasted(tick.age, stormAge)
      BY <3>1 DEF StormTimed
    <3> QED
      BY <2>1, <3>2, <3>3, StormOlder
  <2>7. CountdownRespected'
    <3>1. SUFFICES ASSUME pc = "decide", tick.forceOff, level = Warning
                   PROVE  stormAge' # None /\ stormAge' + Rounding >= Countdown
      BY <2>1, <2>5 DEF CountdownRespected
    <3>2. stormAge # None /\ stormAge + Rounding >= Countdown
      BY <3>1 DEF StormTimed, CountdownRespected
    <3>3. stormAge \in Nat /\ stormAge' \in Nat
      BY <2>1, <2>4, <3>2, OlderType, StormLimitType
    <3>4. stormAge' >= stormAge
      BY <2>1, <3>2, StormLimitType DEF Older
    <3>5. stormAge' + Rounding >= Countdown
      BY <3>2, <3>3, <3>4, LongEnough
    <3>6. stormAge' # None
      BY <2>4, <3>2
    <3> QED
      BY <3>5, <3>6
  <2> QED
    BY <2>1, <2>2, <2>3, <2>4, <2>5, <2>6, <2>7 DEF StormTimed
<1> QED
  BY <1>1, <1>2, <1>3, <1>4, <1>5, <1>6, <1>7, <1>8, StormFrame

LEMMA StormTimedInit == Init => StormTimed
  BY DEF Init, StormTimed, CountdownRespected, NoTick

\* A Warning never forces the host off before weather.levels.warning.countdown,
\* to the second, has passed since the first check that was not calm.
THEOREM CountdownKept == Spec => []CountdownRespected
<1>1. StormTimed => CountdownRespected
  BY DEF StormTimed
<1> QED
  BY <1>1, StormTimedInit, StormTimedStep, TypeCorrect, PTL DEF Spec

\* A shutdown goes ahead over an active task only in Danger, and only when the
\* storm has lasted for host.shutdown_grace, to the second.
THEOREM GraceKept == Spec => GraceRespected
<1>1. ASSUME TypeOK, StormTimed, [Next]_vars, pc = "tasks", pc' = "stop", backup
      PROVE  level = Danger /\ stormAge # None /\ stormAge + Rounding >= Grace
  <2>1. MayInterruptTasks
    <3>1. pc' # pc
      BY <1>1
    <3>2. ~UNCHANGED <<warnSince, graceSince, stormAge, level, pc, tick>>
      BY <3>1
    <3>3. ~Return /\ \A step \in {"tasks", "halt", "await", "guests"} : ~Continue(step)
      BY <1>1 DEF Return, Continue
    <3>4. ~Postpone
      BY <1>1 DEF Postpone, Effects, Return
    <3>5. ForceDespiteTasks
      BY <1>1, <3>2, <3>3, <3>4, StormFrame
      DEF BeginTick, AllClear, ThreatIgnored, DangerForcesOff, WarningCountsDown,
          NoActiveTasks, StopGuest, Advance, ThreatSeen
    <3> QED
      BY <3>5 DEF ForceDespiteTasks
  <2>2. tick.bypass /\ level = Danger /\ stormAge # None
    BY <1>1, <2>1 DEF MayInterruptTasks, StormTimed
  <2>3. Since(graceSince) >= Grace
    BY <2>1 DEF MayInterruptTasks
  <2>4. CASE graceSince = None
    BY <1>1, <2>2, <2>3, <2>4, StormTypes, StormLimitType, Sizes DEF Since
  <2>5. CASE graceSince # None
    <3>1. graceSince \in Nat /\ graceSince - tick.age >= Grace
      BY <1>1, <2>3, <2>5, StormTypes DEF Since, KeyAges
    <3>2. Lasted(graceSince - Rounding, stormAge)
      BY <1>1, <2>5 DEF StormTimed
    <3> QED
      BY <1>1, <2>2, <3>1, <3>2, StormTypes, StormMeasured, StormLimitType, Sizes
  <2> QED
    BY <2>4, <2>5
<1>2. TypeOK /\ StormTimed /\ [Next]_vars
        => [pc = "tasks" /\ pc' = "stop" /\ backup
              => level = Danger /\ stormAge # None /\ stormAge + Rounding >= Grace]_vars
  BY <1>1
<1> QED
  BY <1>2, StormTimedInit, StormTimedStep, TypeCorrect, PTL DEF Spec, GraceRespected

-----------------------------------------------------------------------------
(* shutdownHost: what people are told, in which order guests stop, when the *)
(* node may halt, and that a dry run touches nothing.                       *)

(* A dry run never comes to the request to halt.                           *)

DryRunStops == DryRun => pc # "halt"

LEMMA DryRunStopsStep ==
    ASSUME DryRunStops, [Next]_vars
    PROVE  DryRunStops'
<1> SUFFICES ASSUME DryRun, pc # "halt" PROVE pc' # "halt"
  BY DEF DryRunStops
<1>1. CASE BeginTick \/ AllClear \/ ThreatIgnored \/ DangerForcesOff \/ WarningCountsDown
  BY <1>1
  DEF BeginTick, AllClear, ThreatIgnored, DangerForcesOff, WarningCountsDown, Effects, Return, Continue
<1>2. CASE LeaveAlone \/ StandDown \/ CompleteWake
  BY <1>2 DEF LeaveAlone, StandDown, CompleteWake, Effects, Return, Continue
<1>3. CASE WakeGivenUp \/ FirstPacket \/ WaitForBoot \/ GiveUp \/ Resend
  BY <1>3 DEF WakeGivenUp, FirstPacket, WaitForBoot, GiveUp, Resend, Effects, Return
<1>4. CASE NoActiveTasks \/ ForceDespiteTasks \/ Postpone
  BY <1>4
  DEF NoActiveTasks, ForceDespiteTasks, Postpone, ForgetPostponement, Effects, Return, Continue
<1>5. CASE HostGone \/ StopGuest \/ AllStopped \/ RequestHalt \/ HaltAcknowledged
           \/ ReconcileGuests \/ Interrupt
  BY <1>5
  DEF HostGone, StopGuest, AllStopped, RequestHalt, HaltAcknowledged, ReconcileGuests,
      Interrupt, Return, Continue
<1>6. CASE Advance \/ HaltDone \/ BootDone \/ World
  BY <1>6
  DEF Advance, HaltDone, BootDone, World, PowerCut, PowerButton, PowerOff, GuestControl,
      BackupControl, ScheduleChanges, OverrideChanges, IgnoreChanges,
      ClockSynchronised, Unobserved, ticking
<1>7. CASE UNCHANGED vars
  BY <1>7 DEF vars, ticking
<1> QED
  BY <1>1, <1>2, <1>3, <1>4, <1>5, <1>6, <1>7 DEF Next, Instant, TickStep

\* With dry_run no step of a tick sends a packet, stops or starts a guest or
\* halts the node, for every configuration.
THEOREM DryRunKept == Spec => DryRunInert
<1>1. Init => DryRunStops
  BY DEF Init, DryRunStops
<1>2. ASSUME DryRunStops, [Next]_vars, DryRun, <<pc, tick>>' # <<pc, tick>>
      PROVE  UNCHANGED host
  <2>1. CASE BeginTick \/ AllClear \/ ThreatIgnored \/ DangerForcesOff \/ WarningCountsDown
    BY <2>1
    DEF BeginTick, AllClear, ThreatIgnored, DangerForcesOff, WarningCountsDown, world
  <2>2. CASE LeaveAlone \/ StandDown \/ CompleteWake \/ WakeGivenUp \/ WaitForBoot \/ GiveUp
    BY <2>2 DEF LeaveAlone, StandDown, CompleteWake, WakeGivenUp, WaitForBoot, GiveUp, world
  <2>3. CASE FirstPacket \/ Resend
    BY <1>2, <2>3 DEF FirstPacket, Resend, Send, host
  <2>4. CASE NoActiveTasks \/ ForceDespiteTasks \/ Postpone \/ HostGone \/ AllStopped
             \/ HaltAcknowledged \/ Interrupt
    BY <2>4
    DEF NoActiveTasks, ForceDespiteTasks, Postpone, HostGone, AllStopped, HaltAcknowledged,
        Interrupt, world
  <2>5. CASE StopGuest \/ ReconcileGuests
    BY <1>2, <2>5 DEF StopGuest, ReconcileGuests, host
  <2>6. CASE RequestHalt
    BY <1>2, <2>6 DEF RequestHalt, DryRunStops
  <2>7. CASE Advance
    BY <2>7 DEF Advance, world
  <2>8. CASE HaltDone \/ BootDone \/ World \/ UNCHANGED vars
    BY <1>2, <2>8
    DEF HaltDone, BootDone, World, PowerCut, PowerButton, PowerOff, GuestControl,
        BackupControl, ScheduleChanges, OverrideChanges, IgnoreChanges,
        ClockSynchronised, Unobserved, ticking, vars
  <2> QED
    BY <1>2, <2>1, <2>2, <2>3, <2>4, <2>5, <2>6, <2>7, <2>8 DEF Next, Instant, TickStep
<1>3. DryRunStops /\ [Next]_vars
        => [DryRun /\ <<pc, tick>>' # <<pc, tick>> => UNCHANGED host]_vars
  BY <1>2
<1> QED
  BY <1>1, <1>3, DryRunStopsStep, PTL DEF Spec, DryRunInert

-----------------------------------------------------------------------------
(* The order in which guests stop. *)

\* A guest is never stopped while a guest that depends on it is still waiting to
\* be stopped, for every acyclic dependency graph.
THEOREM DependentsStopFirst == Spec => DependentsFirst
<1>1. ASSUME TypeOK, [Next]_vars, pc = "stop", pc' = "stop",
             NEW g \in tick.left, g \notin tick'.left,
             NEW h \in tick.left
      PROVE  g \notin DependsOn[h]
  <2>1. g \in Guests /\ h \in Guests
    BY <1>1 DEF TypeOK, TickingOK, TickLocals
  <2>2. StopGuest
    <3>1. tick' # tick
      BY <1>1
    <3>2. ~Advance
      BY <1>1 DEF Advance, Dated
    <3> QED
      BY <1>1, <3>1, <3>2
      DEF Next, Instant, TickStep, World, vars, ticking, Unobserved,
          BeginTick, AllClear, ThreatIgnored, DangerForcesOff, WarningCountsDown,
          LeaveAlone, StandDown, CompleteWake, WakeGivenUp, FirstPacket, WaitForBoot, GiveUp,
          Resend, MustWake, HostGone, NoActiveTasks, ForceDespiteTasks, Postpone, AllStopped,
          RequestHalt, HaltAcknowledged, ReconcileGuests, Interrupt, Return, Continue,
          HaltDone, BootDone, PowerCut, PowerButton, PowerOff, GuestControl, BackupControl,
          ScheduleChanges, OverrideChanges, IgnoreChanges, ClockSynchronised
  <2>3. PICK last \in tick.left : ComesLast(last) /\ tick' = [tick EXCEPT !.left = @ \ {last}]
    BY <2>2 DEF StopGuest
  <2>4. last = g
    BY <1>1, <2>3 DEF TypeOK, TickingOK, TickLocals
  <2>5. Rank[h] <= Rank[g] /\ Rank[h] \in Nat /\ Rank[g] \in Nat
    BY <2>1, <2>3, <2>4, ConstantsAssumption DEF ConstantsAssumption, ComesLast
  <2>6. g \in DependsOn[h] => Rank[g] < Rank[h]
    BY <2>1, ConstantsAssumption DEF ConstantsAssumption
  <2> QED
    BY <2>5, <2>6
<1>2. TypeOK /\ [Next]_vars
        => [\A g \in tick.left : pc = "stop" /\ pc' = "stop" /\ g \notin tick'.left
               => \A h \in tick.left : g \notin DependsOn[h]]_vars
  BY <1>1
<1> QED
  BY <1>2, TypeCorrect, PTL DEF Spec, DependentsFirst

-----------------------------------------------------------------------------
(* No guest is forgotten: from the moment the tick has read the guests,    *)
(* what runs is still to be stopped or was started by somebody else since. *)

Watching ==
    \/ pc \in {"safety", "decide"} /\ tick.seen
    \/ pc \in {"tasks", "stop", "halt"}

GuestsAccounted ==
    ~DryRun => /\ Watching => running \ AlwaysOn \subseteq intruders \cup tick.left
               /\ pc = "halt" => tick.left = {}

LEMMA GuestsAccountedStep ==
    ASSUME TypeOK, GuestsAccounted, [Next]_vars
    PROVE  GuestsAccounted'
<1> SUFFICES ASSUME ~DryRun
             PROVE  /\ Watching' => running' \ AlwaysOn \subseteq intruders' \cup tick'.left
                    /\ pc' = "halt" => tick'.left = {}
  BY DEF GuestsAccounted
<1>0. tick \in TickLocals /\ (Watching => running \ AlwaysOn \subseteq intruders \cup tick.left)
      /\ (pc = "halt" => tick.left = {})
  BY DEF TypeOK, TickingOK, GuestsAccounted
<1>1. CASE BeginTick
  <2>1. pc' = "safety" /\ (tick'.seen => tick'.left = running \ AlwaysOn) /\ running' = running
    BY <1>1 DEF BeginTick, world, host
  <2> QED
    BY <2>1 DEF Watching
<1>2. CASE AllClear \/ ThreatIgnored \/ DangerForcesOff \/ WarningCountsDown
  <2>1. pc = "safety" /\ pc' \in {"idle", "decide"} /\ UNCHANGED <<running, intruders>>
    BY <1>2
    DEF AllClear, ThreatSeen, ThreatIgnored, DangerForcesOff, WarningCountsDown, Effects, Return,
        Continue, world, host
  <2>2. pc' = "decide" => tick'.seen = tick.seen /\ tick'.left = tick.left
    BY <1>2, <1>0
    DEF AllClear, ThreatIgnored, DangerForcesOff, WarningCountsDown, Effects, Return, Continue,
        TickLocals
  <2> QED
    BY <1>0, <2>1, <2>2 DEF Watching
<1>3. CASE StandDown
  <2>1. pc = "decide" /\ UNCHANGED <<running, intruders>>
    BY <1>3 DEF StandDown, world, host
  <2>2. pc' = "idle" \/ (tick.seen /\ pc' = "tasks" /\ tick' = tick)
    <3>1. PICK n \in 0..3 : Effects(n, 3, IF tick.seen THEN Continue("tasks") ELSE Return)
      BY <1>3 DEF StandDown
    <3>2. CASE tick.seen
      BY <3>1, <3>2 DEF Effects, Return, Continue
    <3>3. CASE ~tick.seen
      BY <3>1, <3>3 DEF Effects, Return, Continue
    <3> QED
      BY <3>2, <3>3
  <2> QED
    BY <1>0, <2>1, <2>2 DEF Watching
<1>4. CASE LeaveAlone \/ CompleteWake \/ WakeGivenUp \/ FirstPacket \/ WaitForBoot \/ GiveUp
           \/ Resend \/ HostGone \/ Postpone \/ RequestHalt \/ HaltAcknowledged
           \/ ReconcileGuests \/ Interrupt
  <2>1. pc' \in {"idle", "guests", "await"}
    BY <1>4
    DEF LeaveAlone, CompleteWake, WakeGivenUp, FirstPacket, WaitForBoot, GiveUp, Resend,
        HostGone, Postpone, RequestHalt, HaltAcknowledged, ReconcileGuests, Interrupt,
        Effects, Return, Continue
  <2> QED
    BY <2>1 DEF Watching
<1>5. CASE NoActiveTasks \/ ForceDespiteTasks
  <2>1. pc = "tasks" /\ UNCHANGED <<running, intruders>>
    BY <1>5 DEF NoActiveTasks, ForceDespiteTasks, world, host
  <2>2. pc' = "idle" \/ (pc' = "stop" /\ tick' = tick)
    <3>1. PICK n \in 0..2 : Effects(n, 2, Continue("stop"))
      BY <1>5 DEF NoActiveTasks, ForceDespiteTasks, ForgetPostponement
    <3> QED
      BY <3>1 DEF Effects, Return, Continue
  <2> QED
    BY <1>0, <2>1, <2>2 DEF Watching
<1>6. CASE StopGuest
  <2>1. PICK g \in tick.left :
           running' = running \ {g} /\ tick' = [tick EXCEPT !.left = @ \ {g}]
    BY <1>6 DEF StopGuest
  <2>2. pc = "stop" /\ pc' = "stop" /\ intruders' = intruders
    BY <1>6 DEF StopGuest
  <2> QED
    BY <1>0, <2>1, <2>2 DEF Watching, TickLocals
<1>7. CASE AllStopped
  BY <1>0, <1>7 DEF AllStopped, Return, Continue, Watching, world, host
<1>8. CASE HaltDone \/ PowerCut
  BY <1>0, <1>8 DEF HaltDone, PowerCut, PowerOff, Unobserved, ticking, Watching
<1>9. CASE BootDone
  BY <1>0, <1>9 DEF BootDone, Unobserved, ticking, Watching
<1>10. CASE GuestControl
  <2>1. Watching => intruders' = intruders \cup (running' \ running)
    BY <1>10 DEF GuestControl, Watching
  <2> QED
    BY <1>0, <1>10, <2>1 DEF GuestControl, ticking, Watching
<1>11. CASE PowerButton \/ BackupControl \/ ScheduleChanges
            \/ OverrideChanges \/ IgnoreChanges \/ ClockSynchronised \/ UNCHANGED vars
  <2>1. UNCHANGED <<running, intruders, pc, tick>>
    BY <1>11
    DEF PowerButton, BackupControl, ScheduleChanges, OverrideChanges,
        IgnoreChanges, ClockSynchronised, vars, world, host, Unobserved, ticking
  <2> QED
    BY <1>0, <2>1 DEF Watching
<1>12. CASE Advance
  <2>1. UNCHANGED <<running, intruders, pc>> /\ tick'.seen = tick.seen /\ tick'.left = tick.left
    BY <1>0, <1>12 DEF Advance, world, host, TickLocals
  <2> QED
    BY <1>0, <2>1 DEF Watching
<1> QED
  BY <1>1, <1>2, <1>3, <1>4, <1>5, <1>6, <1>7, <1>8, <1>9, <1>10, <1>11, <1>12
  DEF Next, Instant, TickStep, World

\* The node is told to halt only when no scheduled guest runs that the tick knows
\* of, whatever people, power cuts and failing calls did meanwhile.
THEOREM GuestsStopBeforeHalt == Spec => GuestsStoppedFirst
<1>1. Init => GuestsAccounted
  BY DEF Init, GuestsAccounted, Watching
<1>2. ASSUME GuestsAccounted, DryRunStops, [Next]_vars, pc = "halt", pc' = "await"
      PROVE  running \ AlwaysOn \subseteq intruders
  BY <1>2 DEF GuestsAccounted, DryRunStops, Watching
<1>3. GuestsAccounted /\ DryRunStops /\ [Next]_vars
        => [pc = "halt" /\ pc' = "await" => running \ AlwaysOn \subseteq intruders]_vars
  BY <1>2
<1>4. Init => DryRunStops
  BY DEF Init, DryRunStops
<1> QED
  BY <1>1, <1>3, <1>4, GuestsAccountedStep, DryRunStopsStep, TypeCorrect, PTL
  DEF Spec, GuestsStoppedFirst

-----------------------------------------------------------------------------
(* What people are told about a postponed shutdown. *)

ToldCounted ==
    told # None => told <= faults + (IF postponed THEN 1 ELSE 0)

LEMMA ToldCountedStep ==
    ASSUME TypeOK, ToldCounted, [Next]_vars
    PROVE  ToldCounted'
<1>1. told \in Nat \cup {None} /\ faults \in Nat /\ None \notin Nat
  BY Sizes, NoAge DEF TypeOK, ObserversOK, TickingOK
<1>2. CASE NoActiveTasks \/ ForceDespiteTasks
  <2>1. PICK n \in 0..2 : ForgetPostponement(n)
    BY <1>2 DEF NoActiveTasks, ForceDespiteTasks
  <2>2. CASE n = 2
    BY <2>1, <2>2 DEF ForgetPostponement, ToldCounted
  <2>3. CASE n # 2
    <3>1. n < 2 /\ faults' = faults + 1 /\ told' = told
      BY <2>1, <2>3 DEF ForgetPostponement, Effects
    <3> QED
      BY <1>1, <3>1 DEF ToldCounted
  <2> QED
    BY <2>2, <2>3
<1>3. CASE Postpone
  <2>1. told' = (IF told = None THEN 0 ELSE told) + (IF postponed THEN 0 ELSE 1)
    BY <1>3 DEF Postpone
  <2>2. PICK n \in 0..1 : RememberNotified(n) /\ Effects(n, 1, Return)
    BY <1>3 DEF Postpone
  <2>3. CASE n = 1
    <3>1. postponed' /\ faults' = faults
      BY <2>2, <2>3 DEF RememberNotified, Effects
    <3> QED
      BY <1>1, <2>1, <3>1 DEF ToldCounted
  <2>4. CASE n # 1
    <3>1. n = 0
      BY <2>4
    <3>2. (postponed' <=> postponed) /\ faults' = faults + 1
      BY <2>2, <3>1 DEF RememberNotified, Effects, TypeOK, OffKeysOK
    <3> QED
      BY <1>1, <2>1, <3>2 DEF ToldCounted
  <2> QED
    BY <2>3, <2>4
<1>4. CASE ~(NoActiveTasks \/ ForceDespiteTasks \/ Postpone)
  <2>1. faults' \in {faults, faults + 1} /\ told' \in {told, None} /\ postponed' = postponed
    <3>1. CASE BeginTick \/ AllClear \/ ThreatIgnored \/ DangerForcesOff \/ WarningCountsDown
      BY <3>1
      DEF BeginTick, AllClear, ThreatIgnored, DangerForcesOff, WarningCountsDown, Effects, offKeys
    <3>2. CASE LeaveAlone \/ StandDown \/ CompleteWake
      BY <3>2 DEF LeaveAlone, StandDown, CompleteWake, Effects, offKeys
    <3>3. CASE WakeGivenUp \/ FirstPacket \/ WaitForBoot \/ GiveUp \/ Resend
      BY <3>3 DEF WakeGivenUp, FirstPacket, WaitForBoot, GiveUp, Resend, Effects, offKeys
    <3>4. CASE HostGone \/ StopGuest \/ AllStopped \/ RequestHalt \/ HaltAcknowledged
               \/ ReconcileGuests \/ Interrupt
      BY <3>4
      DEF HostGone, StopGuest, AllStopped, RequestHalt, HaltAcknowledged, ReconcileGuests,
          Interrupt, offKeys
    <3>5. CASE Advance \/ HaltDone \/ BootDone \/ World \/ UNCHANGED vars
      BY <3>5
      DEF Advance, HaltDone, BootDone, World, PowerCut, PowerButton, PowerOff, GuestControl,
          BackupControl, ScheduleChanges, OverrideChanges, IgnoreChanges,
          ClockSynchronised, Unobserved, ticking, offKeys, vars
    <3> QED
      BY <1>4, <3>1, <3>2, <3>3, <3>4, <3>5 DEF Next, Instant, TickStep
  <2>2. CASE told' = None
    BY <2>2 DEF ToldCounted
  <2>3. CASE told' = told
    <3>1. faults' = faults \/ faults' = faults + 1
      BY <2>1
    <3>2. CASE postponed
      <4>1. postponed'
        BY <2>1, <3>2
      <4> QED
        BY <1>1, <2>3, <3>1, <3>2, <4>1 DEF ToldCounted
    <3>3. CASE ~postponed
      <4>1. ~postponed'
        BY <2>1, <3>3
      <4> QED
        BY <1>1, <2>3, <3>1, <3>3, <4>1 DEF ToldCounted
    <3> QED
      BY <3>2, <3>3
  <2> QED
    BY <2>1, <2>2, <2>3
<1> QED
  BY <1>2, <1>3, <1>4

\* While a shutdown stays postponed people are told once, and again only after an
\* interruption between telling them and remembering it.
THEOREM ToldOnceKept == Spec => []ToldOnce
<1>1. Init => ToldCounted
  BY DEF Init, ToldCounted
<1>2. TypeOK /\ ToldCounted => ToldOnce
  BY Sizes, NoAge DEF TypeOK, ObserversOK, TickingOK, ToldCounted, ToldOnce
<1> QED
  BY <1>1, <1>2, ToldCountedStep, TypeCorrect, PTL DEF Spec
=============================================================================
