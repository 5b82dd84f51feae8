---------------------------- MODULE AlarmProofs ----------------------------
(***************************************************************************)
(* Proofs about Alarm for any length of a second, any distances of alarms  *)
(* and any steps of the clock.                                             *)
(***************************************************************************)
EXTENDS Alarm, TLAPS

----------------------------------------------------------------------------
(* Type correctness. *)

\* The type invariant, the flags and the other variables apart.
FlagTypes ==
    /\ wait_pending \in BOOLEAN
    /\ pwron_alm \in BOOLEAN /\ pdn1 \in BOOLEAN
    /\ rtc_irq \in BOOLEAN /\ lapsed \in BOOLEAN
DataTypes ==
    /\ alarm_enabled \subseteq AlarmTypes
    /\ alarm_pending \subseteq AlarmTypes \cup {TIME_CHANGE}
    /\ waiting \subseteq Threads
    /\ left \in [AlarmTypes -> 0 .. MaxLeft]
    /\ timers \subseteq AlarmTypes
    /\ alarm_wake_lock \in Off .. AlarmTimeout
    /\ alarm_rtc_wake_lock \in 0 .. 2 * Hz
    /\ pwron_tm \in Int /\ rtc_alarm \in Nat /\ rtc_alarm_time \in Int
    /\ phase \in 0 .. Hz - 1
    /\ since \in 0 .. Hz
    /\ sys \in {"awake", "checked", "frozen", "cancel_rtc", "cancel_elapsed", "set", "check",
                "late", "asleep", "resuming"}

LEMMA TypesSplit == AlarmTypeOK <=> FlagTypes /\ DataTypes
BY DEF AlarmTypeOK, FlagTypes, DataTypes

\* The flags are only ever set to truth values.
LEMMA FlagStep == FlagTypes /\ [AlarmNext]_alarmVars => FlagTypes'
<1>. SUFFICES ASSUME FlagTypes, [AlarmNext]_alarmVars PROVE FlagTypes'
  OBVIOUS
<1>. USE DEF FlagTypes, ioctlVars, timerVars, lockVars, pwronVars, rtcVars, sysVars,
            histVars
<1>1. CASE Ioctl
  <2>1. ASSUME NEW t \in AlarmTypes, Clear(t) \/ \E n \in Lefts[t] : Set(t, n)
        PROVE  FlagTypes'
    BY <2>1, Zenon DEF Clear, Set
  <2>2. ASSUME NEW secs \in PowerOnTimes, SetPowerOn(secs) PROVE FlagTypes'
    BY <2>2, Zenon DEF SetPowerOn, SetAlarm
  <2>3. CASE ClearPowerOn
    BY <2>3, Zenon DEF ClearPowerOn, SetAlarm
  <2>4. ASSUME NEW th \in Threads, Wait(th) \/ WaitReturns(th) \/ WaitInterrupted(th)
        PROVE  FlagTypes'
    BY <2>4, Zenon DEF Wait, WaitReturns, WaitInterrupted
  <2>5. ASSUME NEW d \in Shifts, NEW ok \in BOOLEAN, NEW rtc_ok \in BOOLEAN,
               SetRtc(d, ok, rtc_ok)
        PROVE  FlagTypes'
    BY <2>5, Zenon DEF SetRtc
  <2>6. CASE Release
    BY <2>6, Zenon DEF Release
  <2>. QED
    BY <1>1, <2>1, <2>2, <2>3, <2>4, <2>5, <2>6, Zenon DEF Ioctl
<1>2. CASE SuspendCheck \/ SuspendStep \/ OtherWakeup
  BY <1>2, Zenon
     DEF SuspendStep, SuspendCheck, FreezeProcesses, Thaw, Goto, AlarmSuspend, CancelRtcWakeup, CancelElapsedWakeup,
         RtcSetAlarm, SetAlarm, AboutToGoOff, AlarmSuspended, PowerSuspendLate,
         OtherWakeup, AlarmResume, DisableAlarm
<1>3. CASE TimerStep
  BY <1>3, Zenon DEF TimerStep, RtcIrq, AlarmTimerTriggered, Goto
<1>4. CASE Tick
  BY <1>4, Zenon DEF Tick
<1>5. CASE UNCHANGED alarmVars
  BY <1>5, Zenon DEF alarmVars
<1>. QED
  BY <1>1, <1>2, <1>3, <1>4, <1>5 DEF AlarmNext

\* Moving a distance keeps it in bounds.
LEMMA ClipTypes ==
    ASSUME NEW n \in Int
    PROVE  Clip(n) \in Nat /\ Clip(n) >= n /\ ClipTm(n) \in Int
BY DEF Clip, ClipTm, Passed

\* Forgetting an alarm keeps the distances' type.
LEMMA ForgottenTypes ==
    ASSUME left \in [AlarmTypes -> 0 .. MaxLeft], NEW types
    PROVE  Forgotten(types) \in [AlarmTypes -> 0 .. MaxLeft]
BY AlarmAssumption DEF Forgotten

\* The places of the suspend path are places.
LEMMA GotoTypes ==
    ASSUME DataTypes, NEW place, Goto(place)
    PROVE  sys' = place /\ since' \in 0 .. Hz
BY AlarmAssumption DEF DataTypes, Goto

\* A tick of the clock keeps types.
LEMMA TickTypes == DataTypes /\ Tick => DataTypes'
<1>. SUFFICES ASSUME DataTypes, Tick PROVE DataTypes'
  OBVIOUS
<1>1. left' \in [AlarmTypes -> 0 .. MaxLeft]
  BY AlarmAssumption DEF DataTypes, Tick, Clip
<1>2. /\ alarm_wake_lock' \in Off .. AlarmTimeout
      /\ alarm_rtc_wake_lock' \in 0 .. 2 * Hz
      /\ since' \in 0 .. Hz
  BY AlarmAssumption DEF DataTypes, Tick, Clip, OneTickOn, Off, TimedOut
<1>3. phase' \in 0 .. Hz - 1
  BY AlarmAssumption DEF DataTypes, Tick
<1>4. /\ rtc_alarm' \in Nat
      /\ pwron_tm' \in Int /\ rtc_alarm_time' \in Int
  BY ClipTypes DEF DataTypes, Tick, WontMatch
<1>5. UNCHANGED <<ioctlVars, timers, pwron_alm, pdn1, sys>>
  BY DEF Tick
<1>. QED
  BY <1>1, <1>2, <1>3, <1>4, <1>5 DEF DataTypes, ioctlVars

\* The calls of the owner keep types.
LEMMA IoctlTypes == DataTypes /\ Ioctl => DataTypes'
<1>. SUFFICES ASSUME DataTypes, Ioctl PROVE DataTypes'
  OBVIOUS
<1>. USE AlarmAssumption
<1>1. ASSUME NEW t \in AlarmTypes, Clear(t) PROVE DataTypes'
  BY <1>1, ForgottenTypes DEF DataTypes, Clear, Off, pwronVars, rtcVars, sysVars, histVars
<1>2. ASSUME NEW t \in AlarmTypes, NEW n \in Lefts[t], Set(t, n) PROVE DataTypes'
  <2>1. n \in 0 .. MaxLeft
    OBVIOUS
  <2>. QED
    BY <1>2, <2>1 DEF DataTypes, Set, lockVars, pwronVars, rtcVars, sysVars, histVars
<1>3. ASSUME NEW secs \in PowerOnTimes, SetPowerOn(secs) PROVE DataTypes'
  BY <1>3 DEF DataTypes, SetPowerOn, SetAlarm, WontMatch, timerVars, lockVars, sysVars,
              histVars
<1>4. CASE ClearPowerOn
  BY <1>4 DEF DataTypes, ClearPowerOn, SetAlarm, WontMatch, Passed, timerVars, lockVars,
              sysVars, histVars
<1>5. ASSUME NEW th \in Threads, Wait(th) \/ WaitReturns(th) \/ WaitInterrupted(th)
      PROVE  DataTypes'
  BY <1>5 DEF DataTypes, Wait, WaitReturns, WaitInterrupted, Off, timerVars, lockVars,
              pwronVars, rtcVars, sysVars, histVars
<1>6. ASSUME NEW d \in Shifts, NEW ok \in BOOLEAN, NEW rtc_ok \in BOOLEAN,
             SetRtc(d, ok, rtc_ok)
      PROVE  DataTypes'
  <2>1. d \in Int /\ d \div Hz \in Int
    OBVIOUS
  <2>2. \A t \in AlarmTypes : Moved(t, d, ok) \in 0 .. MaxLeft
    BY <1>6, <2>1 DEF SetRtc, Moved, Clip, DataTypes
  <2>3. left' \in [AlarmTypes -> 0 .. MaxLeft]
    BY <1>6, <2>2 DEF SetRtc
  <2>4. rtc_alarm' \in Nat /\ pwron_tm' \in Int
    <3>. DEFINE secs == d \div Hz
    <3>1. secs \in Int
      BY <2>1
    <3>2. /\ \/ rtc_alarm' = IF rtc_alarm > secs /\ rtc_alarm # WontMatch
                             THEN rtc_alarm - secs ELSE WontMatch
             \/ rtc_alarm' = rtc_alarm
          /\ pwron_tm' \in {ClipTm(pwron_tm - secs), pwron_tm}
      BY <1>6 DEF SetRtc
    <3>. HIDE DEF secs
    <3>. QED
      BY <3>1, <3>2, ClipTypes DEF DataTypes, WontMatch
  <2>5. /\ timers' \subseteq AlarmTypes
        /\ alarm_pending' \subseteq AlarmTypes \cup {TIME_CHANGE}
    BY <1>6 DEF SetRtc, Started, DataTypes
  <2>. QED
    BY <1>6, <2>3, <2>4, <2>5 DEF DataTypes, SetRtc, lockVars, sysVars, histVars
<1>7. CASE Release
  BY <1>7, ForgottenTypes DEF DataTypes, Release, Off, pwronVars, rtcVars, sysVars, histVars
<1>. QED
  BY <1>1, <1>2, <1>3, <1>4, <1>5, <1>6, <1>7 DEF Ioctl

\* The suspend path keeps types.
LEMMA SuspendTypes ==
    DataTypes /\ (SuspendCheck \/ SuspendStep \/ OtherWakeup) => DataTypes'
<1>. SUFFICES ASSUME DataTypes, SuspendCheck \/ SuspendStep \/ OtherWakeup
              PROVE  DataTypes'
  OBVIOUS
<1>. USE AlarmAssumption
<1>1. CASE FreezeProcesses \/ Thaw \/ AlarmSuspend \/ OtherWakeup
  BY <1>1, GotoTypes
     DEF DataTypes, FreezeProcesses, Thaw, AlarmSuspend, OtherWakeup,
         ioctlVars, timerVars, lockVars, pwronVars, rtcVars
<1>8. CASE SuspendCheck \/ PowerSuspendLate
  BY <1>8, GotoTypes
     DEF DataTypes, SuspendCheck, PowerSuspendLate, ioctlVars, timerVars, pwronVars,
         rtcVars, Off
<1>2. CASE CancelRtcWakeup
  BY <1>2, GotoTypes
     DEF DataTypes, CancelRtcWakeup, ioctlVars, lockVars, pwronVars, rtcVars
<1>3. CASE CancelElapsedWakeup
  <2>1. FirstWakeup \in Int
    BY DEF FirstWakeup, DataTypes, WAKEUP
  <2>2. rtc_alarm_time' \in Int
    BY <1>3, <2>1 DEF CancelElapsedWakeup, DataTypes
  <2>. QED
    BY <1>3, <2>2, GotoTypes
       DEF DataTypes, CancelElapsedWakeup, ioctlVars, lockVars, pwronVars, rtcVars
<1>4. CASE RtcSetAlarm
  BY <1>4, GotoTypes
     DEF DataTypes, RtcSetAlarm, SetAlarm, WontMatch, ioctlVars, timerVars, lockVars,
         pwronVars
<1>5. CASE AboutToGoOff
  BY <1>5, GotoTypes
     DEF DataTypes, AboutToGoOff, DisableAlarm, Started, ioctlVars, pwronVars
<1>6. CASE AlarmSuspended
  BY <1>6, GotoTypes
     DEF DataTypes, AlarmSuspended, ioctlVars, timerVars, lockVars, pwronVars, rtcVars
<1>7. CASE AlarmResume
  BY <1>7, GotoTypes
     DEF DataTypes, AlarmResume, DisableAlarm, Started, ioctlVars, lockVars, pwronVars
<1>. QED
  BY <1>1, <1>2, <1>3, <1>4, <1>5, <1>6, <1>7, <1>8 DEF SuspendStep

\* The interrupts keep types.
LEMMA TimerTypes == DataTypes /\ TimerStep => DataTypes'
<1>. SUFFICES ASSUME DataTypes, TimerStep PROVE DataTypes'
  OBVIOUS
<1>. USE AlarmAssumption
<1>1. CASE RtcIrq
  BY <1>1, GotoTypes DEF DataTypes, RtcIrq, WontMatch, ioctlVars, timerVars, histVars
<1>2. ASSUME NEW t \in AlarmTypes, AlarmTimerTriggered(t) PROVE DataTypes'
  BY <1>2 DEF DataTypes, AlarmTimerTriggered, Off, pwronVars, rtcVars
<1>. QED
  BY <1>1, <1>2 DEF TimerStep

\* Every step keeps types.
LEMMA DataStep == DataTypes /\ [AlarmNext]_alarmVars => DataTypes'
<1>1. DataTypes /\ UNCHANGED alarmVars => DataTypes'
  BY DEF DataTypes, alarmVars, ioctlVars, timerVars, lockVars, pwronVars, rtcVars, sysVars,
         histVars
<1>. QED
  BY <1>1, TickTypes, IoctlTypes, SuspendTypes, TimerTypes DEF AlarmNext

LEMMA AlarmInitTypes == AlarmInit => AlarmTypeOK
<1>1. AlarmInit => FlagTypes
  BY Zenon DEF AlarmInit, FlagTypes
<1>2. AlarmInit => DataTypes
  BY AlarmAssumption DEF AlarmInit, DataTypes, Passed, WontMatch, Off
<1>. QED
  BY <1>1, <1>2, TypesSplit

LEMMA AlarmTypeStep == AlarmTypeOK /\ [AlarmNext]_alarmVars => AlarmTypeOK'
<1>1. AlarmTypeOK' <=> FlagTypes' /\ DataTypes'
  BY DEF AlarmTypeOK, FlagTypes, DataTypes
<1>. QED
  BY <1>1, TypesSplit, FlagStep, DataStep

\* Every variable keeps its type, for any Hz and any distances.
THEOREM AlarmTypeCorrect == AlarmSpec => []AlarmTypeOK
BY AlarmInitTypes, AlarmTypeStep, PTL DEF AlarmSpec

----------------------------------------------------------------------------
(* The timers. *)

\* Only wakeup alarms lose their timers, and only after alarm_suspend began to
\* stop them.
TimerPlaces ==
    /\ alarm_enabled \ WAKEUP \subseteq timers
    /\ sys \in {"awake", "checked", "frozen", "cancel_rtc"} => alarm_enabled \subseteq timers

LEMMA TimerPlacesStep ==
    AlarmTypeOK /\ TimerPlaces /\ [AlarmNext]_alarmVars => TimerPlaces'
<1>. SUFFICES ASSUME AlarmTypeOK, TimerPlaces, [AlarmNext]_alarmVars PROVE TimerPlaces'
  OBVIOUS
<1>. USE DEF TimerPlaces, ioctlVars, timerVars
<1>1. CASE Ioctl
  <2>1. ASSUME NEW d \in Shifts, NEW ok \in BOOLEAN, NEW rtc_ok \in BOOLEAN,
               SetRtc(d, ok, rtc_ok)
        PROVE  TimerPlaces'
    BY <2>1 DEF SetRtc, Started, Awake, AlarmTypeOK, sysVars
  <2>2. CASE \E t \in AlarmTypes : Clear(t) \/ \E n \in Lefts[t] : Set(t, n)
    BY <2>2 DEF Clear, Set, sysVars
  <2>3. CASE \E th \in Threads : Wait(th) \/ WaitReturns(th) \/ WaitInterrupted(th)
    BY <2>3 DEF Wait, WaitReturns, WaitInterrupted, sysVars
  <2>4. CASE ClearPowerOn \/ \E secs \in PowerOnTimes : SetPowerOn(secs)
    BY <2>4 DEF SetPowerOn, ClearPowerOn, sysVars
  <2>5. CASE Release
    BY <2>5 DEF Release
  <2>. QED
    BY <1>1, <2>1, <2>2, <2>3, <2>4, <2>5 DEF Ioctl
<1>2. CASE \/ SuspendCheck \/ FreezeProcesses \/ Thaw \/ AlarmSuspend
           \/ PowerSuspendLate \/ OtherWakeup
  BY <1>2 DEF SuspendCheck, FreezeProcesses, Thaw, AlarmSuspend, PowerSuspendLate,
              OtherWakeup, Goto
<1>3. CASE CancelRtcWakeup \/ CancelElapsedWakeup
  BY <1>3 DEF CancelRtcWakeup, CancelElapsedWakeup, Goto, WAKEUP
<1>4. CASE RtcSetAlarm \/ AlarmSuspended
  BY <1>4 DEF RtcSetAlarm, AlarmSuspended, Goto
<1>5. CASE AboutToGoOff \/ AlarmResume
  BY <1>5 DEF AboutToGoOff, AlarmResume, Started, Goto
<1>6. CASE RtcIrq
  BY <1>6 DEF RtcIrq, Goto
<1>7. ASSUME NEW t \in AlarmTypes, AlarmTimerTriggered(t) PROVE TimerPlaces'
  BY <1>7 DEF AlarmTimerTriggered, sysVars
<1>8. CASE Tick
  BY <1>8 DEF Tick
<1>9. CASE UNCHANGED alarmVars
  BY <1>9 DEF alarmVars, sysVars
<1>. QED
  BY <1>1, <1>2, <1>3, <1>4, <1>5, <1>6, <1>7, <1>8, <1>9
     DEF AlarmNext, SuspendStep, TimerStep

\* While tasks run, every enabled alarm has its timer: each way out of suspend
\* (alarm_resume, -EBUSY before and after the timers were stopped) starts them
\* again, and setting the clock leaves none behind.
THEOREM TimersAlwaysRun == AlarmSpec => []TimersRun
<1>1. AlarmInit => TimerPlaces
  BY DEF AlarmInit, TimerPlaces
<1>2. AlarmTypeOK /\ TimerPlaces => TimersRun
  BY DEF TimerPlaces, TimersRun, Awake
<1>. QED
  BY <1>1, <1>2, AlarmInitTypes, AlarmTypeStep, TimerPlacesStep, PTL DEF AlarmSpec

----------------------------------------------------------------------------
(* The wake locks. *)

\* alarm_wake_lock has someone to release it.
LockHasReason == alarm_wake_lock # Off => alarm_pending # {} \/ wait_pending

\* What a step may do with the lock; the step of LockForAlarms.
LockStep ==
    /\ alarm_wake_lock' # Off => alarm_pending' # {} \/ wait_pending'
    /\ alarm_wake_lock > 1 /\ alarm_wake_lock' <= TimedOut =>
          alarm_pending' = {} /\ ~ wait_pending'

LEMMA LockReasonStep ==
    AlarmTypeOK /\ LockHasReason /\ [AlarmNext]_alarmVars => LockStep
<1>. SUFFICES ASSUME AlarmTypeOK, LockHasReason, [AlarmNext]_alarmVars PROVE LockStep
  OBVIOUS
<1>. USE AlarmAssumption DEF LockStep, LockHasReason, Off, TimedOut
<1>1. CASE UNCHANGED <<alarm_pending, wait_pending, alarm_wake_lock>>
  BY <1>1 DEF AlarmTypeOK
<1>2. ASSUME NEW t \in AlarmTypes, Clear(t) PROVE LockStep
  BY <1>2 DEF Clear
<1>3. ASSUME NEW th \in Threads, Wait(th) PROVE LockStep
  BY <1>3, <1>1 DEF Wait
<1>4. ASSUME NEW th \in Threads, WaitReturns(th) PROVE LockStep
  BY <1>4 DEF WaitReturns, AlarmTypeOK
<1>5. ASSUME NEW d \in Shifts, NEW ok \in BOOLEAN, NEW rtc_ok \in BOOLEAN,
             SetRtc(d, ok, rtc_ok)
      PROVE  LockStep
  BY <1>5 DEF SetRtc, lockVars, AlarmTypeOK
<1>6. CASE Release
  BY <1>6 DEF Release
<1>7. ASSUME NEW t \in AlarmTypes, AlarmTimerTriggered(t) PROVE LockStep
  BY <1>7, <1>1 DEF AlarmTimerTriggered
<1>8. CASE Tick
  BY <1>8 DEF Tick, ioctlVars, OneTickOn, AlarmTypeOK
<1>9. CASE \/ \E t \in AlarmTypes, n \in UNION {Lefts[x] : x \in AlarmTypes} : Set(t, n)
           \/ \E secs \in PowerOnTimes : SetPowerOn(secs)
           \/ ClearPowerOn
           \/ \E th \in Threads : WaitInterrupted(th)
  BY <1>9, <1>1 DEF Set, SetPowerOn, ClearPowerOn, WaitInterrupted, lockVars
<1>10. CASE \/ FreezeProcesses \/ Thaw \/ AlarmSuspend \/ CancelRtcWakeup
            \/ CancelElapsedWakeup \/ RtcSetAlarm \/ AboutToGoOff \/ AlarmSuspended
            \/ OtherWakeup \/ AlarmResume \/ RtcIrq
  BY <1>10, <1>1
     DEF FreezeProcesses, Thaw, AlarmSuspend, CancelRtcWakeup, CancelElapsedWakeup,
         RtcSetAlarm, AboutToGoOff, AlarmSuspended, OtherWakeup, AlarmResume, RtcIrq,
         ioctlVars, lockVars
<1>12. CASE SuspendCheck
  BY <1>12 DEF SuspendCheck, ioctlVars, AlarmTypeOK
<1>13. CASE PowerSuspendLate
  BY <1>13, <1>1 DEF PowerSuspendLate, ioctlVars, AlarmTypeOK
<1>11. CASE UNCHANGED alarmVars
  BY <1>11, <1>1 DEF alarmVars, ioctlVars, lockVars
<1>. QED
  BY <1>2, <1>3, <1>4, <1>5, <1>6, <1>7, <1>8, <1>9, <1>10, <1>11, <1>12, <1>13
     DEF AlarmNext, Ioctl, SuspendStep, TimerStep

\* alarm_wake_lock is taken for alarms and given back only when none is left
\* and the last were acknowledged, in every order of ioctls and interrupts.
THEOREM LockHeldForAlarms == AlarmSpec => LockForAlarms
<1>1. AlarmInit => LockHasReason
  BY DEF AlarmInit, LockHasReason
<1>2. LockStep => LockHasReason'
  BY DEF LockStep, LockHasReason
<1>. QED
  BY <1>1, <1>2, AlarmInitTypes, AlarmTypeStep, LockReasonStep, PTL
     DEF AlarmSpec, LockForAlarms, LockStep

----------------------------------------------------------------------------
(* Sleep. *)

\* After alarm_suspend's first check, what is pending has the lock, or the lock
\* has run out since.
PendingIsLocked ==
    /\ sys \in OnTheWay /\ alarm_pending # {} => alarm_wake_lock > 0 \/ lapsed
    /\ sys = "asleep" /\ alarm_pending # {} => lapsed

LEMMA PathStep ==
    AlarmTypeOK /\ PendingIsLocked /\ [AlarmNext]_alarmVars => PendingIsLocked'
<1>. SUFFICES ASSUME AlarmTypeOK, PendingIsLocked, [AlarmNext]_alarmVars
              PROVE  PendingIsLocked'
  OBVIOUS
<1>. USE AlarmAssumption DEF PendingIsLocked, OnTheWay, Off, TimedOut
<1>0. alarm_wake_lock \in Int /\ alarm_wake_lock >= Off
  BY DEF AlarmTypeOK
<1>1. CASE Ioctl
  <2>1. sys' \in {"awake", "checked"}
    BY <1>1 DEF Ioctl, Clear, Set, SetPowerOn, ClearPowerOn, Wait, WaitReturns,
                WaitInterrupted, SetRtc, Release, Awake, sysVars
  <2>. QED
    BY <2>1
<1>2. CASE SuspendCheck \/ FreezeProcesses \/ Thaw \/ OtherWakeup \/ AlarmResume
           \/ AboutToGoOff
  <2>1. sys' \in {"awake", "checked", "frozen", "resuming"}
    BY <1>2 DEF SuspendCheck, FreezeProcesses, Thaw, OtherWakeup, AlarmResume,
                AboutToGoOff, Goto
  <2>. QED
    BY <2>1
<1>4. CASE AlarmSuspend
  <2>1. CASE sys' = "awake"
    BY <2>1
  <2>2. CASE sys' # "awake"
    <3>1. sys' \in OnTheWay /\ UNCHANGED <<alarm_pending, alarm_wake_lock>>
      BY <1>4, <2>2 DEF AlarmSuspend, ioctlVars, lockVars
    <3>2. alarm_pending # {} => alarm_wake_lock # Off
      BY <1>4, <2>2 DEF AlarmSuspend
    <3>3. alarm_pending # {} /\ alarm_wake_lock = TimedOut => lapsed'
      BY <1>4 DEF AlarmSuspend
    <3>. QED
      BY <1>0, <3>1, <3>2, <3>3
  <2>. QED
    BY <2>1, <2>2
<1>5. CASE CancelRtcWakeup \/ CancelElapsedWakeup \/ RtcSetAlarm \/ AlarmSuspended
  <2>1. /\ sys \in OnTheWay /\ sys' \in OnTheWay
        /\ UNCHANGED <<alarm_pending, alarm_wake_lock>>
    BY <1>5 DEF CancelRtcWakeup, CancelElapsedWakeup, RtcSetAlarm, AlarmSuspended,
                Goto, lockVars, ioctlVars
  <2>2. lapsed => lapsed'
    BY <1>5 DEF CancelRtcWakeup, CancelElapsedWakeup, RtcSetAlarm, AlarmSuspended, Goto
  <2>. QED
    BY <2>1, <2>2
<1>6. CASE PowerSuspendLate
  <2>1. CASE sys' = "resuming"
    BY <2>1
  <2>2. CASE sys' # "resuming"
    <3>1. /\ sys = "late" /\ sys' = "asleep"
          /\ alarm_wake_lock <= 0 /\ UNCHANGED alarm_pending
      BY <1>6, <2>2 DEF PowerSuspendLate, Goto, ioctlVars
    <3>2. lapsed => lapsed'
      BY <1>6, <2>2 DEF PowerSuspendLate, Goto
    <3>. QED
      BY <1>0, <3>1, <3>2
  <2>. QED
    BY <2>1, <2>2
<1>7. CASE RtcIrq
  BY <1>7 DEF RtcIrq, Goto, ioctlVars, histVars
<1>8. ASSUME NEW t \in AlarmTypes, AlarmTimerTriggered(t) PROVE PendingIsLocked'
  <2>1. CASE t \in alarm_enabled
    BY <1>8, <2>1 DEF AlarmTimerTriggered
  <2>2. CASE t \notin alarm_enabled
    BY <1>8, <2>2 DEF AlarmTimerTriggered
  <2>. QED
    BY <2>1, <2>2
<1>9. CASE Tick
  <2>1. UNCHANGED <<alarm_pending, sys>> /\ alarm_wake_lock' \in OneTickOn(alarm_wake_lock)
    BY <1>9 DEF Tick, ioctlVars
  <2>2. (lapsed => lapsed') /\ (sys \in OnTheWay /\ alarm_wake_lock = 1 => lapsed')
    BY <1>9 DEF Tick
  <2>3. alarm_wake_lock > 1 => alarm_wake_lock' > 0
    BY <1>0, <2>1 DEF OneTickOn
  <2>. QED
    BY <1>0, <2>1, <2>2, <2>3
<1>10. CASE UNCHANGED alarmVars
  BY <1>10 DEF alarmVars, sysVars, histVars, lockVars, ioctlVars
<1>. QED
  BY <1>1, <1>2, <1>4, <1>5, <1>6, <1>7, <1>8, <1>9, <1>10
     DEF AlarmNext, SuspendStep, TimerStep

\* The phone sleeps on an alarm that went off and was not collected only if
\* alarm_wake_lock ran out between alarm_suspend's look at it and the last check,
\* whenever on the way down the alarm goes off and however long the way takes
\* (alarm_suspend, alarm_timer_triggered, power_suspend_late).
THEOREM NeverSleepsWithPending == AlarmSpec => []NoSleepWithPending
<1>1. AlarmInit => PendingIsLocked
  BY DEF AlarmInit, PendingIsLocked, OnTheWay
<1>2. PendingIsLocked => NoSleepWithPending
  BY DEF PendingIsLocked, NoSleepWithPending
<1>. QED
  BY <1>1, <1>2, AlarmInitTypes, AlarmTypeStep, PathStep, PTL DEF AlarmSpec

----------------------------------------------------------------------------
(* The RTC covers the wakeup alarms. *)

\* An RTC alarm n seconds ahead is not later than any wakeup alarm.
Covers(n) == \A t \in alarm_enabled \cap WAKEUP : n * Hz - phase <= left[t]

\* What is known of the RTC at each place of the suspend path.  Once
\* alarm_suspend has returned the RTC may go off already: then its wake lock is
\* held until a second has gone by.
RtcCovers ==
    /\ sys = "set" /\ rtc_alarm_time > 0 => Covers(rtc_alarm_time)
    /\ sys = "check" /\ rtc_alarm_time > 0 =>
          rtc_alarm = rtc_alarm_time /\ ~ rtc_irq /\ Covers(rtc_alarm)
    /\ sys = "late" =>
          \/ alarm_enabled \cap WAKEUP = {}
          \/ rtc_irq \/ since = Hz \/ alarm_rtc_wake_lock >= Hz - since
          \/ rtc_alarm # WontMatch /\ Covers(rtc_alarm)
    /\ sys = "asleep" =>
          \/ alarm_enabled \cap WAKEUP = {}
          \/ rtc_irq \/ since = Hz
          \/ rtc_alarm # WontMatch /\ Covers(rtc_alarm)

\* Rounding a distance down to seconds never makes it later.
LEMMA RoundedDown ==
    ASSUME NEW n \in Nat, NEW m \in Int, m <= n \div Hz
    PROVE  m * Hz <= n
<1>. DEFINE q == n \div Hz
<1>1. q \in Int /\ q * Hz <= n
  BY AlarmAssumption
<1>2. ASSUME NEW a \in Int, NEW b \in Int, NEW h \in Nat, a <= b
      PROVE  a * h <= b * h
  BY <1>2
<1>. HIDE DEF q
<1>3. m <= q
  BY DEF q
<1>4. Hz \in Nat /\ m * Hz \in Int /\ q * Hz \in Int
  BY <1>1, AlarmAssumption
<1>5. m * Hz <= q * Hz
  BY <1>1, <1>2, <1>3, <1>4
<1>. QED
  BY <1>1, <1>4, <1>5

\* A tick brings the RTC's second and the alarm nearer by the same amount.
LEMMA TickKeepsCover ==
    ASSUME NEW n \in Nat, NEW l \in Nat, NEW p \in 0 .. Hz - 1, n * Hz - p <= l, n > 0
    PROVE  /\ (p + 1) % Hz = 0 => (n - 1) * Hz - ((p + 1) % Hz) <= Clip(l - 1)
           /\ (p + 1) % Hz # 0 => n * Hz - ((p + 1) % Hz) <= Clip(l - 1)
<1>1. Hz \in Nat /\ Hz > 0
  BY AlarmAssumption
<1>2. /\ p + 1 = Hz => (p + 1) % Hz = 0
      /\ p + 1 # Hz => (p + 1) % Hz = p + 1
  BY <1>1
<1>3. (n - 1) * Hz = n * Hz - Hz /\ n * Hz \in Int
  BY <1>1
<1>4. ASSUME NEW m \in Int, m - p <= l PROVE m - (p + 1) <= Clip(l - 1)
  BY <1>1, <1>4 DEF Clip
<1>5. n * Hz - (p + 1) <= Clip(l - 1)
  BY <1>3, <1>4
<1>. QED
  BY <1>1, <1>2, <1>3, <1>5

\* A tick keeps a cover, unless the alarm goes off in it.
LEMMA TickCovers ==
    ASSUME AlarmTypeOK, Tick, NEW n \in Nat \ {0}, Covers(n)
    PROVE  /\ phase' # 0 => Covers(n)'
           /\ phase' = 0 => \A t \in alarm_enabled \cap WAKEUP :
                               (n - 1) * Hz - phase' <= left'[t]
<1>. SUFFICES ASSUME NEW t \in alarm_enabled \cap WAKEUP
              PROVE  /\ phase' # 0 => n * Hz - phase' <= left'[t]
                     /\ phase' = 0 => (n - 1) * Hz - phase' <= left'[t]
  <2>1. alarm_enabled' = alarm_enabled
    BY DEF Tick, ioctlVars
  <2>. QED
    BY <2>1 DEF Covers
<1>1. t \in AlarmTypes /\ t # "SYSTEMTIME"
  BY DEF AlarmTypeOK, WAKEUP
<1>2. left'[t] = Clip(left[t] - 1) /\ phase' = (phase + 1) % Hz
  BY <1>1 DEF Tick
<1>3. left[t] \in Nat /\ phase \in 0 .. Hz - 1
  BY <1>1, AlarmAssumption DEF AlarmTypeOK
<1>4. n * Hz - phase <= left[t]
  BY DEF Covers
<1>. QED
  BY <1>2, <1>3, <1>4, TickKeepsCover

\* What alarm_suspend computes covers every wakeup alarm that is enabled.
LEMMA FirstWakeupCovers ==
    ASSUME AlarmTypeOK, NEW m \in Int, m <= FirstWakeup
    PROVE  Covers(m)
<1>. SUFFICES ASSUME NEW t \in alarm_enabled \cap WAKEUP PROVE m * Hz - phase <= left[t]
  BY DEF Covers
<1>1. \A x \in WAKEUP : left[x] \in Nat
  BY AlarmAssumption DEF AlarmTypeOK
<1>2. PICK x \in WAKEUP : FirstWakeup = left[x] \div Hz /\ left[x] <= left[t]
  <2>1. CASE t = "RTC_WAKEUP" /\ "ELAPSED_REALTIME_WAKEUP" \notin alarm_enabled
    BY <2>1, <1>1 DEF FirstWakeup, WAKEUP
  <2>2. CASE t = "RTC_WAKEUP" /\ "ELAPSED_REALTIME_WAKEUP" \in alarm_enabled
    BY <2>2, <1>1 DEF FirstWakeup, WAKEUP
  <2>3. CASE t = "ELAPSED_REALTIME_WAKEUP"
    BY <2>3, <1>1 DEF FirstWakeup, WAKEUP
  <2>. QED
    BY <2>1, <2>2, <2>3 DEF WAKEUP
<1>3. m * Hz <= left[x]
  BY <1>1, <1>2, RoundedDown
<1>4. m * Hz \in Int /\ phase \in Nat
  BY AlarmAssumption DEF AlarmTypeOK
<1>. QED
  BY <1>1, <1>2, <1>3, <1>4

LEMMA RtcCoversStep ==
    AlarmTypeOK /\ RtcCovers /\ [AlarmNext]_alarmVars => RtcCovers'
<1>. SUFFICES ASSUME AlarmTypeOK, RtcCovers, [AlarmNext]_alarmVars
              PROVE  RtcCovers'
  OBVIOUS
<1>1. CASE Ioctl
  <2>1. sys' \in {"awake", "checked"}
    BY <1>1 DEF Ioctl, Clear, Set, SetPowerOn, ClearPowerOn, Wait, WaitReturns,
                WaitInterrupted, SetRtc, Release, Awake, sysVars
  <2>. QED
    BY <2>1 DEF RtcCovers
<1>2. CASE \/ SuspendCheck \/ FreezeProcesses \/ Thaw \/ OtherWakeup \/ AlarmResume
           \/ AboutToGoOff \/ CancelRtcWakeup
  BY <1>2 DEF RtcCovers, SuspendCheck, FreezeProcesses, Thaw, OtherWakeup, AlarmResume,
              AboutToGoOff, CancelRtcWakeup, Goto
<1>3. CASE AlarmSuspend
  BY <1>3 DEF RtcCovers, AlarmSuspend, ioctlVars
<1>4. CASE CancelElapsedWakeup
  <2>1. FirstWakeup \in Int
    BY AlarmAssumption DEF FirstWakeup, AlarmTypeOK, WAKEUP
  <2>2. sys' = "set" /\ rtc_alarm_time' \in Int /\ rtc_alarm_time' <= FirstWakeup
    BY <1>4, <2>1 DEF CancelElapsedWakeup, Goto, AlarmTypeOK
  <2>3. Covers(rtc_alarm_time')
    BY <2>2, FirstWakeupCovers
  <2>4. Covers(rtc_alarm_time)'
    BY <1>4, <2>3 DEF Covers, CancelElapsedWakeup, ioctlVars, rtcVars
  <2>. QED
    BY <2>2, <2>4 DEF RtcCovers
<1>5. CASE RtcSetAlarm
  BY <1>5 DEF RtcCovers, RtcSetAlarm, SetAlarm, Goto, Covers, ioctlVars, timerVars
<1>6. CASE AlarmSuspended
  <2>1. rtc_alarm_time \in Int
    BY DEF AlarmTypeOK
  <2>2. sys' = "late" /\ rtc_alarm # WontMatch /\ Covers(rtc_alarm)
    BY <1>6, <2>1 DEF AlarmSuspended, Goto, RtcCovers, WontMatch
  <2>. QED
    BY <1>6, <2>2 DEF AlarmSuspended, RtcCovers, Covers, ioctlVars, timerVars, rtcVars
<1>7. CASE PowerSuspendLate
  <2>1. CASE sys' = "resuming"
    BY <2>1 DEF RtcCovers
  <2>2. CASE sys' # "resuming"
    <3>1. /\ sys = "late" /\ sys' = "asleep" /\ alarm_rtc_wake_lock = 0
          /\ UNCHANGED <<ioctlVars, timerVars, rtcVars, since>>
      BY <1>7, <2>2 DEF PowerSuspendLate, Goto
    <3>2. alarm_rtc_wake_lock >= Hz - since => since = Hz
      BY <3>1, AlarmAssumption DEF AlarmTypeOK
    <3>. QED
      BY <3>1, <3>2 DEF RtcCovers, Covers, ioctlVars, timerVars, rtcVars
  <2>. QED
    BY <2>1, <2>2
<1>8. CASE RtcIrq
  <2>1. CASE sys = "late"
    <3>1. sys' = "late" /\ since' = since /\ alarm_rtc_wake_lock' = Hz
      BY <1>8, <2>1 DEF RtcIrq, histVars
    <3>2. alarm_rtc_wake_lock' >= Hz - since'
      BY <3>1, AlarmAssumption DEF AlarmTypeOK
    <3>. QED
      BY <3>1, <3>2 DEF RtcCovers
  <2>2. CASE sys # "late"
    BY <1>8, <2>2 DEF RtcIrq, Goto, RtcCovers, Covers, ioctlVars, timerVars
  <2>. QED
    BY <2>1, <2>2
<1>9. ASSUME NEW t \in AlarmTypes, AlarmTimerTriggered(t) PROVE RtcCovers'
  <2>1. alarm_enabled' \subseteq alarm_enabled
    BY <1>9 DEF AlarmTimerTriggered
  <2>. QED
    BY <1>9, <2>1 DEF AlarmTimerTriggered, RtcCovers, Covers, sysVars, rtcVars
<1>10. CASE Tick
  <2>. USE DEF RtcCovers
  <2>1. /\ UNCHANGED <<alarm_enabled, sys>> /\ ~ rtc_irq
        /\ phase' # 0 => UNCHANGED <<rtc_alarm, rtc_irq, rtc_alarm_time>>
    BY <1>10 DEF Tick, ioctlVars
  <2>2. /\ rtc_alarm \in Nat /\ rtc_alarm_time \in Int
    BY DEF AlarmTypeOK
  <2>3. ASSUME sys \in {"set", "check"}, rtc_alarm_time' > 0, phase' = 0
        PROVE  rtc_alarm_time' = rtc_alarm_time - 1 /\ rtc_alarm_time > 1
    BY <1>10, <2>2, <2>3 DEF Tick, ClipTm, Passed
  <2>4. CASE sys = "set"
    <3>. SUFFICES ASSUME rtc_alarm_time' > 0 PROVE Covers(rtc_alarm_time)'
      BY <2>1, <2>4
    <3>1. CASE phase' = 0
      BY <1>10, <2>1, <2>2, <2>3, <2>4, <3>1, TickCovers DEF Covers
    <3>2. CASE phase' # 0
      <4>1. Covers(rtc_alarm_time) /\ rtc_alarm_time \in Nat \ {0}
        BY <2>1, <2>2, <2>4, <3>2
      <4>. QED
        BY <1>10, <2>1, <3>2, <4>1, TickCovers DEF Covers
    <3>. QED
      BY <3>1, <3>2
  <2>5. CASE sys = "check"
    <3>. SUFFICES ASSUME rtc_alarm_time' > 0
                  PROVE  rtc_alarm' = rtc_alarm_time' /\ ~ rtc_irq' /\ Covers(rtc_alarm)'
      BY <2>1, <2>5
    <3>1. CASE phase' = 0
      <4>1. /\ rtc_alarm_time > 1 /\ rtc_alarm_time' = rtc_alarm_time - 1
            /\ rtc_alarm = rtc_alarm_time /\ Covers(rtc_alarm)
        BY <2>2, <2>3, <2>5, <3>1
      <4>2. rtc_alarm' = rtc_alarm - 1 /\ rtc_alarm # 1
        BY <1>10, <2>2, <3>1, <4>1 DEF Tick, WontMatch
      <4>3. ~ rtc_irq'
        BY <1>10, <3>1, <4>2, Zenon DEF Tick
      <4>. QED
        BY <1>10, <2>1, <2>2, <3>1, <4>1, <4>2, <4>3, TickCovers DEF Covers
    <3>2. CASE phase' # 0
      <4>1. Covers(rtc_alarm) /\ rtc_alarm = rtc_alarm_time /\ rtc_alarm \in Nat \ {0}
        BY <2>1, <2>2, <2>5, <3>2
      <4>. QED
        BY <1>10, <2>1, <3>2, <4>1, TickCovers DEF Covers
    <3>. QED
      BY <3>1, <3>2
  <2>6. ASSUME sys \in {"late", "asleep"}, rtc_alarm # WontMatch, Covers(rtc_alarm)
        PROVE  rtc_irq' \/ (rtc_alarm' # WontMatch /\ Covers(rtc_alarm)')
    <3>1. rtc_alarm \in Nat \ {0}
      BY <2>2, <2>6 DEF WontMatch
    <3>2. CASE phase' = 0
      <4>1. rtc_alarm' = rtc_alarm - 1 /\ (rtc_alarm = 1 => rtc_irq')
        BY <1>10, <2>6, <3>2 DEF Tick
      <4>2. CASE rtc_alarm = 1
        BY <4>1, <4>2
      <4>3. CASE rtc_alarm # 1
        BY <1>10, <2>1, <2>6, <3>1, <3>2, <4>1, <4>3, TickCovers DEF Covers, WontMatch
      <4>. QED
        BY <4>2, <4>3
    <3>3. CASE phase' # 0
      BY <1>10, <2>1, <2>6, <3>1, <3>3, TickCovers DEF Covers
    <3>. QED
      BY <3>2, <3>3
  <2>7. /\ since = Hz => since' = Hz
        /\ sys = "late" /\ alarm_rtc_wake_lock >= Hz - since =>
              since' = Hz \/ alarm_rtc_wake_lock' >= Hz - since'
    BY <1>10, AlarmAssumption DEF Tick, Clip, AlarmTypeOK
  <2>. QED
    BY <2>1, <2>4, <2>5, <2>6, <2>7
<1>11. CASE UNCHANGED alarmVars
  BY <1>11 DEF alarmVars, sysVars, histVars, lockVars, ioctlVars, rtcVars, timerVars,
               RtcCovers, Covers
<1>. QED
  BY <1>1, <1>2, <1>3, <1>4, <1>5, <1>6, <1>7, <1>8, <1>9, <1>10, <1>11
     DEF AlarmNext, SuspendStep, TimerStep

\* The phone never sleeps past a wakeup alarm when the devices that come after
\* the alarm device suspend within a second: the rounding to RTC seconds, the
\* power-on alarm in the same register, alarms that go off on the way down and
\* time that passes between the steps of alarm_suspend included, for any Hz.
THEOREM SleepIsCovered == AlarmSpec => []NeverSleepsPast
<1>1. AlarmInit => RtcCovers
  BY DEF AlarmInit, RtcCovers
<1>2. AlarmTypeOK /\ RtcCovers => NeverSleepsPast
  <2>. SUFFICES ASSUME AlarmTypeOK, RtcCovers, sys = "asleep", since < Hz,
                       NEW t \in alarm_enabled \cap WAKEUP
                PROVE  Covered(t)
    BY DEF NeverSleepsPast
  <2>1. since # Hz
    BY AlarmAssumption DEF AlarmTypeOK
  <2>. QED
    BY <2>1 DEF RtcCovers, Covers, Covered
<1>. QED
  BY <1>1, <1>2, AlarmInitTypes, AlarmTypeStep, RtcCoversStep, PTL DEF AlarmSpec
=============================================================================
