------------------------------- MODULE Alarm -------------------------------
(***************************************************************************)
(* The Android alarm device, drivers/rtc/alarm.c, with the real time clock *)
(* below it, drivers/rtc/rtc-mt6516.c.                                     *)
(*                                                                         *)
(* While the phone is awake each alarm is an hrtimer.  alarm_suspend stops *)
(* the timers of the two wakeup alarms and programs the first of them into *)
(* the RTC, the one clock that runs during sleep and counts in seconds;    *)
(* alarm_resume starts the timers again.  The power-on alarm shares the    *)
(* RTC's single alarm register.                                            *)
(*                                                                         *)
(* Time is in ticks, Hz of them to a second, and relative: left[t] is how  *)
(* long alarm_time[t] is ahead on its own clock, 0 once it is past.  RTC   *)
(* times are full RTC seconds ahead.  alarm_slock keeps interrupts off, so *)
(* each of its sections is one action.                                     *)
(***************************************************************************)
EXTENDS Integers, FiniteSets

CONSTANTS AlarmTypes,     \* the alarm types in use
          Threads,        \* threads of the process that owns the device
          Hz,             \* ticks of a second
          AlarmTimeout,   \* ticks of alarm_wake_lock: 5 * HZ
          Lefts,          \* how far ahead alarms of each type are set
          Shifts,         \* by how much ANDROID_ALARM_SET_RTC sets the clock
          MaxLeft,        \* bound on the distance of an alarm
          PowerOnTimes    \* RTC seconds to the power-on time, once rounded

RTC == {"RTC_WAKEUP", "RTC"}
ELAPSED == {"ELAPSED_REALTIME_WAKEUP", "ELAPSED_REALTIME"}
WAKEUP == {"RTC_WAKEUP", "ELAPSED_REALTIME_WAKEUP"}

ASSUME AlarmAssumption ==
    /\ WAKEUP \subseteq AlarmTypes
    /\ AlarmTypes \subseteq RTC \cup ELAPSED \cup {"SYSTEMTIME"}
    /\ Hz \in Nat \ {0} /\ AlarmTimeout \in Nat \ {0} /\ MaxLeft \in Nat
    /\ Lefts \in [AlarmTypes -> SUBSET (0 .. MaxLeft)] /\ Shifts \subseteq Int
    /\ PowerOnTimes \subseteq Int

VARIABLES alarm_enabled, alarm_pending, wait_pending,
          left,          \* alarm_time
          timers,        \* the hrtimers that are started
          waiting,       \* threads in ANDROID_ALARM_WAIT
          alarm_wake_lock,      \* ticks it is still held, TimedOut or Off
          alarm_rtc_wake_lock,  \* ticks it is still held
          pwron_alm,
          pdn1,          \* the power-on bit of RTC_PDN1
          pwron_tm,      \* RTC seconds to the power-on time, down to Passed
          rtc_alarm,     \* RTC seconds to the match of the alarm registers
          rtc_irq,       \* the RTC's interrupt is raised
          phase,         \* ticks since the RTC's last second
          sys,           \* where the suspend path is
          rtc_alarm_time,\* the local variable of alarm_suspend
          since,         \* history: ticks since alarm_suspend returned, up to Hz
          lapsed         \* history: alarm_wake_lock ran out after alarm_suspend
                         \* had looked at it

ioctlVars == <<alarm_enabled, alarm_pending, wait_pending, waiting>>
timerVars == <<left, timers>>
lockVars == <<alarm_wake_lock, alarm_rtc_wake_lock>>
pwronVars == <<pwron_alm, pdn1, pwron_tm>>
rtcVars == <<rtc_alarm, rtc_irq, phase>>
histVars == <<since, lapsed>>
sysVars == <<sys, rtc_alarm_time, histVars>>
alarmVars == <<ioctlVars, timerVars, lockVars, pwronVars, rtcVars, sysVars>>

TIME_CHANGE == "TIME_CHANGE"
Passed == -3      \* beyond the two seconds around the power-on time
WontMatch == 0    \* disabled, gone off, or set to a second that has begun

\* alarm_wake_lock is not active; its time is over and no walk of the list has
\* taken it off yet, as none does that meets a lock without a timeout first, so
\* that wake_lock_active still finds it active.
Off == -1
TimedOut == 0

\* Tasks run, also while suspend() is in sys_sync and the freezer.
Awake == sys \in {"awake", "checked"}
\* alarm_suspend has looked at alarm_wake_lock, and the last check is to come.
OnTheWay == {"cancel_rtc", "cancel_elapsed", "set", "check", "late"}

Goto(place) ==
    /\ sys' = place
    /\ since' = IF place = "asleep" THEN since ELSE 0
    /\ lapsed' = (lapsed /\ place \in OnTheWay \cup {"asleep"})

Clip(n) == IF n < 0 THEN 0 ELSE n
ClipTm(n) == IF n < Passed THEN Passed ELSE n

----------------------------------------------------------------------------
(* The RTC. *)

\* rtc_ops_set_alarm: a second that has begun matches no more (the registers
\* have no year, so not for a year), and the interrupt status is cleared.
SetAlarm(secs) ==
    /\ rtc_alarm' = IF secs > 0 THEN secs ELSE WontMatch
    /\ rtc_irq' = FALSE

\* rtc_set_alarm with a zeroed time, by which alarm_suspend and alarm_resume
\* mean to disable the alarm.  rtc_valid_tm refuses the year 1900, so the RTC
\* is left as it is.
DisableAlarm == UNCHANGED <<rtc_alarm, rtc_irq>>

\* rtc_irq_handler and, through rtc_update_irq, alarm_triggered_func.
AtPowerOnTime == pwron_tm \in -2 .. 2
RtcIrq ==
    /\ rtc_irq
    /\ rtc_irq' = FALSE
    /\ pdn1' = (pdn1 /\ ~ AtPowerOnTime)
    /\ rtc_alarm' = IF pdn1' /\ pwron_tm > 0 THEN pwron_tm
                    ELSE IF pdn1' THEN WontMatch ELSE rtc_alarm
    /\ pwron_alm' = (pwron_alm /\ ~ AtPowerOnTime)
    /\ alarm_rtc_wake_lock' = Hz
    /\ \/ sys = "asleep" /\ Goto("resuming")
       \/ sys # "asleep" /\ UNCHANGED <<sys, histVars>>
    /\ UNCHANGED <<ioctlVars, timerVars, alarm_wake_lock, pwron_tm, phase,
                   rtc_alarm_time>>

----------------------------------------------------------------------------
(* Timers and time. *)

\* alarm_start_hrtimer for each of the types.
Started(types) == timers \cup (types \cap alarm_enabled)

Due == {t \in timers : left[t] = 0}

AlarmTimerTriggered(t) ==
    /\ sys # "asleep"
    /\ t \in Due
    /\ timers' = timers \ {t}
    /\ IF t \in alarm_enabled
       THEN /\ alarm_wake_lock' = AlarmTimeout
            /\ alarm_enabled' = alarm_enabled \ {t}
            /\ alarm_pending' = alarm_pending \cup {t}
            /\ lapsed' = FALSE
       ELSE UNCHANGED <<alarm_wake_lock, alarm_enabled, alarm_pending, lapsed>>
    /\ UNCHANGED <<wait_pending, waiting, left, alarm_rtc_wake_lock,
                   pwronVars, rtcVars, sys, rtc_alarm_time, since>>

\* Interrupts are served within a tick; every step of a suspend may take any
\* number of them.  The monotonic clock stops in sleep.
OneTickOn(lock) ==
    IF lock > 1 THEN {lock - 1} ELSE IF lock = Off THEN {Off} ELSE {TimedOut, Off}
Tick ==
    /\ ~ rtc_irq
    /\ sys # "asleep" => Due = {}
    /\ since' = IF sys = "late" /\ since < Hz THEN since + 1 ELSE since
    /\ lapsed' = (lapsed \/ (sys \in OnTheWay /\ alarm_wake_lock = 1))
    /\ left' = [t \in AlarmTypes |->
                  IF t = "SYSTEMTIME" /\ sys = "asleep" THEN left[t] ELSE Clip(left[t] - 1)]
    /\ alarm_wake_lock' \in OneTickOn(alarm_wake_lock)
    /\ alarm_rtc_wake_lock' = Clip(alarm_rtc_wake_lock - 1)
    /\ phase' = (phase + 1) % Hz
    /\ IF phase' = 0
       THEN /\ rtc_alarm' = IF rtc_alarm = WontMatch THEN WontMatch ELSE rtc_alarm - 1
            /\ rtc_irq' = (rtc_alarm = 1)
            /\ pwron_tm' = ClipTm(pwron_tm - 1)
            /\ rtc_alarm_time' = IF sys \in {"set", "check"}
                                 THEN ClipTm(rtc_alarm_time - 1) ELSE rtc_alarm_time
       ELSE UNCHANGED <<rtc_alarm, rtc_irq, pwron_tm, rtc_alarm_time>>
    /\ UNCHANGED <<ioctlVars, timers, pwron_alm, pdn1, sys>>

----------------------------------------------------------------------------
(* alarm_ioctl and alarm_release.  The process that owns the device (the     *)
(* first to use it, alarm_opened) makes all calls but ANDROID_ALARM_SET_RTC. *)

\* Of an alarm that is not enabled, alarm_time is still read if it is the
\* elapsed wakeup alarm, by alarm_suspend; the others count as past.
Forgotten(types) ==
    [t \in AlarmTypes |->
        IF t \in types \ {"ELAPSED_REALTIME_WAKEUP"} THEN 0 ELSE left[t]]

ClearIgnoringWait(t) ==
    /\ Awake
    /\ timers' = timers \ {t}
    /\ alarm_pending' = alarm_pending \ {t}
    /\ alarm_wake_lock' = IF alarm_pending # {} /\ alarm_pending' = {}
                          THEN Off ELSE alarm_wake_lock
    /\ alarm_enabled' = alarm_enabled \ {t}
    /\ left' = Forgotten({t})
    /\ UNCHANGED <<wait_pending, waiting, alarm_rtc_wake_lock, pwronVars,
                   rtcVars, sysVars>>
Clear(t) ==
    /\ Awake
    /\ timers' = timers \ {t}
    /\ alarm_pending' = alarm_pending \ {t}
    /\ alarm_wake_lock' = IF alarm_pending # {} /\ alarm_pending' = {} /\ ~ wait_pending
                          THEN Off ELSE alarm_wake_lock
    /\ alarm_enabled' = alarm_enabled \ {t}
    /\ left' = Forgotten({t})
    /\ UNCHANGED <<wait_pending, waiting, alarm_rtc_wake_lock, pwronVars,
                   rtcVars, sysVars>>

\* ANDROID_ALARM_SET, and the first half of ANDROID_ALARM_SET_AND_WAIT.
Set(t, n) ==
    /\ Awake
    /\ left' = [left EXCEPT ![t] = n]
    /\ alarm_enabled' = alarm_enabled \cup {t}
    /\ timers' = timers \cup {t}
    /\ UNCHANGED <<alarm_pending, wait_pending, waiting, lockVars, pwronVars, rtcVars,
                   sysVars>>

\* ANDROID_ALARM_SET of type POWER_ON: the time is rounded down to the minute
\* and set 30 s earlier, so it may lie behind; zero switches the alarm off.
SetPowerOn(secs) ==
    /\ Awake
    /\ pwron_alm' = TRUE /\ pdn1' = TRUE /\ pwron_tm' = secs
    /\ SetAlarm(secs)
    /\ UNCHANGED <<alarm_enabled, alarm_pending, wait_pending, waiting, timerVars,
                   lockVars, phase, sysVars>>
ClearPowerOn ==
    /\ Awake
    /\ pwron_alm' = FALSE /\ pdn1' = FALSE /\ pwron_tm' = Passed
    /\ SetAlarm(WontMatch)
    /\ UNCHANGED <<alarm_enabled, alarm_pending, wait_pending, waiting, timerVars,
                   lockVars, phase, sysVars>>

\* ANDROID_ALARM_WAIT: the last alarms are acknowledged, then the thread
\* sleeps until there is one, or until a signal comes.
Wait(th) ==
    /\ Awake
    /\ th \notin waiting
    /\ IF alarm_pending = {} /\ wait_pending
       THEN alarm_wake_lock' = Off /\ wait_pending' = FALSE
       ELSE UNCHANGED <<alarm_wake_lock, wait_pending>>
    /\ waiting' = waiting \cup {th}
    /\ UNCHANGED <<alarm_enabled, alarm_pending, timerVars, alarm_rtc_wake_lock,
                   pwronVars, rtcVars, sysVars>>

WaitReturns(th) ==
    /\ Awake
    /\ th \in waiting
    /\ alarm_pending # {}
    /\ waiting' = waiting \ {th}
    /\ wait_pending' = TRUE
    /\ alarm_pending' = {}
    /\ alarm_rtc_wake_lock' = IF alarm_pending \cap WAKEUP # {} THEN 0
                              ELSE alarm_rtc_wake_lock
    /\ UNCHANGED <<alarm_enabled, timerVars, alarm_wake_lock, pwronVars,
                   rtcVars, sysVars>>

WaitInterrupted(th) ==
    /\ Awake
    /\ th \in waiting
    /\ waiting' = waiting \ {th}
    /\ UNCHANGED <<alarm_enabled, alarm_pending, wait_pending, timerVars,
                   lockVars, pwronVars, rtcVars, sysVars>>

\* ANDROID_ALARM_SET_RTC, by any process.  The timers are stopped, the offset
\* of the elapsed time is corrected by d, the system clock is set (ok) or not,
\* and the timers start again; the RTC is set (rtc_ok) or not.  There is no
\* schedule between the sections of alarm_slock.  An elapsed alarm that is past
\* counts as due just now.
Moved(t, d, ok) ==
    Clip(left[t] + (IF t \in ELAPSED THEN d ELSE 0)
                 - (IF t \in RTC \cup ELAPSED /\ ok THEN d ELSE 0))
SetRtc(d, ok, rtc_ok) ==
    /\ Awake
    /\ \A t \in AlarmTypes : Moved(t, d, ok) <= MaxLeft
    /\ left' = [t \in AlarmTypes |-> Moved(t, d, ok)]
    /\ timers' = Started(AlarmTypes \ {"SYSTEMTIME"}) \cap (alarm_enabled \cup {"SYSTEMTIME"})
    /\ IF ok
       THEN alarm_pending' = alarm_pending \cup {TIME_CHANGE}
       ELSE UNCHANGED alarm_pending
    /\ LET secs == d \div Hz
       IN  IF ok /\ rtc_ok
           THEN /\ rtc_alarm' = IF rtc_alarm > secs /\ rtc_alarm # WontMatch
                                THEN rtc_alarm - secs ELSE WontMatch
                /\ pwron_tm' = ClipTm(pwron_tm - secs)
           ELSE UNCHANGED <<rtc_alarm, pwron_tm>>
    /\ UNCHANGED <<alarm_enabled, wait_pending, waiting, lockVars,
                   pwron_alm, pdn1, rtc_irq, phase, sysVars>>

\* The owner closes the device, or dies; no thread is in an ioctl then.
Release ==
    /\ Awake
    /\ waiting = {}
    /\ alarm_enabled' = {}
    /\ timers' = {}
    /\ left' = Forgotten(AlarmTypes)
    /\ alarm_wake_lock' = IF alarm_pending # {} \/ wait_pending THEN Off ELSE alarm_wake_lock
    /\ wait_pending' = FALSE
    /\ alarm_pending' = {}
    /\ UNCHANGED <<waiting, alarm_rtc_wake_lock, pwronVars, rtcVars, sysVars>>

----------------------------------------------------------------------------
(* The suspend path. *)

\* suspend() goes on if no wake lock is held: its walk takes the locks off that
\* have timed out.
SuspendCheck ==
    /\ sys = "awake"
    /\ alarm_wake_lock <= TimedOut /\ alarm_rtc_wake_lock = 0
    /\ alarm_wake_lock' = Off
    /\ Goto("checked")
    /\ UNCHANGED <<ioctlVars, timerVars, alarm_rtc_wake_lock, pwronVars, rtcVars,
                   rtc_alarm_time>>

\* sys_sync and freeze_processes.  The freezer looks at the locks only in a
\* round that leaves tasks to freeze: one taken meanwhile may end the suspend
\* (Thaw) or not.
FreezeProcesses ==
    /\ sys = "checked"
    /\ Goto("frozen")
    /\ UNCHANGED <<ioctlVars, timerVars, lockVars, pwronVars, rtcVars, rtc_alarm_time>>

\* A lock, a task, a lack of memory or another device ends the suspend before
\* this device's turn.
Thaw ==
    /\ sys \in {"checked", "frozen"}
    /\ Goto("awake")
    /\ UNCHANGED <<ioctlVars, timerVars, lockVars, pwronVars, rtcVars, rtc_alarm_time>>

\* alarm_suspend up to its first unlock.  wake_lock_active looks at the flag
\* and not at the time.
AlarmSuspendUnchecked ==
    /\ sys = "frozen"
    /\ sys' = (IF alarm_enabled \cap WAKEUP # {} THEN "cancel_rtc" ELSE "late")
    /\ lapsed' = (alarm_pending # {} /\ alarm_wake_lock = TimedOut)
    /\ UNCHANGED <<ioctlVars, timerVars, lockVars, pwronVars, rtcVars, rtc_alarm_time,
                   since>>
AlarmSuspend ==
    /\ sys = "frozen"
    /\ sys' = (IF alarm_pending # {} /\ alarm_wake_lock = Off THEN "awake"  \* -EBUSY
               ELSE IF alarm_enabled \cap WAKEUP # {} THEN "cancel_rtc"
               ELSE "late")
    /\ lapsed' = (alarm_pending # {} /\ alarm_wake_lock = TimedOut)
    /\ UNCHANGED <<ioctlVars, timerVars, lockVars, pwronVars, rtcVars, rtc_alarm_time,
                   since>>

CancelRtcWakeup ==
    /\ sys = "cancel_rtc"
    /\ timers' = timers \ ({"RTC_WAKEUP"} \cap alarm_enabled)
    /\ Goto("cancel_elapsed")
    /\ UNCHANGED <<ioctlVars, left, lockVars, pwronVars, rtcVars, rtc_alarm_time>>

\* The time of the first wakeup alarm in RTC seconds: save_time_delta takes the
\* RTC's full second for now, so the distance is rounded down.
FirstWakeupSwapped ==
    IF /\ "RTC_WAKEUP" \in alarm_enabled
       /\ \/ "ELAPSED_REALTIME_WAKEUP" \notin alarm_enabled
          \/ left["RTC_WAKEUP"] > left["ELAPSED_REALTIME_WAKEUP"]
    THEN left["RTC_WAKEUP"] \div Hz
    ELSE left["ELAPSED_REALTIME_WAKEUP"] \div Hz
FirstWakeup ==
    IF /\ "RTC_WAKEUP" \in alarm_enabled
       /\ \/ "ELAPSED_REALTIME_WAKEUP" \notin alarm_enabled
          \/ left["RTC_WAKEUP"] < left["ELAPSED_REALTIME_WAKEUP"]
    THEN left["RTC_WAKEUP"] \div Hz
    ELSE left["ELAPSED_REALTIME_WAKEUP"] \div Hz

CancelElapsedWakeup ==
    /\ sys = "cancel_elapsed"
    /\ timers' = timers \ ({"ELAPSED_REALTIME_WAKEUP"} \cap alarm_enabled)
    /\ rtc_alarm_time' = IF pwron_alm /\ FirstWakeup > pwron_tm + 2
                         THEN pwron_tm ELSE FirstWakeup
    /\ Goto("set")
    /\ UNCHANGED <<ioctlVars, left, lockVars, pwronVars, rtcVars>>

RtcSetAlarm ==
    /\ sys = "set"
    /\ SetAlarm(rtc_alarm_time)
    /\ Goto("check")
    /\ UNCHANGED <<ioctlVars, timerVars, lockVars, pwronVars, phase, rtc_alarm_time>>

\* "alarm about to go off": -EBUSY, and the timers start again, since
\* alarm_resume is not called for a device that failed to suspend.
AboutToGoOffNoTimers ==
    /\ sys = "check"
    /\ rtc_alarm_time <= 1
    /\ DisableAlarm
    /\ alarm_rtc_wake_lock' = 2 * Hz
    /\ Goto("awake")
    /\ rtc_alarm_time' = 0
    /\ UNCHANGED <<ioctlVars, timerVars, alarm_wake_lock, pwronVars, phase>>
AboutToGoOff ==
    /\ sys = "check"
    /\ rtc_alarm_time <= 1
    /\ DisableAlarm
    /\ alarm_rtc_wake_lock' = 2 * Hz
    /\ timers' = Started(WAKEUP)
    /\ Goto("awake")
    /\ rtc_alarm_time' = 0
    /\ UNCHANGED <<ioctlVars, left, alarm_wake_lock, pwronVars, phase>>

AlarmSuspended ==
    /\ sys = "check"
    /\ rtc_alarm_time > 1
    /\ Goto("late")
    /\ rtc_alarm_time' = 0
    /\ UNCHANGED <<ioctlVars, timerVars, lockVars, pwronVars, rtcVars>>

\* The last check of the wake locks, with interrupts off; a lock, or an error
\* of some other device, sends the path back.
PowerSuspendLate ==
    /\ sys = "late"
    /\ \/ Goto("resuming") /\ UNCHANGED alarm_wake_lock
       \/ /\ alarm_wake_lock <= TimedOut /\ alarm_rtc_wake_lock = 0
          /\ alarm_wake_lock' = Off
          /\ Goto("asleep")
    /\ UNCHANGED <<ioctlVars, timerVars, alarm_rtc_wake_lock, pwronVars, rtcVars,
                   rtc_alarm_time>>

\* A key, the modem: any other wake up.
OtherWakeup ==
    /\ sys = "asleep"
    /\ Goto("resuming")
    /\ UNCHANGED <<ioctlVars, timerVars, lockVars, pwronVars, rtcVars, rtc_alarm_time>>

AlarmResumeNoTimers ==
    /\ sys = "resuming"
    /\ DisableAlarm
    /\ Goto("awake")
    /\ UNCHANGED <<ioctlVars, timerVars, lockVars, pwronVars, phase, rtc_alarm_time>>
AlarmResume ==
    /\ sys = "resuming"
    /\ DisableAlarm
    /\ timers' = Started(WAKEUP)
    /\ Goto("awake")
    /\ UNCHANGED <<ioctlVars, left, lockVars, pwronVars, phase, rtc_alarm_time>>

----------------------------------------------------------------------------
AlarmInit ==
    /\ alarm_enabled = {} /\ alarm_pending = {}
    /\ wait_pending = FALSE
    /\ waiting = {}
    /\ left = [t \in AlarmTypes |-> 0]
    /\ timers = {}
    /\ alarm_wake_lock = Off /\ alarm_rtc_wake_lock = 0
    /\ pwron_alm = FALSE /\ pdn1 = FALSE /\ pwron_tm = Passed
    /\ rtc_alarm = WontMatch
    /\ rtc_irq = FALSE
    /\ phase = 0
    /\ sys = "awake" /\ rtc_alarm_time = 0 /\ since = 0 /\ lapsed = FALSE

Ioctl ==
    \/ \E t \in AlarmTypes : Clear(t) \/ \E n \in Lefts[t] : Set(t, n)
    \/ \E secs \in PowerOnTimes : SetPowerOn(secs)
    \/ ClearPowerOn
    \/ \E th \in Threads : Wait(th) \/ WaitReturns(th) \/ WaitInterrupted(th)
    \/ \E d \in Shifts, ok, rtc_ok \in BOOLEAN : SetRtc(d, ok, rtc_ok)
    \/ Release

SuspendStep ==
    \/ FreezeProcesses \/ Thaw \/ AlarmSuspend
    \/ CancelRtcWakeup \/ CancelElapsedWakeup \/ RtcSetAlarm
    \/ AboutToGoOff \/ AlarmSuspended
    \/ PowerSuspendLate \/ AlarmResume

TimerStep == RtcIrq \/ \E t \in AlarmTypes : AlarmTimerTriggered(t)

AlarmNext == Ioctl \/ SuspendCheck \/ SuspendStep \/ OtherWakeup \/ TimerStep \/ Tick

AlarmSpec == AlarmInit /\ [][AlarmNext]_alarmVars

\* Time passes, interrupts are served, and the suspend path goes on; nothing
\* makes it begin, or the phone wake up but for the RTC.  A timer that is due
\* again and again is served, though suspends may stop it in between.
AlarmFairSpec == /\ AlarmSpec
                 /\ SF_alarmVars(Tick)
                 /\ WF_alarmVars(RtcIrq)
                 /\ \A t \in AlarmTypes : SF_alarmVars(AlarmTimerTriggered(t))
                 /\ WF_alarmVars(SuspendStep)

----------------------------------------------------------------------------
(* Properties. *)

AlarmTypeOK ==
    /\ alarm_enabled \subseteq AlarmTypes
    /\ alarm_pending \subseteq AlarmTypes \cup {TIME_CHANGE}
    /\ wait_pending \in BOOLEAN
    /\ waiting \subseteq Threads
    /\ left \in [AlarmTypes -> 0 .. MaxLeft]
    /\ timers \subseteq AlarmTypes
    /\ alarm_wake_lock \in Off .. AlarmTimeout
    /\ alarm_rtc_wake_lock \in 0 .. 2 * Hz
    /\ pwron_alm \in BOOLEAN /\ pdn1 \in BOOLEAN
    /\ pwron_tm \in Int /\ rtc_alarm \in Nat /\ rtc_alarm_time \in Int
    /\ rtc_irq \in BOOLEAN
    /\ phase \in 0 .. Hz - 1
    /\ since \in 0 .. Hz /\ lapsed \in BOOLEAN
    /\ sys \in {"awake", "checked", "frozen", "cancel_rtc", "cancel_elapsed", "set", "check",
                "late", "asleep", "resuming"}

\* The RTC goes off at the time of an alarm or before.
Covered(t) ==
    rtc_irq \/ (rtc_alarm # WontMatch /\ rtc_alarm * Hz - phase <= left[t])

\* The phone never sleeps past a wakeup alarm if the other devices suspend within
\* a second of alarm_suspend: whenever it is asleep with one enabled, the RTC
\* wakes it at that time or before, whichever alarm is first, however the seconds
\* were rounded and whatever went off on the way down.  (In a slower suspend the
\* RTC may go off on the way down, and its lock of one second run out, before the
\* last check.)
NeverSleepsPast ==
    sys = "asleep" /\ since < Hz => \A t \in alarm_enabled \cap WAKEUP : Covered(t)

\* It sleeps on an alarm that went off and was not collected only if the lock
\* that alarm_suspend found, or one taken after it had looked, ran out before the
\* last check: a lock that ran out earlier is made up for by the check of
\* alarm_pending, and no alarm goes off unseen.
NoSleepWithPending == sys = "asleep" /\ ~ lapsed => alarm_pending = {}

\* While tasks run every enabled alarm has its timer started, whichever way
\* out the last suspend took.
TimersRun == AlarmTypeOK /\ (Awake => alarm_enabled \subseteq timers)

\* alarm_wake_lock is held only for alarms that are pending or being dealt
\* with, so that no sequence of calls leaves it behind for nobody; and it is
\* released, other than by its timeout, only when nothing is pending and the
\* alarms that were collected are acknowledged.
LockForAlarms ==
    [][/\ alarm_wake_lock' # Off => alarm_pending' # {} \/ wait_pending'
       /\ alarm_wake_lock > 1 /\ alarm_wake_lock' <= TimedOut =>
             alarm_pending' = {} /\ ~ wait_pending']_alarmVars

\* An enabled wakeup alarm goes off, unless it is put off for ever (set again,
\* or the clock set back) or the phone sleeps past it after a suspend that took
\* more than a second: no other way through suspend and resume stops it for good.
Settled(t) == <>[][left'[t] <= left[t]]_left
Overslept(t) == sys = "asleep" /\ since = Hz /\ ~ Covered(t)
WakeupsGoOff ==
    \A t \in WAKEUP : Settled(t) => []<>(t \notin alarm_enabled \/ Overslept(t))
=============================================================================
