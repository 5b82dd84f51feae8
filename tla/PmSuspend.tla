----------------------------- MODULE PmSuspend ------------------------------
(***************************************************************************)
(* The suspend path under the suspend work: pm_suspend and enter_state of  *)
(* kernel/power/main.c, the freezer of kernel/power/process.c and the      *)
(* platform operations of arch/arm/mach-mt6516/mtkpm.c, running on the     *)
(* wake lock core of module WakeLock.                                      *)
(*                                                                         *)
(* The path is one thread that takes things down in order and, on success  *)
(* and on every error, brings them back up.  held is the set of the things *)
(* that are down; pm is where the thread is.  Drivers' interrupts run      *)
(* between any two steps except while interrupts are off.                  *)
(*                                                                         *)
(* This build has one CPU, no PM_DEBUG tests, and platform operations that *)
(* never fail and have no recover hook; pm_mutex has no other user that    *)
(* could make the trylock fail.                                            *)
(***************************************************************************)
EXTENDS WakeLock

VARIABLES pm,        \* program counter of the thread inside pm_suspend
          held,      \* what the suspend path has taken down
          requested_suspend_state

pmVars == <<wlVars, pm, held, requested_suspend_state>>

Frozen == {"freezing", "user_frozen", "kernel_frozen"}
Resources == Frozen \cup
    {"console", "notified", "helpers", "platform", "log_console", "devices",
     "platform_prepared", "irqs_off", "powered_down", "sysdevs"}

PmPhases == {"idle", "prepare", "helpers", "freeze_user", "freeze_kernel",
             "memory", "begin", "devices", "late", "enter", "asleep",
             "power_up", "finish", "resume", "thaw", "post", "returned"}

InPmSuspend(phase) == worker = "pm_suspend" /\ pm = phase

Goto(phase) == pm' = phase /\ UNCHANGED requested_suspend_state

\* pm_suspend, enter_state: only "mem" is a sleep state of this platform, and
\* PM_SUSPEND_ON is refused with -EINVAL.
EnterState ==
    /\ InPmSuspend("idle")
    /\ Goto(IF requested_suspend_state = "mem" THEN "prepare" ELSE "returned")
    /\ UNCHANGED <<wlVars, held>>

\* suspend_prepare: the console, then the PM_SUSPEND_PREPARE notifiers.
PrepareNotify ==
    /\ InPmSuspend("prepare")
    /\ held' = held \cup {"console", "notified"}
    /\ Goto("helpers") \/ Goto("post")
    /\ UNCHANGED wlVars

\* usermodehelper_disable, which undoes itself when helpers do not finish.
DisableHelpers ==
    /\ InPmSuspend("helpers")
    /\ \/ Goto("freeze_user") /\ held' = held \cup {"helpers"}
       \/ Goto("post") /\ UNCHANGED held
    /\ UNCHANGED wlVars

\* One round of try_to_freeze_tasks.  With tasks still to freeze, a wake lock
\* aborts, the 20 s limit fails, and otherwise there is another round.
FreezeRound(phase, frozen, next) ==
    /\ InPmSuspend(phase)
    /\ \/ /\ held' = held \cup {"freezing", frozen}
          /\ Goto(next)
          /\ UNCHANGED wlVars
       \/ /\ held' = held \cup {"freezing"}
          /\ \E ret \in Returns(link, left) :
                /\ HasWakeLock(ret)
                /\ \/ Goto("thaw")
                   \/ ret = 0 /\ Goto(phase)
          /\ UNCHANGED <<timerVars, queue, worker, new_event, wait_for_wakeup>>

FreezeUser == FreezeRound("freeze_user", "user_frozen", "freeze_kernel")
FreezeKernel == FreezeRound("freeze_kernel", "kernel_frozen", "memory")

\* The free pages check of suspend_prepare.
FreeMemoryToPost ==
    /\ InPmSuspend("memory")
    /\ Goto("begin") \/ Goto("post")
    /\ UNCHANGED <<wlVars, held>>
FreeMemory ==
    /\ InPmSuspend("memory")
    /\ Goto("begin") \/ Goto("thaw")
    /\ UNCHANGED <<wlVars, held>>

\* suspend_devices_and_enter: suspend_ops->begin, suspend_console.
BeginDevices ==
    /\ InPmSuspend("begin")
    /\ held' = held \cup {"platform", "log_console", "devices"}
    /\ Goto("devices")
    /\ UNCHANGED wlVars

\* device_suspend: on an error some devices are suspended, and all of them are
\* resumed below; on success the platform is prepared.
SuspendDevicesThenThaw ==
    /\ InPmSuspend("devices")
    /\ \/ Goto("late") /\ held' = held \cup {"platform_prepared"}
       \/ Goto("thaw") /\ UNCHANGED held
    /\ UNCHANGED wlVars
SuspendDevices ==
    /\ InPmSuspend("devices")
    /\ \/ Goto("late") /\ held' = held \cup {"platform_prepared"}
       \/ Goto("resume") /\ UNCHANGED held
    /\ UNCHANGED wlVars

\* suspend_enter up to device_power_down: interrupts off, then the suspend_late
\* hooks, among them power_suspend_late.  An error of a hook powers up what was
\* down and turns interrupts on again before anybody else can run.
LateWithoutCheck ==
    /\ InPmSuspend("late")
    /\ \E ret \in Returns(link, left) : HasWakeLock(ret)
    /\ wait_for_wakeup' = TRUE
    /\ Goto("enter")
    /\ held' = held \cup {"irqs_off", "powered_down"}
    /\ UNCHANGED <<timerVars, queue, worker, new_event>>
LateSuspend ==
    /\ InPmSuspend("late")
    /\ \/ \E ret \in Returns(link, left) :
             /\ HasWakeLock(ret)
             /\ wait_for_wakeup' = TRUE
             /\ \/ /\ ret = 0
                   /\ Goto("enter")
                   /\ held' = held \cup {"irqs_off", "powered_down"}
                \/ Goto("finish") /\ UNCHANGED held
             /\ UNCHANGED <<timerVars, queue, worker, new_event>>
       \/ Goto("finish") /\ UNCHANGED <<wlVars, held>>

\* sysdev_suspend and suspend_ops->enter.
EnterSleep ==
    /\ InPmSuspend("enter")
    /\ \/ Goto("asleep") /\ held' = held \cup {"sysdevs"}
       \/ Goto("power_up") /\ UNCHANGED held
    /\ UNCHANGED wlVars

\* The hardware wakes up: suspend_ops->enter returns, sysdev_resume.
WakeUp ==
    /\ InPmSuspend("asleep")
    /\ held' = held \ {"sysdevs"}
    /\ Goto("power_up")
    /\ UNCHANGED wlVars

\* device_power_up, interrupts on.
PowerUp ==
    /\ InPmSuspend("power_up")
    /\ held' = held \ {"irqs_off", "powered_down"}
    /\ Goto("finish")
    /\ UNCHANGED wlVars

FinishPlatform ==
    /\ InPmSuspend("finish")
    /\ held' = held \ {"platform_prepared"}
    /\ Goto("resume")
    /\ UNCHANGED wlVars

\* device_resume, resume_console, suspend_ops->end.
ResumeDevices ==
    /\ InPmSuspend("resume")
    /\ held' = held \ {"devices", "log_console", "platform"}
    /\ Goto("thaw")
    /\ UNCHANGED wlVars

\* suspend_thaw_processes, usermodehelper_enable: in suspend_finish and on the
\* Thaw path of suspend_prepare.
ThawProcesses ==
    /\ InPmSuspend("thaw")
    /\ held' = held \ (Frozen \cup {"helpers"})
    /\ Goto("post")
    /\ UNCHANGED wlVars

\* PM_POST_SUSPEND notifiers, pm_restore_console, mutex_unlock.
PostSuspend ==
    /\ InPmSuspend("post")
    /\ held' = held \ {"notified", "console"}
    /\ Goto("returned")
    /\ UNCHANGED wlVars

ReturnUnchecked ==
    /\ InPmSuspend("returned")
    /\ worker' = "idle"
    /\ UNCHANGED <<lockVars, timerVars, queue, new_event, wait_for_wakeup, held>>
    /\ Goto("idle")
PmSuspendReturn ==
    /\ pm = "returned"
    /\ SuspendReturn
    /\ Goto("idle")
    /\ UNCHANGED held

\* The steps of the thread inside pm_suspend other than the wake up.
PmStep == \/ EnterState \/ PrepareNotify \/ DisableHelpers \/ FreezeUser
          \/ FreezeKernel \/ FreeMemory \/ BeginDevices \/ SuspendDevices
          \/ LateSuspend \/ EnterSleep \/ PowerUp \/ FinishPlatform
          \/ ResumeDevices \/ ThawProcesses \/ PostSuspend \/ PmSuspendReturn

IrqsOn == "irqs_off" \notin held

\* request_suspend_state runs in a user task, early_suspend on the work queue.
RequestOn ==
    /\ "user_frozen" \notin held
    /\ WakeLock(main_wake_lock)
RequestSleep ==
    /\ worker = "idle"
    /\ WakeUnlock(main_wake_lock)

\* Everything that goes on around the suspend path, with interrupts on.
Around ==
    /\ IrqsOn
    /\ \/ DriverStep
       \/ RequestOn
       \/ RequestSleep
       \/ Tick
       \/ TimerDue
       \/ ExpireWakeLocks
       \/ SuspendWork
    /\ UNCHANGED <<pm, held, requested_suspend_state>>

SetRequested ==
    /\ "user_frozen" \notin held
    /\ requested_suspend_state' \in {"on", "mem"}
    /\ UNCHANGED <<wlVars, pm, held>>

PMInit == /\ WLInit
          /\ pm = "idle"
          /\ held = {}
          /\ requested_suspend_state = "mem"

PMNext == PmStep \/ WakeUp \/ Around \/ SetRequested

\* The clock ticks, a due timer is run, and the work queue's thread is a kernel
\* thread that is never frozen.  Inside pm_suspend it does not stay in one phase,
\* since the freezer gives up after 20 s; nothing makes the hardware wake up.
PMFairness == /\ WF_pmVars(PmStep /\ pm' # pm)
              /\ WF_pmVars(Around /\ SuspendWork)
              /\ WF_pmVars(Around /\ Tick)
              /\ WF_pmVars(Around /\ TimerDue)
              /\ WF_pmVars(Around /\ ExpireWakeLocks)

PMSpec == PMInit /\ [][PMNext]_pmVars
PMFairSpec == PMSpec /\ PMFairness

----------------------------------------------------------------------------
(* Properties. *)

PMTypeOK == /\ WLTypeOK
            /\ pm \in PmPhases
            /\ held \subseteq Resources
            /\ requested_suspend_state \in {"on", "mem"}

\* The promise of wakelock.h: the system is never asleep, nor past the last
\* check with interrupts off, while a SUSPEND wake lock is active, whenever the
\* lock was taken on the way down.  Even expired locks are gone by then.
Down == pm \in {"enter", "asleep", "power_up"}
NoSleepWithWakeLock == Down => ActiveLocks(link) = {}

\* On every path, down and up, error or not, nothing is brought back up while
\* something that stands on it is down: devices are only suspended with all
\* tasks frozen, tasks only frozen with user mode helpers off, and so on.
DependsOn == << {"sysdevs"}, {"powered_down", "irqs_off"}, {"platform_prepared"},
                {"devices", "platform", "log_console"}, {"kernel_frozen"},
                {"user_frozen"}, {"helpers"}, {"notified", "console"} >>
TakenDownInOrder ==
    \A i \in 1 .. Len(DependsOn) - 1 :
        held \cap DependsOn[i] # {} => DependsOn[i + 1] \subseteq held

\* pm_suspend leaves nothing down when it returns, whatever failed in it.
AllBroughtBack == pm \in {"idle", "returned"} => held = {}

\* A lock that stays held brings the suspend path back: the thread does not
\* remain in pm_suspend.
HeldLockEndsSuspend ==
    <>[]Infinite(flags, link) => <>[](worker # "pm_suspend")

\* If drivers and user space stop using locks and none is held without a
\* timeout, the system keeps trying to suspend: an expired lock, a failed
\* pm_suspend or a wake up nobody explains is always followed by another try.
Quiet == <>[][~ DriverStep /\ ~ MainStep]_wlVars
KeepsSuspending ==
    Quiet => []<>(worker = "pm_suspend" \/ Infinite(flags, link))
=============================================================================
