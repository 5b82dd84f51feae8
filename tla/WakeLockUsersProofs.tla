------------------------ MODULE WakeLockUsersProofs -------------------------
(***************************************************************************)
(* Proofs about the two components that stand on the wake lock core, on    *)
(* top of those about WakeLock: PmSuspend, then UserWakeLock for any       *)
(* names, timeouts and widths.  Neither half uses the other.               *)
(***************************************************************************)
EXTENDS PmSuspend, UserWakeLock, WakeLockProofs

----------------------------------------------------------------------------
(* The suspend path only does to the wake locks what WakeLock lets an       *)
(* arbitrary pm_suspend do.                                                 *)

\* Each step of the thread inside pm_suspend is one that WakeLock allows it.
LEMMA PmStepIsWLStep == PmStep => [WLNext]_wlVars
<1>. SUFFICES ASSUME PmStep PROVE [WLNext]_wlVars
  OBVIOUS
<1>1. CASE FreezeUser \/ FreezeKernel
  <2>1. PICK phase, frozen, next : FreezeRound(phase, frozen, next)
    BY <1>1 DEF FreezeUser, FreezeKernel
  <2>2. FreezerCheck \/ UNCHANGED wlVars
    BY <2>1 DEF FreezeRound, FreezerCheck, InPmSuspend
  <2>. QED
    BY <2>2 DEF WLNext
<1>2. CASE LateSuspend
  <2>1. PowerSuspendLate \/ UNCHANGED wlVars
    BY <1>2 DEF LateSuspend, PowerSuspendLate, InPmSuspend
  <2>. QED
    BY <2>1 DEF WLNext
<1>3. CASE PmSuspendReturn
  BY <1>3 DEF PmSuspendReturn, WLNext
<1>4. CASE \/ EnterState \/ PrepareNotify \/ DisableHelpers \/ FreeMemory
           \/ BeginDevices \/ SuspendDevices \/ EnterSleep \/ PowerUp
           \/ FinishPlatform \/ ResumeDevices \/ ThawProcesses \/ PostSuspend
  <2>1. UNCHANGED wlVars
    BY <1>4 DEF EnterState, PrepareNotify, DisableHelpers, FreeMemory, BeginDevices,
                SuspendDevices, EnterSleep, PowerUp, FinishPlatform, ResumeDevices,
                ThawProcesses, PostSuspend
  <2>. QED
    BY <2>1
<1>. QED
  BY <1>1, <1>2, <1>3, <1>4 DEF PmStep

\* So is everything that goes on around it.
LEMMA PMStepIsWLStep == [PMNext]_pmVars => [WLNext]_wlVars
<1>1. Around => WLNext
  BY DEF Around, RequestOn, RequestSleep, WLNext, MainStep
<1>2. WakeUp \/ SetRequested => UNCHANGED wlVars
  BY DEF WakeUp, SetRequested
<1>3. UNCHANGED pmVars => UNCHANGED wlVars
  BY DEF pmVars
<1>. QED
  BY <1>1, <1>2, <1>3, PmStepIsWLStep DEF PMNext

\* The suspend path of main.c and process.c implements the wake lock core's
\* specification, in which pm_suspend may check the locks at any time.
THEOREM PmSuspendImplementsWakeLock == PMSpec => WLSpec
<1>1. PMInit => WLInit
  BY DEF PMInit
<1>. QED
  BY <1>1, PMStepIsWLStep, PTL DEF PMSpec, WLSpec

----------------------------------------------------------------------------
(* No sleep with a wake lock.  Once power_suspend_late has found no lock,   *)
(* interrupts stay off until the thread has left the Down phases, so nobody *)
(* else takes a step.                                                       *)

NoSleepInv == Down => /\ ActiveLocks(link) = {}
                      /\ "irqs_off" \in held
                      /\ worker = "pm_suspend"

\* After has_wake_lock has returned 0 the active list is empty.
LEMMA EmptyAfterCheck ==
    ASSUME WLTypeOK, HasWakeLock(0)
    PROVE  ActiveLocks(link)' = {}
<1>1. /\ link' = SweptLinks(flags, link, left)
      /\ type' = type
      /\ HasWakeLockLocked(0, flags, link, left)
  BY DEF HasWakeLock
<1>2. /\ ~ Infinite(flags, link)
      /\ \A l \in ActiveLocks(link) : left[l] <= 0
  BY <1>1 DEF HasWakeLockLocked
<1>3. \A l \in ActiveLocks(link) : l \in Locks /\ left[l] = 0
  <2>. SUFFICES ASSUME NEW l \in ActiveLocks(link)
                PROVE  l \in Locks /\ left[l] = 0
    OBVIOUS
  <2>1. l \in Locks
    BY DEF ActiveLocks
  <2>2. left[l] \in Nat
    BY <2>1 DEF WLTypeOK
  <2>. QED
    BY <1>2, <2>1, <2>2
<1>4. ActiveLocks(link) \subseteq Swept(flags, link, left)
  BY <1>2, <1>3 DEF Swept
<1>5. \A l \in Locks : l \in ActiveLocks(link) => link'[l] = "inactive"
  BY <1>1, <1>4 DEF SweptLinks
<1>6. \A l \in Locks : l \notin ActiveLocks(link) => l \notin ActiveLocks(link)'
  <2>1. \A l \in Locks : l \notin ActiveLocks(link) => link'[l] = link[l]
    BY <1>1 DEF SweptLinks, Swept
  <2>. QED
    BY <1>1, <2>1 DEF ActiveLocks
<1>. QED
  BY <1>5, <1>6 DEF ActiveLocks

\* Every step keeps the list empty while the thread is down.
LEMMA NoSleepStep ==
    ASSUME WLTypeOK, NoSleepInv, [PMNext]_pmVars
    PROVE  NoSleepInv'
<1>. USE DEF Down, NoSleepInv
<1>1. CASE LateSuspend
  <2>1. CASE pm' = "enter"
    <3>1. PICK ret \in Returns(link, left) :
             /\ HasWakeLock(ret) /\ ret = 0
             /\ held' = held \cup {"irqs_off", "powered_down"}
             /\ worker' = worker
      BY <1>1, <2>1 DEF LateSuspend, Goto
    <3>2. worker' = "pm_suspend"
      BY <1>1, <3>1 DEF LateSuspend, InPmSuspend
    <3>. QED
      BY <3>1, <3>2, EmptyAfterCheck
  <2>2. CASE pm' = "finish"
    BY <2>2
  <2>. QED
    BY <1>1, <2>1, <2>2 DEF LateSuspend, Goto
<1>2. CASE EnterSleep
  <2>1. UNCHANGED <<link, type, worker>>
    BY <1>2 DEF EnterSleep, wlVars, lockVars
  <2>2. ActiveLocks(link)' = ActiveLocks(link)
    BY <2>1 DEF ActiveLocks
  <2>. QED
    BY <1>2, <2>1, <2>2 DEF EnterSleep, InPmSuspend
<1>3. CASE WakeUp
  <2>1. UNCHANGED <<link, type, worker>>
    BY <1>3 DEF WakeUp, wlVars, lockVars
  <2>2. ActiveLocks(link)' = ActiveLocks(link)
    BY <2>1 DEF ActiveLocks
  <2>. QED
    BY <1>3, <2>1, <2>2 DEF WakeUp, InPmSuspend
<1>4. CASE Around
  <2>1. ~ Down /\ pm' = pm
    BY <1>4 DEF Around, IrqsOn
  <2>. QED
    BY <2>1
<1>5. CASE SetRequested \/ UNCHANGED pmVars
  <2>1. UNCHANGED <<link, type, worker, pm, held>>
    BY <1>5 DEF SetRequested, pmVars, wlVars, lockVars
  <2>2. ActiveLocks(link)' = ActiveLocks(link)
    BY <2>1 DEF ActiveLocks
  <2>. QED
    BY <2>1, <2>2
<1>6. CASE FreezeUser \/ FreezeKernel
  <2>1. pm' \in {"freeze_user", "freeze_kernel", "memory", "thaw"}
    BY <1>6 DEF FreezeUser, FreezeKernel, FreezeRound, Goto
  <2>. QED
    BY <2>1
<1>7. CASE \/ EnterState \/ PrepareNotify \/ DisableHelpers \/ FreeMemory
           \/ BeginDevices \/ SuspendDevices \/ PowerUp \/ FinishPlatform
           \/ ResumeDevices \/ ThawProcesses \/ PostSuspend \/ PmSuspendReturn
  <2>1. pm' \notin {"enter", "asleep", "power_up"}
    BY <1>7 DEF EnterState, PrepareNotify, DisableHelpers, FreeMemory, BeginDevices,
                SuspendDevices, PowerUp, FinishPlatform, ResumeDevices,
                ThawProcesses, PostSuspend, PmSuspendReturn, Goto
  <2>. QED
    BY <2>1
<1>. QED
  BY <1>1, <1>2, <1>3, <1>4, <1>5, <1>6, <1>7 DEF PMNext, PmStep

\* Whatever the drivers do, and wherever on the way down a lock is taken, the
\* system is not put to sleep while a SUSPEND wake lock is active.
THEOREM NeverAsleepWithWakeLock == PMSpec => []NoSleepWithWakeLock
<1>1. PMInit => NoSleepInv /\ WLTypeOK
  BY InitTypes DEF PMInit, NoSleepInv, Down
<1>2. NoSleepInv /\ WLTypeOK /\ [PMNext]_pmVars => (NoSleepInv /\ WLTypeOK)'
  BY NoSleepStep, TypeStep, PMStepIsWLStep
<1>3. NoSleepInv => NoSleepWithWakeLock
  BY DEF NoSleepInv, NoSleepWithWakeLock
<1>. QED
  BY <1>1, <1>2, <1>3, PTL DEF PMSpec

----------------------------------------------------------------------------
(* Every path brings everything back.  What is down is a function of where  *)
(* the thread is, but for the freezer, which may have frozen all, some or   *)
(* no tasks when it gives up.                                               *)

Prepared == {"console", "notified"}
HelpersOff == Prepared \cup {"helpers"}
AllFrozen == HelpersOff \cup Frozen
Begun == AllFrozen \cup {"platform", "log_console", "devices"}
Ready == Begun \cup {"platform_prepared"}
PoweredDown == Ready \cup {"irqs_off", "powered_down"}

PhaseInv ==
    /\ pm \in PmPhases
    /\ pm \in {"idle", "prepare", "returned"} => held = {}
    /\ pm \in {"helpers", "post"} => held = Prepared
    /\ pm = "freeze_user" =>
          /\ HelpersOff \subseteq held
          /\ held \subseteq HelpersOff \cup {"freezing"}
    /\ pm = "freeze_kernel" => held = HelpersOff \cup {"freezing", "user_frozen"}
    /\ pm \in {"memory", "begin"} => held = AllFrozen
    /\ pm \in {"devices", "resume"} => held = Begun
    /\ pm \in {"late", "finish"} => held = Ready
    /\ pm \in {"enter", "power_up"} => held = PoweredDown
    /\ pm = "asleep" => held = PoweredDown \cup {"sysdevs"}
    /\ pm = "thaw" =>
          /\ HelpersOff \subseteq held
          /\ held \subseteq AllFrozen
          /\ "kernel_frozen" \in held => "user_frozen" \in held

\* Every step of the path moves held along with the phase.
LEMMA PhaseStep ==
    ASSUME PhaseInv, [PMNext]_pmVars
    PROVE  PhaseInv'
<1>. USE DEF PhaseInv, Goto, InPmSuspend, Prepared, HelpersOff, AllFrozen, Begun,
             Ready, PoweredDown, Frozen, PmPhases
<1>1. CASE EnterState \/ PrepareNotify \/ DisableHelpers
  BY <1>1 DEF EnterState, PrepareNotify, DisableHelpers
<1>2. CASE FreezeUser
  BY <1>2 DEF FreezeUser, FreezeRound
<1>3. CASE FreezeKernel
  BY <1>3 DEF FreezeKernel, FreezeRound
<1>4. CASE FreeMemory \/ BeginDevices \/ SuspendDevices
  BY <1>4 DEF FreeMemory, BeginDevices, SuspendDevices
<1>5. CASE LateSuspend
  BY <1>5 DEF LateSuspend
<1>6. CASE EnterSleep \/ WakeUp \/ PowerUp
  BY <1>6 DEF EnterSleep, WakeUp, PowerUp
<1>7. CASE FinishPlatform \/ ResumeDevices
  BY <1>7 DEF FinishPlatform, ResumeDevices
<1>8. CASE ThawProcesses
  BY <1>8 DEF ThawProcesses
<1>9. CASE PostSuspend \/ PmSuspendReturn
  BY <1>9 DEF PostSuspend, PmSuspendReturn
<1>10. CASE Around \/ SetRequested \/ UNCHANGED pmVars
  <2>1. UNCHANGED <<pm, held>>
    BY <1>10 DEF Around, SetRequested, pmVars
  <2>. QED
    BY <2>1
<1>. QED
  BY <1>1, <1>2, <1>3, <1>4, <1>5, <1>6, <1>7, <1>8, <1>9, <1>10 DEF PMNext, PmStep

\* The sets that belong to the phases respect the order of taking down.
LEMMA PhaseOrder == PhaseInv => TakenDownInOrder
<1>. SUFFICES ASSUME PhaseInv PROVE TakenDownInOrder
  OBVIOUS
<1>1. /\ held \cap {"sysdevs"} # {} => {"powered_down", "irqs_off"} \subseteq held
      /\ held \cap {"powered_down", "irqs_off"} # {} => {"platform_prepared"} \subseteq held
      /\ held \cap {"platform_prepared"} # {} =>
            {"devices", "platform", "log_console"} \subseteq held
      /\ held \cap {"devices", "platform", "log_console"} # {} =>
            {"kernel_frozen"} \subseteq held
      /\ held \cap {"kernel_frozen"} # {} => {"user_frozen"} \subseteq held
      /\ held \cap {"user_frozen"} # {} => {"helpers"} \subseteq held
      /\ held \cap {"helpers"} # {} => {"notified", "console"} \subseteq held
  BY DEF PhaseInv, PmPhases, Prepared, HelpersOff, AllFrozen, Begun, Ready,
         PoweredDown, Frozen
<1>2. /\ Len(DependsOn) = 8
      /\ DependsOn[1] = {"sysdevs"}
      /\ DependsOn[2] = {"powered_down", "irqs_off"}
      /\ DependsOn[3] = {"platform_prepared"}
      /\ DependsOn[4] = {"devices", "platform", "log_console"}
      /\ DependsOn[5] = {"kernel_frozen"}
      /\ DependsOn[6] = {"user_frozen"}
      /\ DependsOn[7] = {"helpers"}
      /\ DependsOn[8] = {"notified", "console"}
  BY DEF DependsOn
<1>3. SUFFICES ASSUME NEW i \in 1 .. 7
               PROVE  held \cap DependsOn[i] # {} => DependsOn[i + 1] \subseteq held
  BY <1>2 DEF TakenDownInOrder
<1>4. i = 1 \/ i = 2 \/ i = 3 \/ i = 4 \/ i = 5 \/ i = 6 \/ i = 7
  OBVIOUS
<1>. QED
  BY <1>1, <1>2, <1>4

\* The phase is known in every state, for any locks and timeouts.
LEMMA PhaseAlways == PMSpec => []PhaseInv
<1>1. PMInit => PhaseInv
  BY DEF PMInit, PhaseInv, PmPhases
<1>. QED
  BY <1>1, PhaseStep, PTL DEF PMSpec

\* Nothing comes back up under something that stands on it, on success and on
\* every error path of suspend_prepare, suspend_devices_and_enter and
\* suspend_enter.
THEOREM SuspendPathOrdered == PMSpec => []TakenDownInOrder
BY PhaseAlways, PhaseOrder, PTL

\* pm_suspend brings back whatever it took down before it returns, on the same
\* paths.
THEOREM SuspendPathBalanced == PMSpec => []AllBroughtBack
<1>1. PhaseInv => AllBroughtBack
  BY DEF PhaseInv, AllBroughtBack
<1>. QED
  BY <1>1, PhaseAlways, PTL

\* The wake lock core keeps its types under the suspend path, and the path its
\* own.
THEOREM PMTypeCorrect == PMSpec => []PMTypeOK
<1>. DEFINE Requested == requested_suspend_state \in {"on", "mem"}
<1>1. PMInit => Requested
  BY DEF PMInit
<1>2. Requested /\ [PMNext]_pmVars => Requested'
  <2>. SUFFICES ASSUME Requested, [PMNext]_pmVars PROVE Requested'
    OBVIOUS
  <2>1. CASE SetRequested
    BY <2>1 DEF SetRequested
  <2>2. CASE PmStep \/ WakeUp \/ Around \/ UNCHANGED pmVars
    <3>1. UNCHANGED requested_suspend_state
      BY <2>2 DEF PmStep, Around, pmVars, Goto, EnterState, PrepareNotify, DisableHelpers,
                  FreezeUser, FreezeKernel, FreezeRound, FreeMemory, BeginDevices,
                  SuspendDevices, LateSuspend, EnterSleep, WakeUp, PowerUp, FinishPlatform,
                  ResumeDevices, ThawProcesses, PostSuspend, PmSuspendReturn
    <3>. QED
      BY <3>1
  <2>. QED
    BY <2>1, <2>2 DEF PMNext
<1>3. PhaseInv => pm \in PmPhases /\ held \subseteq Resources
  BY DEF PhaseInv, PmPhases, Resources, Prepared, HelpersOff, AllFrozen, Begun, Ready,
         PoweredDown, Frozen
<1>4. WLTypeOK /\ PhaseInv /\ Requested => PMTypeOK
  BY <1>3 DEF PMTypeOK
<1>. QED
  BY <1>1, <1>2, <1>4, PhaseAlways, WLTypeCorrect, PmSuspendImplementsWakeLock, PTL DEF PMSpec

----------------------------------------------------------------------------
(* The user space interface uses the core as a driver does. *)

\* The call that is past its lookup stores what the lookup returned.
StoringOK ==
    storing # Nobody => /\ storing.name \in Names
                        /\ storing.ns \in NsTimeouts \cup {Forever}
                        /\ storing.timeout = Jiffies(storing.ns)

\* Nothing but the two halves of wake_lock_store touches it.
LEMMA StoringStep == StoringOK /\ [UWNext]_uwVars => StoringOK'
BY DEF StoringOK, UWNext, UserStep, LookupOrAllocate, WakeLockStore, WakeUnlockStore,
       UserTick, KernelStep, uwVars, userVars

\* Every step of user space is one the core allows the owner of a lock.
LEMMA UserStepIsCoreStep == StoringOK /\ [UWNext]_uwVars => [WLNext]_wlVars
<1>. SUFFICES ASSUME StoringOK, [UWNext]_uwVars
              PROVE  [WLNext]_wlVars
  OBVIOUS
<1>1. ASSUME NEW n \in Drivers, OwnerStep(n)
      PROVE  WLNext
  BY <1>1 DEF WLNext, DriverStep
<1>2. Names \subseteq Drivers
  BY UserAssumption
<1>3. ASSUME NEW n \in Names, NEW ns \in NsTimeouts \cup {Forever}, LookupOrAllocate(n, ns)
      PROVE  [WLNext]_wlVars
  <2>1. CASE Initialized(n)
    BY <1>3, <2>1 DEF LookupOrAllocate
  <2>2. CASE ~ Initialized(n)
    <3>1. WakeLockInit(n, "SUSPEND") /\ "SUSPEND" \in LockTypes
      BY <1>3, <2>2 DEF LookupOrAllocate, LockTypes
    <3>2. OwnerStep(n)
      BY <3>1 DEF OwnerStep
    <3>. QED
      BY <1>1, <1>2, <3>2
  <2>. QED
    BY <2>1, <2>2
<1>4. ASSUME WakeLockStore
      PROVE  WLNext
  <2>1. storing # Nobody
    BY <1>4 DEF WakeLockStore
  <2>2. /\ storing.name \in Names
        /\ storing.ns \in NsTimeouts \cup {Forever}
        /\ storing.timeout = Jiffies(storing.ns)
    BY <2>1 DEF StoringOK
  <2>3. storing.timeout # 0 => storing.timeout \in Timeouts
    BY <2>2, UserTimeoutsAssumption DEF Jiffies
  <2>4. \/ storing.timeout # 0 /\ WakeLockTimeout(storing.name, storing.timeout)
        \/ WakeLock(storing.name)
    BY <1>4 DEF WakeLockStore
  <2>5. OwnerStep(storing.name)
    BY <2>3, <2>4 DEF OwnerStep
  <2>. QED
    BY <1>1, <1>2, <2>2, <2>5
<1>5. ASSUME NEW n \in Names, WakeUnlockStore(n)
      PROVE  WLNext
  <2>1. OwnerStep(n)
    BY <1>5 DEF WakeUnlockStore, OwnerStep
  <2>. QED
    BY <1>1, <1>2, <2>1
<1>6. ASSUME UserTick
      PROVE  WLNext
  BY <1>6 DEF UserTick, WLNext
<1>7. ASSUME KernelStep
      PROVE  WLNext
  BY <1>7 DEF KernelStep, WLNext, DriverStep
<1>8. CASE UNCHANGED uwVars
  BY <1>8 DEF uwVars
<1>. QED
  BY <1>3, <1>4, <1>5, <1>6, <1>7, <1>8 DEF UWNext, UserStep

\* userwakelock.c on the core is a use of the core: all that is proved of the
\* core holds with user space's locks among the others.
THEOREM UserImplementsWakeLock == UWSpec => WLSpec
<1>1. UWInit => WLInit /\ StoringOK
  BY DEF UWInit, StoringOK
<1>. QED
  BY <1>1, StoringStep, UserStepIsCoreStep, PTL DEF UWSpec, WLSpec

----------------------------------------------------------------------------
(* The conversion of nanoseconds to jiffies. *)

\* Whole jiffies order as the nanoseconds they last.
LEMMA JiffiesOrder ==
    ASSUME NEW a \in Int, NEW b \in Int, NEW w \in Nat \ {0}
    PROVE  /\ a * w < b * w => a < b
           /\ a * w <= b * w => a <= b
<1>1. ASSUME a >= b PROVE a * w >= b * w
  <2>1. (a - b) * w >= 0
    BY <1>1
  <2>. QED
    BY <2>1
<1>2. ASSUME a > b PROVE a * w > b * w
  <2>1. (a - b) * w > 0
    BY <1>2
  <2>. QED
    BY <2>1
<1>. QED
  BY <1>1, <1>2

\* The quotient and its rest.
LEMMA Quotient ==
    ASSUME NEW x \in Nat, NEW w \in Nat \ {0}
    PROVE  /\ x \div w \in Nat
           /\ (x \div w) * w <= x
           /\ x < (x \div w) * w + w
<1>1. x = w * (x \div w) + (x % w) /\ x % w \in 0 .. w - 1 /\ x \div w \in Int
  OBVIOUS
<1>2. (x \div w) * w = w * (x \div w)
  BY <1>1
<1>3. x \div w >= 0
  OBVIOUS
<1>. QED
  BY <1>1, <1>2, <1>3

\* The marks for no timeout and no request are no nanoseconds.
LEMMA NsTypes ==
    ASSUME NEW ns \in NsTimeouts
    PROVE  ns \in Nat /\ ns # Forever /\ ns # NotAsked
<1>1. ns \in 0 .. U64 - 1 /\ U64 \in Nat
  BY UserAssumption
<1>. QED
  BY <1>1 DEF Forever, NotAsked

\* lookup_wake_lock_name rounds a timeout that fits up to whole jiffies, and
\* takes at least one.
LEMMA RoundedUp ==
    ASSUME NEW ns \in NsTimeouts, Fits(ns)
    PROVE  /\ Jiffies(ns) \in Nat \ {0}
           /\ ns <= Jiffies(ns) * NSEC_PER_JIFFY
           /\ Jiffies(ns) = 1 \/ (Jiffies(ns) - 1) * NSEC_PER_JIFFY < ns
           /\ Jiffies(ns) <= MaxAge
<1>. DEFINE w == NSEC_PER_JIFFY
            x == ns + w - 1
            t == x \div w
            j == IF t <= 0 THEN 1 ELSE t
<1>1. /\ ns \in Nat /\ w \in Nat \ {0} /\ x \in Nat /\ x < U64
      /\ U64 \in Nat \ {0} /\ LONG \in Nat /\ LONG > 2
      /\ MaxAge \in Nat
      /\ t < LONG \div 2
      /\ ns < MaxAge * w
  BY UserAssumption, UserTimeoutsAssumption DEF Fits
<1>2. t \in Nat /\ t * w <= x /\ x < t * w + w
  BY <1>1, Quotient
<1>3. x % U64 = x
  BY <1>1
<1>4. ns # Forever
  BY <1>1 DEF Forever
<1>5. Jiffies(ns) = ToLong(j)
  BY <1>3, <1>4 DEF Jiffies
<1>. HIDE DEF t
<1>6. j \in Nat \ {0} /\ j < (LONG + 1) \div 2 /\ j < LONG
  BY <1>1, <1>2
<1>7. ToLong(j) = j
  <2>1. j % LONG = j
    BY <1>1, <1>6
  <2>. QED
    BY <1>6, <2>1 DEF ToLong
<1>8. ns <= j * w /\ (j = 1 \/ (j - 1) * w < ns)
  <2>1. CASE t = 0
    BY <1>1, <1>2, <2>1
  <2>2. CASE t > 0
    <3>1. j = t /\ (j - 1) * w = t * w - w
      BY <1>1, <1>2, <2>2
    <3>. QED
      BY <1>1, <1>2, <3>1
  <2>. QED
    BY <1>2, <2>1, <2>2
<1>. HIDE DEF j
<1>9. j <= MaxAge
  <2>1. CASE j = 1
    <3>1. 0 * w < MaxAge * w
      BY <1>1
    <3>2. 0 < MaxAge
      BY <1>1, <3>1, JiffiesOrder
    <3>. QED
      BY <1>1, <2>1, <3>2
  <2>2. CASE (j - 1) * w < ns
    <3>1. (j - 1) * w < MaxAge * w
      BY <1>1, <1>6, <2>2
    <3>2. j - 1 < MaxAge
      BY <1>1, <1>6, <3>1, JiffiesOrder
    <3>. QED
      BY <1>1, <1>6, <3>2
  <2>. QED
    BY <1>8, <2>1, <2>2
<1>. QED
  BY <1>5, <1>6, <1>7, <1>8, <1>9

----------------------------------------------------------------------------
(* What others do to a lock.  A walk of the list by somebody else may drop   *)
(* it if its time is up, and changes nothing else about it.                  *)

Timed(f, l) == "AUTO_EXPIRE" \in f[l]

Undisturbed(l) ==
    /\ left'[l] = left[l]
    /\ \/ link'[l] = link[l] /\ (Timed(flags', l) <=> Timed(flags, l))
       \/ Expired(flags, left, l) /\ link'[l] = "inactive"

\* A walk on what an operation left of the lock l.
LEMMA WalkUndisturbs ==
    ASSUME NEW f \in [Locks -> SUBSET Flags],
           NEW k \in [Locks -> {"none", "inactive", "active"}],
           NEW t \in [Locks -> Nat], NEW l \in Locks
    PROVE  \/ /\ SweptLinks(f, k, t)[l] = k[l]
              /\ Timed(SweptFlags(f, k, t), l) <=> Timed(f, l)
           \/ Expired(f, t, l) /\ SweptLinks(f, k, t)[l] = "inactive"
<1>1. CASE l \in Swept(f, k, t)
  <2>1. Expired(f, t, l)
    BY <1>1 DEF Swept, Infinite, Expired
  <2>. QED
    BY <1>1, <2>1 DEF SweptLinks
<1>2. CASE l \notin Swept(f, k, t)
  BY <1>2 DEF SweptLinks, SweptFlags, Timed
<1>. QED
  BY <1>1, <1>2

\* wake_lock_internal on a lock: what it does to the others and to the lock.
LEMMA InternalUndisturbs ==
    ASSUME WLTypeOK, NEW x \in Locks, NEW timeout \in Int, NEW has_timeout \in BOOLEAN,
           WakeLockInternal(x, timeout, has_timeout)
    PROVE  /\ \A l \in Locks \ {x} : Undisturbed(l)
           /\ type[x] = "SUSPEND" /\ has_timeout /\ timeout > 0 =>
                 link'[x] = "active" /\ Timed(flags', x) /\ left'[x] = timeout
           /\ type[x] = "SUSPEND" /\ ~ has_timeout =>
                 link'[x] = "active" /\ ~ Timed(flags', x)
<1>. DEFINE f1 == [flags EXCEPT ![x] = TakenFlags(x, has_timeout)]
            k1 == [link EXCEPT ![x] = "active"]
            t1 == [left EXCEPT ![x] = IF has_timeout /\ timeout > 0
                                      THEN timeout ELSE 0]
            f2 == IF x = main_wake_lock
                  THEN UpdateSleepWaitStats(TRUE, f1, k1, t1)
                  ELSE IF "ACTIVE" \notin f1[main_wake_lock]
                  THEN UpdateSleepWaitStats(FALSE, f1, k1, t1)
                  ELSE f1
<1>1. /\ f1 \in [Locks -> SUBSET Flags]
      /\ k1 \in [Locks -> {"none", "inactive", "active"}]
      /\ t1 \in [Locks -> Nat]
      /\ \A y \in Locks \ {x} : f1[y] = flags[y] /\ t1[y] = left[y] /\ k1[y] = link[y]
      /\ k1[x] = "active"
      /\ has_timeout /\ timeout > 0 => t1[x] = timeout
      /\ Timed(f1, x) <=> has_timeout
  <2>1. TakenFlags(x, has_timeout) \in SUBSET Flags
    BY DEF TakenFlags, WLTypeOK, Flags
  <2>2. "AUTO_EXPIRE" \in TakenFlags(x, has_timeout) <=> has_timeout
    BY DEF TakenFlags
  <2>. QED
    BY <2>1, <2>2 DEF WLTypeOK, Timed
<1>2. /\ left' = t1
      /\ \/ type[x] # "SUSPEND" /\ flags' = f1 /\ link' = k1
         \/ ~ has_timeout /\ flags' = f2 /\ link' = k1
         \/ /\ has_timeout
            /\ flags' = SweptFlags(f2, k1, t1)
            /\ link' = SweptLinks(f2, k1, t1)
  BY DEF WakeLockInternal
<1>. HIDE DEF f1, k1, t1
<1>3. /\ f2 \in [Locks -> SUBSET Flags]
      /\ \A l \in Locks : Timed(f2, l) <=> Timed(f1, l)
  <2>1. \/ f2 = f1
        \/ \E done \in BOOLEAN : f2 = UpdateSleepWaitStats(done, f1, k1, t1)
    BY Zenon
  <2>. HIDE DEF f2
  <2>. QED
    BY <1>1, <2>1, UpdateTypes, UpdateFacts DEF Timed
<1>. HIDE DEF f2
<1>4. CASE flags' = f1 /\ link' = k1 /\ type[x] # "SUSPEND"
  BY <1>1, <1>2, <1>4 DEF Undisturbed, Timed
<1>5. CASE ~ has_timeout /\ flags' = f2 /\ link' = k1
  BY <1>1, <1>2, <1>3, <1>5 DEF Undisturbed, Timed
<1>6. CASE /\ has_timeout
           /\ flags' = SweptFlags(f2, k1, t1)
           /\ link' = SweptLinks(f2, k1, t1)
  <2>1. \A l \in Locks : \/ link'[l] = k1[l] /\ (Timed(flags', l) <=> Timed(f2, l))
                         \/ Expired(f2, t1, l) /\ link'[l] = "inactive"
    BY <1>1, <1>3, <1>6, WalkUndisturbs
  <2>2. ASSUME NEW l \in Locks \ {x} PROVE Undisturbed(l)
    BY <1>1, <1>2, <1>3, <2>1, <2>2 DEF Undisturbed, Timed, Expired
  <2>3. timeout > 0 => link'[x] = "active" /\ Timed(flags', x) /\ left'[x] = timeout
    BY <1>1, <1>2, <1>3, <1>6, <2>1 DEF Expired
  <2>. QED
    BY <1>6, <2>2, <2>3
<1>. QED
  BY <1>2, <1>4, <1>5, <1>6

\* wake_unlock of another lock.
LEMMA UnlockUndisturbs ==
    ASSUME WLTypeOK, NEW x \in Locks, WakeUnlock(x), NEW l \in Locks \ {x}
    PROVE  Undisturbed(l)
<1>. DEFINE f1 == [flags EXCEPT ![x] =
                      @ \ {"ACTIVE", "AUTO_EXPIRE", "PREVENTING_SUSPEND"}]
            k1 == [link EXCEPT ![x] = "inactive"]
            t1 == [left EXCEPT ![x] = 0]
            f2 == SweptFlags(f1, k1, t1)
            k2 == SweptLinks(f1, k1, t1)
<1>1. /\ f1 \in [Locks -> SUBSET Flags]
      /\ k1 \in [Locks -> {"none", "inactive", "active"}]
      /\ t1 \in [Locks -> Nat]
      /\ f1[l] = flags[l] /\ t1[l] = left[l] /\ k1[l] = link[l]
  BY DEF WLTypeOK
<1>2. /\ left' = t1
      /\ \/ flags' = f1 /\ link' = k1
         \/ /\ flags' = UpdateSleepWaitStats(FALSE, f2, k2, t1) \/ flags' = f2
            /\ link' = k2
  BY DEF WakeUnlock
<1>. HIDE DEF f1, k1, t1
<1>3. f2 \in [Locks -> SUBSET Flags]
  BY <1>1, SweptTypes
<1>4. \/ k2[l] = k1[l] /\ (Timed(f2, l) <=> Timed(f1, l))
      \/ Expired(f1, t1, l) /\ k2[l] = "inactive"
  BY <1>1, WalkUndisturbs
<1>. HIDE DEF f2, k2
<1>5. Timed(UpdateSleepWaitStats(FALSE, f2, k2, t1), l) <=> Timed(f2, l)
  <2>1. PICK no \in BOOLEAN : UpdateSleepWaitStats(FALSE, f2, k2, t1)
                                = UpdateSleepWaitStats(no, f2, k2, t1)
    BY Zenon
  <2>. QED
    BY <1>3, <2>1, UpdateFacts DEF Timed
<1>6. CASE flags' = f1 /\ link' = k1
  BY <1>1, <1>2, <1>6 DEF Undisturbed, Timed
<1>7. CASE /\ flags' = UpdateSleepWaitStats(FALSE, f2, k2, t1) \/ flags' = f2
           /\ link' = k2
  <2>1. Timed(flags', l) <=> Timed(f2, l)
    BY <1>5, <1>7
  <2>. QED
    BY <1>1, <1>2, <1>4, <1>7, <2>1 DEF Undisturbed, Timed, Expired
<1>. QED
  BY <1>2, <1>6, <1>7

\* Drivers, the main lock, the timer and the suspend work leave a lock of user
\* space alone.
LEMMA KernelUndisturbs ==
    ASSUME WLTypeOK, KernelStep, NEW n \in Names
    PROVE  Undisturbed(n) /\ type'[n] = type[n]
<1>0. /\ n \in Locks /\ n # main_wake_lock /\ n # unknown_wakeup
      /\ main_wake_lock \in Locks /\ unknown_wakeup \in Locks
      /\ HalfSecond \in Int
  BY UserAssumption, LocksAssumption, TimeoutAssumption DEF Drivers
<1>1. ASSUME NEW l \in Locks \ {n}, NEW ty \in LockTypes, WakeLockInit(l, ty)
      PROVE  Undisturbed(n) /\ type'[n] = type[n]
  BY <1>0, <1>1 DEF WakeLockInit, WLTypeOK, Undisturbed, Timed
<1>2. ASSUME NEW l \in Locks \ {n}, WakeLockDestroy(l)
      PROVE  Undisturbed(n) /\ type'[n] = type[n]
  BY <1>0, <1>2 DEF WakeLockDestroy, WLTypeOK, Undisturbed, Timed
<1>3. ASSUME NEW l \in Locks \ {n}, NEW timeout \in Int, NEW has \in BOOLEAN,
             WakeLockInternal(l, timeout, has)
      PROVE  Undisturbed(n) /\ type'[n] = type[n]
  <2>1. type' = type
    BY <1>3 DEF WakeLockInternal
  <2>. QED
    BY <1>0, <1>3, <2>1, InternalUndisturbs
<1>4. ASSUME NEW l \in Locks \ {n}, WakeLock(l)
      PROVE  Undisturbed(n) /\ type'[n] = type[n]
  <2>1. PICK no \in BOOLEAN : WakeLockInternal(l, 0, no)
    BY <1>4, Zenon DEF WakeLock
  <2>. QED
    BY <1>3, <2>1
<1>5. ASSUME NEW l \in Locks \ {n}, NEW timeout \in Timeouts, WakeLockTimeout(l, timeout)
      PROVE  Undisturbed(n) /\ type'[n] = type[n]
  <2>1. PICK yes \in BOOLEAN : WakeLockInternal(l, timeout, yes)
    BY <1>5, Zenon DEF WakeLockTimeout
  <2>. QED
    BY <1>3, <2>1, TimeoutAssumption
<1>6. ASSUME NEW l \in Locks \ {n}, WakeUnlock(l)
      PROVE  Undisturbed(n) /\ type'[n] = type[n]
  <2>1. type' = type
    BY <1>6 DEF WakeUnlock
  <2>. QED
    BY <1>0, <1>6, <2>1, UnlockUndisturbs
<1>7. ASSUME UnknownWakeup
      PROVE  Undisturbed(n) /\ type'[n] = type[n]
  <2>1. PICK yes \in BOOLEAN : WakeLockInternal(unknown_wakeup, HalfSecond, yes)
    BY <1>7, Zenon DEF UnknownWakeup
  <2>. QED
    BY <1>0, <1>3, <2>1
<1>8. ASSUME NEW ret, HasWakeLock(ret)
      PROVE  Undisturbed(n) /\ type'[n] = type[n]
  BY <1>0, <1>8, WalkUndisturbs DEF HasWakeLock, WLTypeOK, Undisturbed
<1>9. ASSUME UNCHANGED lockVars
      PROVE  Undisturbed(n) /\ type'[n] = type[n]
  BY <1>9 DEF lockVars, Undisturbed, Timed
<1>. QED
  BY <1>0, <1>1, <1>2, <1>4, <1>5, <1>6, <1>7, <1>8, <1>9
     DEF KernelStep, OwnerStep, MainStep, Drivers, TimerDue, ExpireWakeLocks, SuspendWork,
         Dequeue, SuspendCheck, SuspendEnter, SuspendReturn, FreezerCheck, PowerSuspendLate

----------------------------------------------------------------------------
(* UserTimeoutKept speaks of nanoseconds and says nothing of the time that a *)
(* lock has left, so it is not inductive.  Kept says it in jiffies: the time *)
(* left and the age of the request make up the jiffies asked for, until they *)
(* are over; then the lock is dropped or waits for a walk to drop it.        *)

Kept(n) ==
    /\ asked[n] = Forever => link[n] = "active" /\ ~ Timed(flags, n)
    /\ asked[n] \in NsTimeouts /\ Fits(asked[n]) =>
          IF age[n] < Jiffies(asked[n])
          THEN /\ link[n] = "active" /\ Timed(flags, n)
               /\ left[n] = Jiffies(asked[n]) - age[n]
          ELSE link[n] = "inactive" \/ Expired(flags, left, n)

UserInv == /\ StoringOK
           /\ asked \in [Names -> NsTimeouts \cup {Forever, NotAsked}]
           /\ age \in [Names -> Nat]
           /\ \A n \in Names : type[n] = "SUSPEND" /\ Kept(n)

\* What others leave of a lock is still what was asked for.
LEMMA UndisturbedIsKept ==
    ASSUME WLTypeOK, NEW n \in Names, Kept(n), Undisturbed(n), age[n] \in Nat,
           asked'[n] = asked[n], age'[n] = age[n]
    PROVE  Kept(n)'
<1>1. ASSUME asked[n] \in NsTimeouts, Fits(asked[n]), age[n] < Jiffies(asked[n])
      PROVE  ~ Expired(flags, left, n)
  BY <1>1, RoundedUp DEF Kept, Expired
<1>. QED
  BY <1>1 DEF Kept, Undisturbed, Timed, Expired

\* A new request.
LEMMA StoreKeeps ==
    ASSUME WLTypeOK, UserInv, WakeLockStore
    PROVE  UserInv'
<1>. PICK n \in Names : n = storing.name
  BY DEF WakeLockStore, UserInv, StoringOK
<1>0. /\ n \in Locks
      /\ storing.ns \in NsTimeouts \cup {Forever}
      /\ storing.timeout = Jiffies(storing.ns)
      /\ storing' = Nobody
      /\ type[n] = "SUSPEND"
  BY UserAssumption DEF WakeLockStore, UserInv, StoringOK, Drivers
<1>1. /\ asked' = [asked EXCEPT ![n] = storing.ns]
      /\ age' = [age EXCEPT ![n] = 0]
      /\ type' = type
  BY DEF WakeLockStore, WakeLockTimeout, WakeLock, WakeLockInternal
<1>2. /\ asked' \in [Names -> NsTimeouts \cup {Forever, NotAsked}]
      /\ age' \in [Names -> Nat]
      /\ asked'[n] = storing.ns /\ age'[n] = 0
      /\ \A m \in Names \ {n} : asked'[m] = asked[m] /\ age'[m] = age[m]
  BY <1>0, <1>1 DEF UserInv
<1>3. storing.ns \in NsTimeouts => storing.ns # Forever /\ storing.timeout \in Int
  BY NsTypes, UserTimeoutsAssumption, TimeoutAssumption, <1>0
<1>4. storing.ns = Forever => storing.timeout = 0
  BY <1>0 DEF Jiffies
<1>5. PICK has \in BOOLEAN : /\ has <=> storing.timeout # 0
                             /\ WakeLockInternal(n, storing.timeout, has)
  <2>1. CASE storing.timeout # 0
    BY <2>1, Zenon DEF WakeLockStore, WakeLockTimeout
  <2>2. CASE storing.timeout = 0
    BY <2>2, Zenon DEF WakeLockStore, WakeLock
  <2>. QED
    BY <2>1, <2>2
<1>6. storing.timeout \in Int
  BY <1>0, <1>3, <1>4
<1>7. \A m \in Names \ {n} : Undisturbed(m)
  BY <1>0, <1>5, <1>6, InternalUndisturbs, UserAssumption DEF Drivers
<1>8. ASSUME NEW m \in Names \ {n} PROVE Kept(m)'
  BY <1>2, <1>7, <1>8, UndisturbedIsKept DEF UserInv
<1>9. Kept(n)'
  <2>1. ASSUME storing.ns = Forever
        PROVE  link'[n] = "active" /\ ~ Timed(flags', n)
    BY <1>0, <1>4, <1>5, <1>6, <2>1, InternalUndisturbs
  <2>2. ASSUME storing.ns \in NsTimeouts, Fits(storing.ns)
        PROVE  /\ link'[n] = "active" /\ Timed(flags', n)
               /\ left'[n] = Jiffies(storing.ns)
               /\ Jiffies(storing.ns) \in Nat \ {0}
    <3>1. Jiffies(storing.ns) \in Nat \ {0}
      BY <2>2, RoundedUp
    <3>. QED
      BY <1>0, <1>5, <1>6, <3>1, InternalUndisturbs
  <2>3. ASSUME asked'[n] \in NsTimeouts, Fits(asked'[n])
        PROVE  /\ age'[n] < Jiffies(asked'[n])
               /\ left'[n] = Jiffies(asked'[n]) - age'[n]
               /\ link'[n] = "active" /\ Timed(flags', n)
    <3>1. /\ link'[n] = "active" /\ Timed(flags', n)
          /\ left'[n] = Jiffies(asked'[n])
          /\ Jiffies(asked'[n]) \in Nat \ {0}
      BY <1>2, <2>2, <2>3
    <3>. QED
      BY <1>2, <3>1
  <2>. QED
    BY <1>2, <2>1, <2>3 DEF Kept, Timed
<1>. QED
  BY <1>0, <1>1, <1>2, <1>8, <1>9 DEF UserInv, StoringOK

\* A release forgets the request.
LEMMA ReleaseKeeps ==
    ASSUME WLTypeOK, UserInv, NEW n \in Names, WakeUnlockStore(n)
    PROVE  UserInv'
<1>1. /\ WakeUnlock(n) /\ n \in Locks
      /\ asked' = [asked EXCEPT ![n] = NotAsked]
      /\ age' = [age EXCEPT ![n] = 0]
      /\ storing' = storing
  BY UserAssumption DEF WakeUnlockStore, Drivers
<1>2. type' = type
  BY <1>1 DEF WakeUnlock
<1>3. /\ asked' \in [Names -> NsTimeouts \cup {Forever, NotAsked}]
      /\ age' \in [Names -> Nat]
      /\ asked'[n] = NotAsked
      /\ \A m \in Names \ {n} : asked'[m] = asked[m] /\ age'[m] = age[m]
  BY <1>1 DEF UserInv
<1>4. ASSUME NEW m \in Names \ {n} PROVE Kept(m)'
  <2>1. Undisturbed(m)
    BY <1>1, <1>4, UnlockUndisturbs, UserAssumption DEF Drivers
  <2>. QED
    BY <1>3, <2>1, UndisturbedIsKept DEF UserInv
<1>5. Kept(n)'
  BY <1>3, UserAssumption DEF Kept, Forever, NotAsked
<1>. QED
  BY <1>1, <1>2, <1>3, <1>4, <1>5 DEF UserInv, StoringOK

\* A jiffy more of age is one less to wait.
LEMMA TickKeeps ==
    ASSUME WLTypeOK, UserInv, UserTick
    PROVE  UserInv'
<1>1. /\ flags' = flags /\ type' = type /\ link' = link /\ storing' = storing
      /\ asked' = asked
      /\ \A l \in Locks : left'[l] = CountDown(left[l])
      /\ \A n \in Names : age'[n] = IF asked[n] >= 0 /\ age[n] < MaxAge
                                    THEN age[n] + 1 ELSE age[n]
  BY DEF UserTick, Tick
<1>2. age' \in [Names -> Nat]
  BY DEF UserTick, UserInv
<1>3. ASSUME NEW n \in Names PROVE Kept(n)'
  <2>1. n \in Locks /\ left[n] \in Nat /\ age[n] \in Nat /\ MaxAge \in Nat
    BY UserAssumption DEF Drivers, WLTypeOK, UserInv
  <2>2. left'[n] = IF left[n] > 0 THEN left[n] - 1 ELSE left[n]
    BY <1>1, <2>1 DEF CountDown
  <2>3. CASE asked[n] \in NsTimeouts /\ Fits(asked[n])
    <3>1. Jiffies(asked[n]) \in Nat \ {0} /\ Jiffies(asked[n]) <= MaxAge
      BY <2>3, RoundedUp
    <3>2. asked[n] >= 0 /\ asked[n] # Forever
      BY <2>3, NsTypes
    <3>3. CASE age[n] < Jiffies(asked[n])
      <4>1. /\ link[n] = "active" /\ Timed(flags, n)
            /\ left[n] = Jiffies(asked[n]) - age[n]
            /\ age'[n] = age[n] + 1
        BY <1>1, <2>1, <2>3, <3>1, <3>2, <3>3 DEF UserInv, Kept
      <4>2. left'[n] = Jiffies(asked[n]) - age'[n]
        BY <2>1, <2>2, <3>1, <3>3, <4>1
      <4>3. ~ (age'[n] < Jiffies(asked[n])) => left'[n] = 0
        BY <2>1, <3>1, <3>3, <4>1, <4>2
      <4>. QED
        BY <1>1, <3>2, <4>1, <4>2, <4>3 DEF Kept, Timed, Expired
    <3>4. CASE ~ (age[n] < Jiffies(asked[n]))
      <4>1. link[n] = "inactive" \/ Expired(flags, left, n)
        BY <2>3, <3>4 DEF UserInv, Kept
      <4>2. ~ (age'[n] < Jiffies(asked[n]))
        BY <1>1, <2>1, <3>1, <3>4
      <4>. QED
        BY <1>1, <2>2, <3>2, <4>1, <4>2 DEF Kept, Expired
    <3>. QED
      BY <3>3, <3>4
  <2>4. CASE ~ (asked[n] \in NsTimeouts /\ Fits(asked[n]))
    BY <1>1, <2>4 DEF UserInv, Kept, Timed
  <2>. QED
    BY <2>3, <2>4
<1>. QED
  BY <1>1, <1>2, <1>3 DEF UserInv, StoringOK

\* The invariant is inductive where the core's types are.
LEMMA UserStepKeeps == WLTypeOK /\ UserInv /\ [UWNext]_uwVars => UserInv'
<1>. SUFFICES ASSUME WLTypeOK, UserInv, [UWNext]_uwVars
              PROVE  UserInv'
  OBVIOUS
<1>1. ASSUME UNCHANGED <<asked, age>>,
             \A n \in Names : Undisturbed(n) /\ type'[n] = "SUSPEND"
      PROVE  UserInv'
  <2>1. StoringOK'
    BY StoringStep DEF UserInv
  <2>2. ASSUME NEW n \in Names PROVE Kept(n)'
    BY <1>1, <2>2, UndisturbedIsKept DEF UserInv
  <2>. QED
    BY <1>1, <2>1, <2>2 DEF UserInv
<1>2. ASSUME NEW n \in Names, NEW ns \in NsTimeouts \cup {Forever}, LookupOrAllocate(n, ns)
      PROVE  UserInv'
  <2>1. StoringOK'
    BY StoringStep DEF UserInv
  <2>2. CASE Initialized(n)
    <3>1. \A m \in Names : Undisturbed(m) /\ type'[m] = "SUSPEND"
      BY <1>2, <2>2 DEF LookupOrAllocate, wlVars, lockVars, Undisturbed, Timed, UserInv
    <3>. QED
      BY <1>1, <1>2, <3>1 DEF LookupOrAllocate
  <2>3. CASE ~ Initialized(n)
    <3>1. /\ WakeLockInit(n, "SUSPEND")
          /\ asked' = asked /\ age' = age
      BY <1>2, <2>3 DEF LookupOrAllocate
    <3>2. n \in Locks /\ Names \subseteq Locks
      BY UserAssumption DEF Drivers
    <3>3. /\ link[n] = "none" /\ type'[n] = "SUSPEND" /\ link'[n] = "inactive"
          /\ \A m \in Names \ {n} : Undisturbed(m) /\ type'[m] = type[m]
      BY <3>1, <3>2 DEF WakeLockInit, WLTypeOK, Undisturbed, Timed
    <3>4. ASSUME NEW m \in Names \ {n} PROVE Kept(m)'
      BY <3>1, <3>3, <3>4, UndisturbedIsKept DEF UserInv
    <3>5. Kept(n)'
      <4>1. asked[n] # Forever
        BY <3>3 DEF UserInv, Kept
      <4>2. asked[n] \in NsTimeouts /\ Fits(asked[n]) => ~ (age[n] < Jiffies(asked[n]))
        BY <3>3 DEF UserInv, Kept
      <4>. QED
        BY <3>1, <3>3, <4>1, <4>2 DEF Kept
    <3>. QED
      BY <2>1, <3>1, <3>3, <3>4, <3>5 DEF UserInv
  <2>. QED
    BY <2>2, <2>3
<1>3. CASE WakeLockStore
  BY <1>3, StoreKeeps
<1>4. ASSUME NEW n \in Names, WakeUnlockStore(n)
      PROVE  UserInv'
  BY <1>4, ReleaseKeeps
<1>5. CASE UserTick
  BY <1>5, TickKeeps
<1>6. CASE KernelStep
  <2>1. \A n \in Names : Undisturbed(n) /\ type'[n] = "SUSPEND"
    BY <1>6, KernelUndisturbs DEF UserInv
  <2>. QED
    BY <1>1, <1>6, <2>1 DEF KernelStep, userVars
<1>7. CASE UNCHANGED uwVars
  <2>1. \A n \in Names : Undisturbed(n) /\ type'[n] = "SUSPEND"
    BY <1>7 DEF uwVars, wlVars, lockVars, Undisturbed, Timed, UserInv
  <2>. QED
    BY <1>1, <1>7, <2>1 DEF uwVars, userVars
<1>. QED
  BY <1>2, <1>3, <1>4, <1>5, <1>6, <1>7 DEF UWNext, UserStep

\* A timeout written to /sys/power/wake_lock that fits a long is kept to the
\* jiffy, for any widths, any timeouts and any use of the other locks.
THEOREM UserTimeoutsKept == UWSpec => []UserTimeoutKept
<1>1. UWInit => UserInv
  <2>. SUFFICES ASSUME UWInit PROVE UserInv
    OBVIOUS
  <2>1. \A n \in Names : type[n] = "SUSPEND"
    BY UserAssumption DEF UWInit, WLInit, Drivers
  <2>2. \A n \in Names : Kept(n)
    BY UserAssumption DEF UWInit, Kept, Forever, NotAsked
  <2>. QED
    BY <2>1, <2>2 DEF UWInit, UserInv, StoringOK
<1>2. UserInv => UserTimeoutKept
  <2>. SUFFICES ASSUME UserInv, NEW n \in Names
                PROVE  /\ asked[n] = Forever =>
                             link[n] = "active" /\ "AUTO_EXPIRE" \notin flags[n]
                       /\ asked[n] >= 0 /\ Fits(asked[n]) =>
                             /\ age[n] * NSEC_PER_JIFFY < asked[n] =>
                                   link[n] = "active" /\ ~ Expired(flags, left, n)
                             /\ age[n] * NSEC_PER_JIFFY >= asked[n] /\ age[n] > 0 =>
                                   link[n] = "inactive" \/ Expired(flags, left, n)
    BY DEF UserTimeoutKept
  <2>1. asked[n] = Forever => link[n] = "active" /\ "AUTO_EXPIRE" \notin flags[n]
    BY DEF UserInv, Kept, Timed
  <2>2. ASSUME asked[n] >= 0, Fits(asked[n])
        PROVE  /\ age[n] * NSEC_PER_JIFFY < asked[n] =>
                     link[n] = "active" /\ ~ Expired(flags, left, n)
               /\ age[n] * NSEC_PER_JIFFY >= asked[n] /\ age[n] > 0 =>
                     link[n] = "inactive" \/ Expired(flags, left, n)
    <3>. DEFINE j == Jiffies(asked[n])
                w == NSEC_PER_JIFFY
    <3>1. /\ asked[n] \in NsTimeouts /\ asked[n] \in Nat
          /\ age[n] \in Nat /\ w \in Nat \ {0}
      <4>1. asked[n] \in NsTimeouts \cup {Forever, NotAsked} /\ age[n] \in Nat
        BY DEF UserInv
      <4>2. asked[n] \in NsTimeouts
        BY <2>2, <4>1 DEF Forever, NotAsked
      <4>. QED
        BY <4>1, <4>2, NsTypes, UserAssumption
    <3>2. /\ j \in Nat \ {0} /\ asked[n] <= j * w
          /\ j = 1 \/ (j - 1) * w < asked[n]
      BY <2>2, <3>1, RoundedUp
    <3>3. IF age[n] < j
          THEN link[n] = "active" /\ left[n] = j - age[n]
          ELSE link[n] = "inactive" \/ Expired(flags, left, n)
      BY <2>2, <3>1 DEF UserInv, Kept
    <3>. HIDE DEF j, w
    <3>4. ASSUME age[n] * w < asked[n] PROVE age[n] < j
      <4>1. age[n] * w < j * w
        BY <3>1, <3>2, <3>4
      <4>. QED
        BY <3>1, <3>2, <4>1, JiffiesOrder
    <3>5. ASSUME age[n] * w >= asked[n], age[n] > 0 PROVE age[n] >= j
      <4>1. CASE j = 1
        BY <3>1, <3>5, <4>1
      <4>2. CASE (j - 1) * w < asked[n]
        <5>1. (j - 1) * w < age[n] * w
          BY <3>1, <3>2, <3>5, <4>2
        <5>2. j - 1 < age[n]
          BY <3>1, <3>2, <5>1, JiffiesOrder
        <5>. QED
          BY <3>1, <3>2, <5>2
      <4>. QED
        BY <3>2, <4>1, <4>2
    <3>6. age[n] < j => j - age[n] # 0
      BY <3>1, <3>2
    <3>. QED
      BY <3>1, <3>2, <3>3, <3>4, <3>5, <3>6 DEF Expired, w
  <2>. QED
    BY <2>1, <2>2
<1>. QED
  BY <1>1, <1>2, UserStepKeeps, UserImplementsWakeLock, WLTypeCorrect, PTL DEF UWSpec
=============================================================================
