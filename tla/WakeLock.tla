------------------------------ MODULE WakeLock ------------------------------
(***************************************************************************)
(* The wake lock core of the kernel, kernel/power/wakelock.c.              *)
(*                                                                         *)
(* Every exported operation runs with list_lock held and interrupts        *)
(* disabled, so each one is a single action; any driver, in any context,   *)
(* may perform it between two steps of the suspend work, of the expiry     *)
(* timer or of the clock.  The suspend work itself takes list_lock only    *)
(* for has_wake_lock, so it is split into one action per critical section. *)
(*                                                                         *)
(* Time is relative: left[l] stands for lock->expires - jiffies, clipped   *)
(* at zero (expired), and expire_timer for the jiffies that remain until   *)
(* the timer is due, zero being due.  A lock that is not AUTO_EXPIRE has   *)
(* left 0.  The time sums of struct wake_lock.stat are not modelled; the   *)
(* flags and the switch that drive them are.                               *)
(***************************************************************************)
EXTENDS Integers, Sequences

CONSTANTS Locks,           \* the struct wake_lock objects of the system
          main_wake_lock,  \* held while the user interface is on
          unknown_wakeup,  \* taken by the suspend work itself
          Timeouts,        \* arguments of wake_lock_timeout, in jiffies
          HalfSecond       \* HZ / 2

ASSUME LocksAssumption == /\ main_wake_lock \in Locks
                          /\ unknown_wakeup \in Locks
                          /\ main_wake_lock # unknown_wakeup

ASSUME TimeoutAssumption == /\ Timeouts \subseteq Int
                            /\ HalfSecond \in Nat \ {0}

VARIABLES flags,           \* lock->flags without the type bits
          type,            \* lock->flags & WAKE_LOCK_TYPE_MASK
          link,            \* the list lock->link is on
          left,            \* jiffies until lock->expires
          expire_timer,    \* jiffies until the timer is due, or NoTimer
          expire_running,  \* the timer was taken off, its function not yet run
          queue,           \* the pending works of suspend_work_queue
          worker,          \* where the thread of suspend_work_queue is
          new_event,       \* current_event_num # entry_event_num in suspend()
          wait_for_wakeup

lockVars == <<flags, type, link, left>>
timerVars == <<expire_timer, expire_running>>
wlVars == <<lockVars, timerVars, queue, worker, new_event, wait_for_wakeup>>

Flags == {"INITIALIZED", "ACTIVE", "AUTO_EXPIRE", "PREVENTING_SUSPEND"}
LockTypes == {"SUSPEND", "IDLE"}
Works == {"suspend_work", "early_suspend_work", "late_resume_work"}
NoTimer == -1

----------------------------------------------------------------------------
(* The lists.  An operator that looks at a state in the middle of a critical *)
(* section takes the flags f, links k and times t of that moment.            *)

ActiveLocks(k) == {l \in Locks : k[l] = "active" /\ type[l] = "SUSPEND"}

\* get_expired_time: an AUTO_EXPIRE lock whose time is up.
Expired(f, t, l) == "AUTO_EXPIRE" \in f[l] /\ t[l] = 0

Infinite(f, k) == \E l \in ActiveLocks(k) : "AUTO_EXPIRE" \notin f[l]

\* The locks has_wake_lock_locked expires.  Locks without a timeout are at the
\* head of the list (list_add against list_add_tail), so the walk returns -1
\* before it expires anything when there is one.
SweptEarly(f, k, t) == {l \in ActiveLocks(k) : ~ Infinite(f, k) /\ t[l] <= 1}
Swept(f, k, t) == {l \in ActiveLocks(k) : ~ Infinite(f, k) /\ t[l] = 0}

\* ret is what has_wake_lock_locked returns: -1, or the longest time left.
HasWakeLockLocked(ret, f, k, t) ==
    IF Infinite(f, k)
    THEN ret = -1
    ELSE /\ \A l \in ActiveLocks(k) : t[l] <= ret
         /\ ret = 0 \/ \E l \in ActiveLocks(k) : t[l] = ret

Returns(k, t) == {-1, 0} \cup {t[l] : l \in ActiveLocks(k)}

\* expire_wake_lock on every lock the walk expires.
SweptStillActive(f, k, t) ==
    [l \in Locks |-> IF l \in Swept(f, k, t)
                     THEN f[l] \ {"AUTO_EXPIRE", "PREVENTING_SUSPEND"}
                     ELSE f[l]]
SweptFlags(f, k, t) ==
    [l \in Locks |-> IF l \in Swept(f, k, t)
                     THEN f[l] \ {"ACTIVE", "AUTO_EXPIRE", "PREVENTING_SUSPEND"}
                     ELSE f[l]]
SweptLinks(f, k, t) ==
    [l \in Locks |-> IF l \in Swept(f, k, t) THEN "inactive" ELSE k[l]]

\* update_sleep_wait_stats_locked(done), the part that changes flags.
UpdateIgnoringDone(done, f, k, t) ==
    [l \in Locks |-> IF l \notin ActiveLocks(k) \/ Expired(f, t, l) THEN f[l]
                     ELSE f[l] \cup {"PREVENTING_SUSPEND"}]
UpdateSleepWaitStats(done, f, k, t) ==
    [l \in Locks |->
        IF l \notin ActiveLocks(k) THEN f[l]
        ELSE IF done \/ Expired(f, t, l) THEN f[l] \ {"PREVENTING_SUSPEND"}
        ELSE f[l] \cup {"PREVENTING_SUSPEND"}]

\* has_wake_lock_locked on the current state, returning ret.
HasWakeLock(ret) ==
    /\ HasWakeLockLocked(ret, flags, link, left)
    /\ flags' = SweptFlags(flags, link, left)
    /\ link' = SweptLinks(flags, link, left)
    /\ UNCHANGED <<type, left>>

Queued(w) == \E i \in 1 .. Len(queue) : queue[i] = w

\* queue_work: a work that is pending already is not queued again.
QueueWork(w) == queue' = IF Queued(w) THEN queue ELSE Append(queue, w)

\* What wake_lock_internal and wake_unlock do with the walk's result.
ArmOnlyWhenIdle(ret) ==
    /\ expire_timer' = IF ret <= 0 THEN NoTimer
                       ELSE IF expire_timer = NoTimer THEN ret ELSE expire_timer
    /\ IF ret = 0 THEN QueueWork("suspend_work") ELSE UNCHANGED queue
ArmOrQueue(ret) ==
    /\ expire_timer' = IF ret > 0 THEN ret ELSE NoTimer
    /\ IF ret = 0 THEN QueueWork("suspend_work") ELSE UNCHANGED queue

----------------------------------------------------------------------------
(* The exported operations. *)

Initialized(l) == "INITIALIZED" \in flags[l]

WakeLockInit(l, ty) ==
    /\ link[l] = "none"
    /\ flags' = [flags EXCEPT ![l] = {"INITIALIZED"}]
    /\ type' = [type EXCEPT ![l] = ty]
    /\ link' = [link EXCEPT ![l] = "inactive"]
    /\ left' = [left EXCEPT ![l] = 0]
    /\ UNCHANGED <<timerVars, queue, worker, new_event, wait_for_wakeup>>

\* Nothing re-evaluates the timer or queues the suspend work here: callers
\* must not destroy a lock they hold without a timeout.  In this build the
\* only lock destroyed while the system runs is evdev's, which is only ever
\* taken with wake_lock_timeout (drivers/input/evdev.c:91, 276).
WakeLockDestroy(l) ==
    /\ Initialized(l)
    /\ "ACTIVE" \in flags[l] => "AUTO_EXPIRE" \in flags[l]
    /\ flags' = [flags EXCEPT ![l] = @ \ {"INITIALIZED"}]
    /\ link' = [link EXCEPT ![l] = "none"]
    /\ left' = [left EXCEPT ![l] = 0]
    /\ UNCHANGED <<type, timerVars, queue, worker, new_event, wait_for_wakeup>>

\* Flags of the lock being taken: the statistics of its previous period are
\* closed when that period had expired without being noticed.
TakenFlags(l, has_timeout) ==
    LET f == IF Expired(flags, left, l) THEN flags[l] \ {"PREVENTING_SUSPEND"}
                                        ELSE flags[l]
    IN  IF has_timeout THEN f \cup {"ACTIVE", "AUTO_EXPIRE"}
                       ELSE (f \cup {"ACTIVE"}) \ {"AUTO_EXPIRE"}

WakeLockInternal(l, timeout, has_timeout) ==
    LET f1 == [flags EXCEPT ![l] = TakenFlags(l, has_timeout)]
        k1 == [link EXCEPT ![l] = "active"]
        t1 == [left EXCEPT ![l] = IF has_timeout /\ timeout > 0
                                  THEN timeout ELSE 0]
        f2 == IF l = main_wake_lock
              THEN UpdateSleepWaitStats(TRUE, f1, k1, t1)
              ELSE IF "ACTIVE" \notin f1[main_wake_lock]
              THEN UpdateSleepWaitStats(FALSE, f1, k1, t1)
              ELSE f1
    IN  /\ Initialized(l)
        /\ left' = t1
        /\ IF type[l] # "SUSPEND"
           THEN /\ flags' = f1
                /\ link' = k1
                /\ UNCHANGED <<expire_timer, queue, new_event, wait_for_wakeup>>
           ELSE /\ new_event' = TRUE
                /\ wait_for_wakeup' = FALSE
                /\ IF has_timeout
                   THEN \E ret \in Returns(k1, t1) :
                           /\ HasWakeLockLocked(ret, f2, k1, t1)
                           /\ flags' = SweptFlags(f2, k1, t1)
                           /\ link' = SweptLinks(f2, k1, t1)
                           /\ ArmOrQueue(ret)
                   ELSE /\ flags' = f2
                        /\ link' = k1
                        /\ ArmOrQueue(-1)
        /\ UNCHANGED <<type, expire_running>>

WakeLock(l) == WakeLockInternal(l, 0, FALSE) /\ UNCHANGED worker

WakeLockTimeout(l, timeout) ==
    WakeLockInternal(l, timeout, TRUE) /\ UNCHANGED worker

WakeUnlock(l) ==
    LET f1 == [flags EXCEPT ![l] =
                  @ \ {"ACTIVE", "AUTO_EXPIRE", "PREVENTING_SUSPEND"}]
        k1 == [link EXCEPT ![l] = "inactive"]
        t1 == [left EXCEPT ![l] = 0]
    IN  /\ Initialized(l)
        /\ left' = t1
        /\ IF type[l] # "SUSPEND"
           THEN /\ flags' = f1
                /\ link' = k1
                /\ UNCHANGED <<expire_timer, queue>>
           ELSE LET f2 == SweptFlags(f1, k1, t1)
                    k2 == SweptLinks(f1, k1, t1)
                IN  /\ flags' = IF l = main_wake_lock
                                THEN UpdateSleepWaitStats(FALSE, f2, k2, t1)
                                ELSE f2
                    /\ link' = k2
                    /\ \E ret \in Returns(k1, t1) :
                          /\ HasWakeLockLocked(ret, f1, k1, t1)
                          /\ ArmOrQueue(ret)
        /\ UNCHANGED <<type, expire_running, worker, new_event, wait_for_wakeup>>

----------------------------------------------------------------------------
(* The clock and the expiry timer. *)

\* A difference with jiffies one jiffy later: what is over stays over.
CountDown(t) == IF t > 0 THEN t - 1 ELSE t

Tick ==
    /\ left' = [l \in Locks |-> CountDown(left[l])]
    /\ expire_timer' = CountDown(expire_timer)
    /\ UNCHANGED <<flags, type, link, expire_running, queue, worker, new_event,
                   wait_for_wakeup>>

\* The timer softirq takes a due timer off before it calls its function; an
\* interrupt may take or release a lock in between.
TimerDue ==
    /\ expire_timer = 0
    /\ ~ expire_running
    /\ expire_timer' = NoTimer
    /\ expire_running' = TRUE
    /\ UNCHANGED <<lockVars, queue, worker, new_event, wait_for_wakeup>>

ExpireWithoutQueueing ==
    /\ expire_running
    /\ expire_running' = FALSE
    /\ \E ret \in Returns(link, left) : HasWakeLock(ret)
    /\ UNCHANGED <<expire_timer, queue, worker, new_event, wait_for_wakeup>>
ExpireWakeLocks ==
    /\ expire_running
    /\ expire_running' = FALSE
    /\ \E ret \in Returns(link, left) :
          /\ HasWakeLock(ret)
          /\ IF ret = 0 THEN QueueWork("suspend_work") ELSE UNCHANGED queue
    /\ UNCHANGED <<expire_timer, worker, new_event, wait_for_wakeup>>

----------------------------------------------------------------------------
(* The suspend work, on the single thread of suspend_work_queue. *)

\* run_workqueue: the work is no longer pending when its function starts.
Dequeue(w) ==
    /\ worker = "idle"
    /\ queue # << >>
    /\ Head(queue) = w
    /\ queue' = Tail(queue)
    /\ worker' = w
    /\ UNCHANGED <<lockVars, timerVars, new_event, wait_for_wakeup>>

SuspendCheck ==
    /\ worker = "suspend_work"
    /\ \E ret \in Returns(link, left) :
          /\ HasWakeLock(ret)
          /\ worker' = IF ret # 0 THEN "idle" ELSE "sync"
    /\ UNCHANGED <<timerVars, queue, new_event, wait_for_wakeup>>

\* entry_event_num = current_event_num; sys_sync(); call of pm_suspend.
SuspendEnter ==
    /\ worker = "sync"
    /\ worker' = "pm_suspend"
    /\ new_event' = FALSE
    /\ UNCHANGED <<lockVars, timerVars, queue, wait_for_wakeup>>

\* The freezer polls has_wake_lock while it waits for tasks to freeze.
FreezerCheck ==
    /\ worker = "pm_suspend"
    /\ \E ret \in Returns(link, left) : HasWakeLock(ret)
    /\ UNCHANGED <<timerVars, queue, worker, new_event, wait_for_wakeup>>

PowerSuspendLate ==
    /\ worker = "pm_suspend"
    /\ \E ret \in Returns(link, left) : HasWakeLock(ret)
    /\ wait_for_wakeup' = TRUE
    /\ UNCHANGED <<timerVars, queue, worker, new_event>>

\* pm_suspend returned; was there a wake event since entry_event_num was read?
ReturnWithoutEventCheck ==
    /\ worker = "pm_suspend"
    /\ worker' = "idle"
    /\ UNCHANGED <<lockVars, timerVars, queue, new_event, wait_for_wakeup>>
SuspendReturn ==
    /\ worker = "pm_suspend"
    /\ worker' = IF new_event THEN "idle" ELSE "no_event"
    /\ UNCHANGED <<lockVars, timerVars, queue, new_event, wait_for_wakeup>>

UnknownWakeup ==
    /\ worker = "no_event"
    /\ WakeLockInternal(unknown_wakeup, HalfSecond, TRUE)
    /\ worker' = "idle"

SuspendWork == \/ Dequeue("suspend_work")
               \/ SuspendCheck
               \/ SuspendEnter
               \/ UnknownWakeup

----------------------------------------------------------------------------
\* wakelocks_init: main is taken before anything else can be.
WLInit ==
    /\ flags = [l \in Locks |->
                  IF l = main_wake_lock THEN {"INITIALIZED", "ACTIVE"}
                  ELSE IF l = unknown_wakeup THEN {"INITIALIZED"} ELSE {}]
    /\ type = [l \in Locks |-> "SUSPEND"]
    /\ link = [l \in Locks |-> IF l = main_wake_lock THEN "active"
                               ELSE IF l = unknown_wakeup THEN "inactive"
                               ELSE "none"]
    /\ left = [l \in Locks |-> 0]
    /\ expire_timer = NoTimer
    /\ expire_running = FALSE
    /\ queue = << >>
    /\ worker = "idle"
    /\ new_event = FALSE
    /\ wait_for_wakeup = FALSE

Drivers == Locks \ {main_wake_lock, unknown_wakeup}

\* What the owner of a lock may do with it.
OwnerStep(l) ==
    \/ \E ty \in LockTypes : WakeLockInit(l, ty)
    \/ WakeLockDestroy(l)
    \/ WakeLock(l)
    \/ \E timeout \in Timeouts : WakeLockTimeout(l, timeout)
    \/ WakeUnlock(l)

DriverStep == \E l \in Drivers : OwnerStep(l)

\* request_suspend_state and early_suspend hold and release the main lock.
MainStep == WakeLock(main_wake_lock) \/ WakeUnlock(main_wake_lock)

WLNext == \/ DriverStep
          \/ MainStep
          \/ Tick
          \/ TimerDue
          \/ ExpireWakeLocks
          \/ SuspendWork
          \/ SuspendReturn
          \/ FreezerCheck
          \/ PowerSuspendLate

WLSpec == WLInit /\ [][WLNext]_wlVars

----------------------------------------------------------------------------
(* Properties. *)

WLTypeOK ==
    /\ flags \in [Locks -> SUBSET Flags]
    /\ type \in [Locks -> LockTypes]
    /\ link \in [Locks -> {"none", "inactive", "active"}]
    /\ left \in [Locks -> Nat]
    /\ expire_timer \in Nat \cup {NoTimer}
    /\ expire_running \in BOOLEAN
    /\ queue \in Seq(Works)
    /\ worker \in Works \cup {"idle", "sync", "pm_suspend", "no_event"}
    /\ new_event \in BOOLEAN
    /\ wait_for_wakeup \in BOOLEAN

\* The flags of a lock tell the list it is on, whoever moved it last, its owner,
\* the timer or another owner's walk: wake_lock_active, which alarm_suspend asks
\* and which looks at the flag alone, is right about every lock, and a lock that
\* is not held keeps no timeout.  (Of a destroyed lock the flags are left over.)
FlagsMatchLists ==
    /\ WLTypeOK
    /\ \A l \in Locks :
          /\ link[l] = "active" => "ACTIVE" \in flags[l]
          /\ link[l] = "inactive" => flags[l] \cap {"ACTIVE", "AUTO_EXPIRE"} = {}

\* A suspend is never forgotten: whenever something could let the system
\* sleep, there is a step to come that will look again.  Either a lock without
\* a timeout is held (its wake_unlock looks), or the expiry timer is set or
\* running, or the suspend work is queued, or the suspend work is at a place
\* from which it goes on to sleep or takes unknown_wakeup when it comes back.
\* wakelock.c relies on this in every caller of has_wake_lock_locked.
WillLook ==
    \/ Infinite(flags, link)
    \/ expire_timer # NoTimer
    \/ expire_running
    \/ Queued("suspend_work")

SuspendNotForgotten ==
    \/ WillLook
    \/ worker \in {"suspend_work", "sync", "no_event"}
    \/ worker = "pm_suspend" /\ ~ new_event

\* The expiry timer never goes off before the last timed lock it has to wait
\* for: with no lock held without a timeout, it is set at least as late as every
\* lock that still has time left.  The suspend work's early return on a held
\* lock, and the empty has_lock > 0 case of expire_wake_locks, depend on it.
TimerCoversLocks ==
    ~ Infinite(flags, link) =>
        \A l \in ActiveLocks(link) : left[l] > 0 => left[l] <= expire_timer

\* WAKE_LOCK_PREVENTING_SUSPEND marks exactly the locks that keep the system
\* awake while the main lock does not: only active SUSPEND locks carry it, none
\* does while main is held, and every unexpired one does while it is not.
Blocking(l) == l \in ActiveLocks(link) /\ ~ Expired(flags, left, l)
PreventingExact ==
    \A l \in Locks : link[l] # "none" =>
        /\ "PREVENTING_SUSPEND" \in flags[l] =>
              l \in ActiveLocks(link) /\ link[main_wake_lock] # "active"
        /\ Blocking(l) /\ link[main_wake_lock] # "active" =>
              "PREVENTING_SUSPEND" \in flags[l]

\* A lock leaves the active list only when its holder releases it, takes it
\* again with a timeout that is already over, or destroys it, or when its time
\* is up: no walk of the list by somebody else drops a lock that still counts.
HeldUntilReleased ==
    [][\A l \in Locks :
          link[l] = "active" /\ link'[l] # "active" =>
             \/ Expired(flags, left, l)
             \/ WakeUnlock(l)
             \/ WakeLockDestroy(l)
             \/ \E timeout \in Timeouts : timeout <= 0 /\ WakeLockTimeout(l, timeout)
      ]_wlVars
=============================================================================
