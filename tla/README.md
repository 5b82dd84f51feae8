# TLA+ models of the OT-890 kernel's power management and Android drivers

The repository is the source of the Alcatel OT-890, an Android phone on a
MediaTek MT6516: a Linux 2.6.29 kernel with the Android and MediaTek additions
(`src/kernel`) and a vendored WebKit (`src/webkit`). Most of it is stock code.
What is the phone's own, and hard to test, is first how it goes to sleep: any
driver, any user program, a timer, an alarm and the screen may each keep the
system awake or let it go, from any context, while a thread is half way down.
Then there are the Android drivers that all of user space shares: the log,
shared memory that the kernel may take back, and binder's references between
processes. This project models those parts.

The build that is modelled has one CPU, no kernel preemption, HZ = 100,
`WAKELOCK`, `WAKELOCK_STAT`, `USER_WAKELOCK`, `EARLYSUSPEND`, `SUSPEND`,
`FREEZER` and `NO_HZ`, and neither `HIBERNATION` nor `PM_DEBUG`.

## The parts and how they interact

    user space:  /sys/power/state          /sys/power/wake_lock, wake_unlock
                      |                               |
                request_suspend_state           userwakelock.c
                early_suspend, late_resume            |
                (earlysuspend.c) -- main lock --> wake lock core <-- drivers, interrupts
                      |                          (wakelock.c)     <-- expiry timer
                      |                               | suspend_work
                      +------ suspend_work_queue -----+
                                                      v
                                              pm_suspend (main.c)
                       freezer (process.c), devices (drivers/base/power/main.c),
                       platform (mtkpm.c); both check the wake locks on the way
                                  |
                       alarm_suspend (rtc/alarm.c), which sets the RTC to wake
                       the phone for the first alarm, or refuses

    user space:  /dev/log/*          /dev/ashmem             /dev/binder
                 logger.c            ashmem.c <-- shrinker   binder.c <-- exit

| part | state | operations | what is hard | module |
|---|---|---|---|---|
| wake lock core, `kernel/power/wakelock.c` | flags, lists and expiry of each lock; the expiry timer; the suspend work; the event counter | init, destroy, lock, lock with timeout, unlock, timer, suspend work | every caller's walk expires other owners' locks and decides for everybody whether to arm the timer or queue the work | `WakeLock` |
| suspend path, `kernel/power/main.c`, `process.c`, `mach-mt6516/mtkpm.c` | where the thread is; what it has taken down | freeze, suspend devices, power down, sleep, and back, from each point of failure | locks taken by interrupts at any step; errors half way | `PmSuspend` |
| early suspend, `kernel/power/earlysuspend.c` | requested and reached state, handlers, a completion | request on or sleep, register, two works | callers that sleep inside a spin lock section, works overtaken by newer requests | `EarlySuspend` |
| user wake locks, `kernel/power/userwakelock.c` | locks by name | lock, unlock, timeout in ns | integer widths | `UserWakeLock` |
| device core, `drivers/base/power/main.c` | `dpm_list`, the status of each device | six walks, add, remove | devices that come and go while the list is taken apart | `DevicePM` |
| alarms, `drivers/rtc/alarm.c`, `rtc-mt6516.c` | enabled and pending alarms, their timers, two wake locks, the RTC's alarm register, the power-on alarm | set, set and wait, clear, wait, set the clock, close, timers, RTC interrupt, suspend, resume | suspend in unlocked sections while timers go off; three clocks | `Alarm` |
| log, `drivers/staging/android/logger.c` | a ring buffer, its head and write offset, an offset and a byte count per reader | write, read, open, close, flush | readers overtaken, entries across the end, faults half way | `Logger`, promise in `LogQueue` |
| shared memory, `mm/ashmem.c` | ranges of unpinned pages on a list per area and on an LRU list | size, map, pin, unpin, shrink, close | ranges cut and joined, purged in between, allocations that fail | `Ashmem` |
| binder, `drivers/staging/android/binder.c` | a node per object, a reference per client, work items, death notifications | references sent, taken, passed on, given back, acknowledged; notifications; exits | counts on both sides of one late work item; clear against death | `Binder` |

The other parts of the repository are listed with the reason they are left out
in `PROJECT.json` and below.

## The modules

**`WakeLock`**. Every exported function of `wakelock.c` runs under `list_lock`
with interrupts off and is one action. `has_wake_lock_locked` is
`HasWakeLockLocked` (its result) with `Swept*` (the locks it expires); the code
keeps locks without a timeout at the head of the list, so the walk returns -1
before it expires anything if there is one, and that is how the order of the
list enters the model. The tail of `wake_lock_internal` and `wake_unlock` (arm
the timer, delete it, or queue the work) is `ArmOrQueue`. The work `suspend()`
takes `list_lock` only for its check, so it is split where others can get in:
`SuspendCheck`, `SuspendEnter` (the event count is read here), the time inside
`pm_suspend`, `SuspendReturn`, `UnknownWakeup`. The timer softirq detaches the
timer (`TimerDue`) before it calls `expire_wake_locks`. Time is relative:
`left[l]` is `expires - jiffies` clipped at 0, which keeps the state space
finite without a bound on the clock. `new_event` is the comparison of
`current_event_num` with `entry_event_num`, the only use of either. Not
modelled: the sums in `lock->stat` and `/proc/wakelocks`; the flag
`PREVENTING_SUSPEND` that drives them is.

`WakeLockDestroy` carries the one contract that the code does not enforce. It
does not look at the timer or queue the work, so a lock held without a timeout
must not be destroyed. In this build the only lock destroyed at run time is
evdev's, which is always taken with a timeout.

**`PmSuspend`** extends `WakeLock` with the thread inside `pm_suspend`. `pm` is
its place, `held` the set of things that are down. Each function that may fail
has its failing branch; the freezer's loop polls `has_wake_lock` in each round.
While interrupts are off (`irqs_off` in `held`) only the thread itself moves.
`suspend_devices_and_enter` ignores the result of `suspend_enter`, and so does
the model.

**`EarlySuspend`** has its own small picture of the wake lock core (the main
lock, and a suspend work that may or may not be queued by others). On this
build a spin lock is an interrupt mask that `wait_for_completion` opens, so
several tasks can be inside `request_suspend_state`; a completion goes to any
one waiter. `off` records the last hook called on each handler.

**`UserWakeLock`** extends `WakeLock`. The conversion of nanoseconds to jiffies
is `Jiffies`, with the rounding, the replacement of zero, the wrap of the u64
addition and the assignment to a long (`ToLong`). TLC's integers are too small
for the real widths; they are constants, scaled to a 6 bit u64, a 3 bit long and
a jiffy of 4 ns, which keeps their order (more jiffies in a u64 than fit a
long). `asked` and `age` are history variables for the property.

**`DevicePM`**. `dpm_list` and the local list of the walk are sequences, and
each critical section of `dpm_list_mtx` is an action or, from the return of one
callback to the next call, two with nobody in between. Devices are added and
removed during callbacks and between the walks, under the contract that the
warnings of `device_pm_add` state. The constant `AddsWhileCompleting` lets them
be added during the last walk as well (see the findings). `asleep` records the
hook that last put the device to sleep, `alive` which devices exist.

**`Alarm`**. Times are relative, in ticks of 1/Hz second, so that the rounding to
the RTC's seconds is there: `left[t]` is what an alarm has left on its own clock,
`phase` the part of the RTC's second that is over. The ioctls run under
`alarm_slock` and are one action each; a blocked wait is in `waiting`.
`alarm_suspend` is one action per section between two unlocks (`AlarmSuspend`,
`CancelRtcWakeup`, `CancelElapsedWakeup`, `RtcSetAlarm`, then `AboutToGoOff` or
`AlarmSuspended`), with timers going off in the gaps. `FirstWakeup` is its choice
of the time, with the power-on time put in. `DisableAlarm` models that
`rtc_set_alarm` refuses the zeroed time by which the driver means to disable the
RTC's alarm, which therefore stays armed. `PowerOnTimes` are the power-on times
left after the rounding of `ANDROID_ALARM_SET`, some of them behind.

The suspend path around it is that of `PmSuspend`, reduced to where it looks at
the wake locks and what may happen in between. `SuspendCheck` is the check of
`suspend()` (wakelock.c:362); `sys_sync` and the freezer come after it, and the
freezer looks again only in a round that leaves tasks to freeze (process.c:98), so
`FreezeProcesses` may come with a lock held, and `Thaw` too. A step may take any
number of ticks. `alarm_wake_lock` is `TimedOut` when its time is over but no walk
has taken it off: `wake_lock_active`, which `alarm_suspend` asks, looks at the flag
alone. Two history variables say which sleeps the properties are about: `since`,
the ticks since `alarm_suspend` returned (up to a second), and `lapsed`, that the
lock ran out after `alarm_suspend` had looked at it. The
granularity of `xtime` is ignored, the first opener owns the device, and
`ANDROID_ALARM_CLEAR` of the power-on alarm is not an input.

**`Logger`** and **`LogQueue`**. `LogQueue` is the promise: entries in the order
written, each reader gets each once, and only the oldest go, when there is no
room. `Logger` is the ring buffer with its bytes, lengths in two of them (in base
`Base`), entries that lie across the end, `fix_up_readers` with `clock_interval`,
the two segments of a write with a fault in between, and the reader's loop with
its two critical sections. Headers are reduced to the length; `sign`, the
driver's running byte count for the overflow warning, is kept modulo the size
with `lag`, what a reader is behind. The implementation mapping reads the queue
of each reader off the buffer. A fault after a wait for the mutex is allowed by
the constant `StaleFaults` (see the findings). Entries are at most half of the
buffer, as they are in the driver (4 KiB of 64 KiB).

**`Ashmem`**. Units are pages. `ashmem_mutex` is held over an allocation, so an
operation that reaches one is in `holder` and ends with `AllocSucceeds`,
`AllocFails` or `DirectReclaim`; the others are one step, but for the passes of
`ashmem_unpin`, one step for each range it joins. `unpinned`, `gone` and
`forgotten` are history: what user space has unpinned, what of it was purged,
and what an `-ENOMEM` left out. `ASHMEM_PURGE_ALL_CACHES` is a shrink with a
count that was read without the mutex, so with any. `MaxPage` is `(size_t)-1`. A
size may be 0 under a file: `ASHMEM_SET_SIZE` looks at the file without the mutex
and may store any size while `ashmem_mmap` sleeps in `shmem_file_setup`. A request
with length 0 then stands for the pages 0 to `(size_t)-1` (`AllPages`), whose
number, by `range_size`, wraps to 0 in `lru_count`.

**`Binder`**. One object, its node and a reference for each client. `binder_lock`
makes every command one step. `binder_inc_node`, `binder_dec_node` and the
functions on references are operators on records; a transaction is what it does
to the counts, a buffer what it holds until it is freed; `SendBinderFails` is one
that creates the node and then has no memory for the reference. `buffers`, `local` and
`user` say what the processes are holding, `lost` who had a thread exit with
work queued on it, `refused` whose reference got `-EINVAL`, a result that no
caller of `binder_inc_ref` looks at. User space keeps the protocol: it gives
back what it took, uses a strong reference only if it has one, and acknowledges.
Work items are read in any order.

`MC*` modules give the constants their values. The theorems about a module `M` are
in `MProofs`, those about `UserWakeLock` and `PmSuspend` in `WakeLockUsersProofs`.
An operator defined just before a definition, with the same parameters
(`SweptEarly` before `Swept`), is a wrong variant of it. Each one breaks a property that `PROJECT.json` names under
`mutants`, and shows that the property depends on that piece of code.

## What the runs check

| run | bounds | shows |
|---|---|---|
| `wakelock` | one user and one driver lock of either type beside the main lock and `unknown_wakeup`, timeouts 0 to 2 jiffies, on both sides of a jiffy for the user's | `FlagsMatchLists`, `SuspendNotForgotten`, `TimerCoversLocks`, `PreventingExact`, `UserTimeoutKept`, `HeldUntilReleased` |
| `pm_suspend` | one driver lock, timeouts 0 and 1 | `NoSleepWithWakeLock`, `TakenDownInOrder`, `AllBroughtBack`, `HeldLockEndsSuspend`, `KeepsSuspending`; refinement of `WLSpec` |
| `early_suspend` | two tasks, two handlers around the frame buffer's level | `HandlersMatchState`, `CompletionsMatchWaiters`, `OnReturns`, `SleepReleasesMainLock`; `OneWriterHonoured` and `OneWriterWaits` for as long as one task makes the requests |
| `device_pm` | a chain of three devices and one beside it | `ListsExact`, `DepthFirst`, `ChildrenSleepFirst`, `AllBackOn`, `TransitionEnds` |
| `alarm` | both wakeup alarms, two ticks to the second, one waiting thread, a shift of the clock by a second, a power-on time that is past | `NeverSleepsPast`, `NoSleepWithPending`, `TimersRun`, `LockForAlarms`, `WakeupsGoOff` |
| `logger` | a buffer of 8 bytes, entries of 3 and 4 bytes with their header, two writers, one reader, one fault | `NoSilentLoss`, `WaitersCaughtUp`; refinement of `LogQueue` (`ImplementsQueue`) |
| `ashmem` | an area of three pages and one of one page or, set during mmap, of size 0; three range objects; `(size_t)-1` is 4 | `ListsAgree`, `UnpinnedExact`, `PurgeReported` |
| `binder_refs` | two clients, one buffer of each kind in a process, one reference of each kind taken by each | `CountsExact`, `OwnerWillKnow` |
| `binder_death` | one client with two notifications | `DeathsInStep`, `DeathTold`, `ClearAnswered`, `NodeReleased` |

The type invariant of each module is checked too, as the first part of a
structural invariant (`FlagsMatchLists`, `CompletionsMatchWaiters`, `ListsExact`,
`TimersRun`, `NoSilentLoss`, `ListsAgree`, `CountsExact`); `PMTypeOK` is proved.

Why the bounds are enough: two timed locks with different expiries, next to the
main lock and `unknown_wakeup`, give each combination of expired, running and
infinite that a walk can meet, and three lengths of time let the timer be too
early, right and too late. A timeout of 0 stands for every timeout that is
already over. The suspend path looks at the locks only as a whole, so one
driver lock is enough for it. Two tasks are needed for the races in
`request_suspend_state`, and a third would only repeat what the second does. A
chain of three devices has a device that is parent and child at once.

Half a second is the coarsest tick that makes the RTC's rounding visible, and
two alarms are needed for the choice of the first; as no bound is put on the
length of a suspend, the RTC's match, its lock's end and the end of
`alarm_wake_lock` meet the path in every place. In 8 bytes a write can cover
one entry or two, the length and the payload can each lie across the end, and a
reader can be overtaken by more than a lap. Three pages let a pin cut a range in
two and an unpin join two; with three range objects the slab runs out, and an
allocation may fail before that as well. Two clients are needed to pass a
reference on and to give up one while the other holds on. For notifications the
clients are independent, and two objects let a client ask again while the one
it has cleared is still on its way.

### Where the code does not do what it says

Three runs are expected to end in a violation.

* `stale_request`: `request_suspend_state` stores `requested_suspend_state` after
  it has waited for the frame buffer (earlysuspend.c:235). A task that waits in
  an "on" request overwrites a newer "mem" of another task. Early suspend runs,
  the main lock is released, `pm_suspend(PM_SUSPEND_ON)` returns `-EINVAL`, and
  the phone, with its screen off, takes `unknown_wakeup` every half second
  instead of sleeping.
* `complete_adds`: `dpm_complete` walks from the tail and puts each device at the
  head of its own list (drivers/base/power/main.c:562). A child registered
  during a `complete()` callback below a device that was already moved is moved
  in front of it, and the next suspend takes the parent down first. The MMC
  layer rescans for cards from a work queue that is not frozen, right after the
  host has resumed.
* `logger_fault`: `logger_aio_write` reads `w_off` before it takes the mutex
  (logger.c:414) and stores it back if `copy_from_user` faults. If it waited
  while another task wrote, that sets `w_off` back before the other's entry; a
  reader that has read it is then a lap behind and is given bytes that are no
  entry.

With a single writer of `/sys/power/state`, with no device added during
`dpm_complete` and with no fault after a wait, the promises hold (runs
`early_suspend`, `device_pm`, `logger`).

The models show more that no run singles out:

* Only the caller that queues `late_resume_work` waits for the frame buffer
  (earlysuspend.c:226). After a fast on, off, on of two tasks the last caller
  finds the work pending and returns while the frame buffer is still off, though
  the comment at line 228 says that it is blocked; hence the premise of
  `OneWriterWaits`.
* The u64 number of jiffies of a user lock is cut to a 32 bit long
  (userwakelock.c:111). From 2^31 jiffies on, about 248 days, the timeout comes
  out negative and the lock expires at once; multiples of 2^32 give zero and a
  lock without a timeout. `UserTimeoutKept` is about timeouts that fit (`Fits`).
* `alarm_suspend` puts the power-on time in place of the first wakeup alarm also
  when it is past (alarm.c:455). `ANDROID_ALARM_SET` rounds down to the minute
  and takes off 30 s, so a power-on alarm set less than 90 s ahead may be behind
  at once; every suspend with a wakeup alarm enabled is then refused as "alarm
  about to go off" until it is set again.
* Nothing bounds the time from the end of `alarm_suspend` to the last check; the
  watchdog alone allows each device 3 s (drivers/base/power/main.c:455). If it
  takes more than a second, the RTC may match on the way down. Its interrupt takes
  a lock of one second, and if that runs out before the last check the phone
  sleeps with a wakeup alarm enabled and nothing set to wake it. Hence the
  premise `since < Hz` of `NeverSleepsPast`, and `Overslept` in `WakeupsGoOff`.
* `alarm_suspend` lets a pending alarm pass if `alarm_wake_lock` is active
  (alarm.c:416), and leaves the rest to the last check. The lock lasts 5 s. If it
  was taken after wakelock.c:362, or is timed out and still flagged, it may be
  over by the last check, and the phone sleeps with an alarm that nobody has
  collected; hence the premise `~ lapsed` of `NoSleepWithPending`.
* If `do_settimeofday` fails in `ANDROID_ALARM_SET_RTC`, `elapsed_rtc_delta` has
  been corrected already, and every elapsed alarm is off by the difference
  (alarm.c:264).
* `sign` of the log is not set back when a write faults, so that the overflow
  warning may come a lap late or early; hence the premise `faults = 0` of
  `NoSilentLoss`.
* `range_alloc` and `shmem_file_setup` allocate with `GFP_KERNEL` and with
  `ashmem_mutex` held (ashmem.c:165, 272); memory reclaim then calls
  `ashmem_shrink`, which waits for the mutex of its own task. `DirectReclaim`
  models it; the operation is stuck and so is every later one. The run `ashmem`
  therefore does not check deadlock.
* `ashmem_pin` ignores that the range for the second half could not be
  allocated, and `ashmem_unpin` has deleted the ranges it joined before it fails.
  Their pages are never purged, and an earlier purge of them is not reported.
* `ashmem_unpin` joins pages to a range that was purged, and the range stays
  marked (ashmem.c:508) and off the LRU list. Their memory is not taken back until
  they are pinned, and the pin then reports a purge that did not meet them; hence
  the exception `MarkedPurged` in `UnpinnedExact`.
* A pin, unpin or status request at the very end of an area with a length of
  zero is let through with no pages. The empty range that such an unpin makes
  lets `ASHMEM_GET_PIN_STATUS` call the last page unpinned.
* `ASHMEM_SET_SIZE` does not take the mutex (ashmem.c:603) and may change the
  size while `ashmem_mmap` sets up the backing file with the old one. With a size
  of 0 stored there, an unpin of offset 0 and length 0 makes a range that ends at
  page `(size_t)-1` (ashmem.c:568) and counts as no pages. The lists stay
  consistent, but `ashmem_shrink` stops on its count of pages, so such a range is
  purged without being counted.
* A transaction that creates the node of an object and then gets no memory for the
  reference fails and leaves the node (binder.c:1561). It has no reference and no
  work that would free it, so it stays until its owner exits, or until the object
  is sent again and given back; hence the premise of `NodeReleased`.
* A binder thread that exits takes node and death work off its list and drops it
  (binder.c:2544): the owner is never told of a reference, and a later
  `BC_INCREFS` of a client is refused without an answer. The same refusal meets
  a client whose object died before the owner had read the news. A cleared
  notification, or one that was told and not acknowledged, is never freed if
  its process exits (binder.c:3055).

### Fairness

* `PMFairSpec`: the clock ticks, a due timer is run, and the thread of
  `suspend_work_queue` runs (it is not freezable). Inside `pm_suspend` it leaves
  each phase; the freezer's 20 s limit justifies that for the one loop. The
  hardware wake up is not fair, since the system may sleep for good.
* `ESFairSpec`: the work queue runs and handlers return; a woken task runs;
  `pm_suspend` returns if the main lock is held (last check) or a caller is
  blocked, because an uninterruptible sleeper makes the freezer give up.
  `OnReturns` assumes that "on" requests stop at some point: a completion goes
  to any waiter, so a steady stream of them can starve one.
* `DPMFairSpec`: the thread runs and callbacks return. `TransitionEnds` assumes
  that devices stop coming and that `prepare()` stops returning `-EAGAIN`,
  which the code retries without a limit.

* `AlarmFairSpec`: time passes again and again (strong fairness, because an
  interrupt that is due disables it for a moment), the RTC's interrupt is served,
  so is an alarm's timer that is due again and again (strong fairness, because
  each of any number of suspends stops it for a while), and the suspend path goes
  on. Nothing makes a suspend begin, and nothing but the RTC has to wake the
  phone. `WakeupsGoOff` assumes that the alarm and the clock are not set for ever,
  and excepts a phone that sleeps past the alarm after a suspend slower than a
  second.
* `BinderSpec`: threads of a process read what is queued for it and acknowledge
  it. Nothing makes anyone send, clear or exit.

Deadlock is checked in every run but those of `Ashmem` and `Binder`, where a
stuck task and the end of all processes are states the system can stop in.

## What is proved

Each theorem holds for every value of the constants that its module's named
assumptions allow. An inductive invariant was checked by TLC on the instance of
the component's run before it was proved.

**`WakeLockProofs`**, for every set of locks, every set of timeouts and every HZ
(`LocksAssumption`, `TimeoutAssumption`):

* `WLTypeCorrect`: `WLSpec => []WLTypeOK`, and with `LinksMatchFlags`
  `FlagsAlwaysMatch`: `WLSpec => []FlagsMatchLists`.
* `SuspendNeverForgotten`: `WLSpec => []SuspendNotForgotten`. By itself it is not
  inductive. The suspend work and the timer function simply return when
  `has_wake_lock_locked` finds a timed lock, which is right only because the
  timer is set for that lock (`TimerCoversLocks`), and `wake_lock_destroy` is
  harmless only because a lock on the active list carries `ACTIVE`
  (`LinksMatchFlags`). `unknown_wakeup` must be of type SUSPEND, or taking it
  would arm nothing. `WLInv` is the conjunction. Per action, the proof asks who
  will look again after it; `WalkLooksAgain` answers for every walk.
* `TimerAlwaysCovers`: `WLSpec => []TimerCoversLocks`, from the same `WLInv`.
* `MarksAreExact`: `WLSpec => []PreventingExact`. The code asks the flag `ACTIVE`
  of the main lock and not whether it is on the list, so `MarkInv` says that the
  two agree (`MainUntimed`: the main lock never expires), that what is listed
  is initialized, and that an expired lock may carry the mark until a walk takes
  it off. `SweepKeepsMarks` and `UpdateMarks` are the two halves of each action.
* `HeldTillReleased`: `WLSpec => HeldUntilReleased`, an action property:
  `WalkDropsExpired` says what a walk may drop, for the flags and times in the
  middle of the critical section.

**`WakeLockUsersProofs`** holds the theorems about the two modules that extend the
core. For `UserWakeLock`, with `UserAssumption` and `UserTimeoutsAssumption`
(`Timeouts` has what user space's nanoseconds are converted to; `MaxAge`, the
bound of a history variable, is not reached before a timeout that fits is over; a
long has more than two values):

* `UserImplementsWakeLock`: `UWSpec => WLSpec`. The call that holds `tree_lock`
  stores the result of its own lookup (`StoringOK`), so each step of user space
  is one that the owner of a lock may take. The theorems above thus hold with
  user space's locks among the others, as the run `wakelock` checks them.
* `UserTimeoutsKept`: `UWSpec => []UserTimeoutKept`, for any widths of the
  integers. The property is about nanoseconds; `Kept` says in jiffies that the
  time left and the age of the request add up to what was asked. `RoundedUp` is
  the arithmetic of `lookup_wake_lock_name`, and `KernelUndisturbs` says that
  no other user of the core changes a lock unless its time is up.

For `PmSuspend`, from the same assumptions as the core:

* `PmSuspendImplementsWakeLock`: `PMSpec => WLSpec`; each step of the suspend path
  is `FreezerCheck`, `PowerSuspendLate`, `SuspendReturn` or a stutter of the core.
  The theorems about the core therefore hold of the whole path too.
* `NeverAsleepWithWakeLock`: `PMSpec => []NoSleepWithWakeLock`. Strengthened with
  the fact that interrupts are off in the phases concerned: the check leaves the
  list empty, and nobody can run until it no longer matters.
* `SuspendPathOrdered`, `SuspendPathBalanced`: `PMSpec => []TakenDownInOrder` and
  `PMSpec => []AllBroughtBack`. `PhaseInv` says for each place of the thread what
  may be down there; both properties follow from it.
* `PMTypeCorrect`: `PMSpec => []PMTypeOK`, from `WLTypeCorrect` by way of the
  refinement, and from `PhaseInv`.

**`EarlySuspendProofs`**, for any handlers and levels and any finite set of
callers (`CallersAssumption`, `LevelAssumption`), all from one `ESInv`:

* `HandlersAlwaysMatch`: `ESSpec => []HandlersMatchState`. `Walks` describes a walk
  that is under way: the handlers that are off are a prefix of the list, and
  what is still to do is the rest of it. `Sorted` turns the prefix into levels.
* `CompletionsAlwaysMatch`: `ESSpec => []CompletionsMatchWaiters`. A work is queued
  at most once (`OneEach`), so that completions given and to come can be counted
  against those that wait (`Matched`).
* `OneWriterIsHonoured`, `OneWriterAlwaysWaits`: `OneWriterHonoured` as an invariant
  and `OneWriterWaits` as an action property. `OneWriter` says what a single
  writer that waits keeps from changing, and needs the counting above: a
  completion that is there belongs to the one waiter.

**`DevicePMProofs`**, for any tree of devices (`ParentAssumption`):

* `ListsAlwaysExact`, `DevicesAllBackOn`: `DPMSpec => []ListsExact` and
  `DPMSpec => []AllBackOn`, devices added under `dpm_complete` included. `Stages`
  says for each place of the thread which status the devices on either list may
  have, the one whose callback runs apart; `Marks` ties `prepared` and `asleep`
  to the status. Lemmas say what `list_del`, `list_add` and the splices do.
* `ListAlwaysDepthFirst`, `ChildrenAlwaysSleepFirst`: if `AddsWhileCompleting` is
  FALSE, `DPMSpec => []DepthFirst` and `DPMSpec => []ChildrenSleepFirst`. `Order`
  says which of the two lists comes before the other during a walk and where the
  device stands whose callback runs; `SleepOrder` follows from it step by step.
  The premise is where the proof of `Order` fails without it, and the run
  `complete_adds` shows that it must.

**`AlarmProofs`**, for any alarms, times and lengths of a suspend (`AlarmAssumption`
is about types only):

* `AlarmTypeCorrect` and `TimersAlwaysRun`: `AlarmSpec => []TimersRun`; `TimerPlaces`
  says between which two steps of `alarm_suspend` which timers are cancelled.
* `LockHeldForAlarms`: `AlarmSpec => LockForAlarms`, an action property, from
  `LockHasReason`.
* `NeverSleepsWithPending`: `AlarmSpec => []NoSleepWithPending`. `PendingIsLocked`
  says that past `alarm_suspend`'s look at `alarm_pending` a pending alarm has
  `alarm_wake_lock` still running, or it has lapsed. Nothing is assumed about when
  the lock was taken, whether the freezer looked at it, or how long it lasts.
* `SleepIsCovered`: `AlarmSpec => []NeverSleepsPast`. `RtcCovers` follows the time
  from `alarm_suspend`'s choice through the conversion to seconds into the RTC: on
  the way down the RTC is set for the alarm or before, or it has gone off and its
  lock outlasts what is left of the second, or the second is over. A slower
  suspend is a behaviour of the specification that the property leaves out,
  and the code lets it oversleep.

**`BinderProofs`**, for any finite set of clients and any notifications
(`BinderAssumption`):

* `CountsAreExact`, `OwnerAlwaysKnows`: `BinderSpec => []CountsExact` and
  `BinderSpec => []OwnerWillKnow`, from `BinderInv`. `GoodNode` says what a node's
  counts are while the owner lives and after; `Told` that the owner knows, or
  has work queued, where the strong references of clients count with their
  number. A lemma for each function of binder.c gives its result, and each
  command is a use of it; `NewNodeGood` covers the node that a failed transaction
  leaves.
* `DeathsStayInStep`: `BinderSpec => []DeathsInStep`, from `DeathInv`.

**`LoggerProofs`**, for any writers, readers and entries, and any buffer that takes
two of them (`LoggerAssumption`), if `StaleFaults` is FALSE:

* `NoWaiterMissesAnEntry`: `WaitersCaughtUp` is an invariant. During a write the
  reader that waits is where the write began (`WaitInv`), so it has missed nothing
  if the write is taken back, and `fix_up_readers` does not move it. `StartStays`
  is the modular arithmetic.
* `LossIsNeverSilent`: `NoSilentLoss` is an invariant. `LossInv` adds the ring:
  there is a set of places where entries begin, with the head and the readers
  among them, from each of which the lengths lead to where the current write began
  (`Laid`) and none of which that write will reach (`Clear`). What is copied is in
  the buffer (`Written`), and a reader's lag is at least what it has not read
  (`LagOK`). `FixUpLands` says where `fix_up_readers` takes a reader, by the loop
  of `get_next_entry` (`LoopEnds`, `NextInRing`); `EntryKept` that a write leaves
  the entries it does not cover.
* `RingImplementsQueue`: `LoggerSpec => ImplementsQueue`, the refinement of
  `LogQueue`. Each step of the logger is shown to be the step of the queues named
  in its lemma (`HeaderIsMakeRoom`, `EndIsAdd`, `ReadIsRead`...) or to leave them
  alone, from `QueueInv`, which is `LossInv` and that a reader without the log open
  has no result of a read. `QueueAt` is the queue at a place as a function of the
  buffer and of where the write began; `QueueIs` unfolds it by one entry,
  `QueueTypes` says that its bytes are the distance, `QueueSame`, `QueueAppend` and
  `QueuesOnward` what a write and a move do to it.
* `ReadsAreWhole`: `ReadsOneEntry`, which the run `logger_fault` shows violated, is
  an invariant without stale faults. So they are all that stands against it.

All four assume that `StaleFaults` is FALSE: a fault whose `orig` is out of date
takes back other writers' entries, as the finding says.

**`AshmemProofs`**, for any areas, sizes, range objects and requests
(`AshmemAssumption`), all from one `AshmemInv` (theorem `AshmemInvariant`):

* `ListsAlwaysAgree`, `UnpinnedPagesAreListed`, `PurgesAreReported`: `ListsAgree`,
  `UnpinnedExact` and `PurgeReported` are invariants. None is inductive, since an
  unpin that joins ranges and a pin that cuts one have the lists incomplete in
  the middle. `HolderOK` says for each such place what the task that holds the
  mutex has taken off the lists and is about to put back; `PagesOK` that the
  lists with that are the unpinned pages; `PurgedOK` and `HistoryOK` that the
  purged flag of a range, or of the one about to be made, stands for every purge
  in it. `RangesOK`, `ListsOK`, `LruOK` and `AreasOK` are what the lists are. The
  loop over a list is its first member that the condition picks (`LeastMember`),
  `WithoutIs` and `InsertBeforeIs` are `list_del` and the insertion. `PagePairs`
  gives `lru_count` as the number of pages on the LRU list, and `CountedSize` says
  that `range_size` is that number for a range, none for the one that is all pages.

An induction over data is not in the prover's reach as a rule with a predicate.
Where these proofs need one, it is the least member of a set of numbers
(`LeastMember`): the first place where a loop or a recursive function would go
wrong. `RingInduction`, `ParseExists` and `SumExists` are proved that way.

Only model-checked: all liveness and the fairness behind it, which the prover does
not handle (`HeldLockEndsSuspend`, `KeepsSuspending`, `OnReturns`,
`SleepReleasesMainLock`, `TransitionEnds`, `WakeupsGoOff`, `DeathTold`,
`ClearAnswered`, `NodeReleased`). Every safety property of a passing run is proved.

## What is not modelled

* The statistics of wake locks and all logging.
* `EarlySuspend` is not yet composed with `PmSuspend`; in the latter a request is
  a step that may come at any time while user tasks run.
* jiffies as a wrapping counter: `time` differences of more than 2^31 jiffies.
* What the 3 s watchdog of `dpm_suspend` does when it goes off, and the hooks of bus, type and class
  separately: one result per device.
* Binder's transactions themselves: stacks, replies, the thread pool, priorities,
  the buffer allocator and file descriptors; the context manager, whose node
  is made without an owner's count. In ashmem, names and protection masks.
* Ashmem's accesses without the mutex are made at one instant: `ASHMEM_SET_SIZE`
  looks at the file and stores the size in one step (there is no preemption
  between the two), and a pin or unpin reads the file and the size when it has
  the mutex and not when it starts to wait for it.
* The byte count `sign` of the log is a long and wraps after 2^31 bytes.
* The physical memory allocator, `drivers/misc/pmem.c`.
* The modem interface (`mach-mt6516/ccci*.c`), `xlog.c` and the bus monitor have
  no bodies in this tree. WebKit and the stock kernel are third party. The
  low memory killer keeps no state; register level drivers have no protocol
  beyond what `mtkpm.c` uses.

## Plan

1. `PowerSystem`: `EarlySuspend` with the real `WakeLock` and `PmSuspend` instead
   of `main_held`, with `DevicePM` and `Alarm` in the device step of `PmSuspend`.
2. `Pmem`: the buddy allocator and its revocation.
3. `WakeLock` with the lists as sequences and jiffies modulo 2^w, shown to
   implement the present one.
