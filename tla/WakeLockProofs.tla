--------------------------- MODULE WakeLockProofs ---------------------------
(***************************************************************************)
(* Proofs about WakeLock for any set of locks and any timeouts.            *)
(***************************************************************************)
EXTENDS WakeLock, TLAPS

----------------------------------------------------------------------------
(* What the list operators return. *)

\* expire_wake_lock keeps types.
LEMMA SweptTypes ==
    ASSUME NEW f \in [Locks -> SUBSET Flags],
           NEW k \in [Locks -> {"none", "inactive", "active"}],
           NEW t \in [Locks -> Nat]
    PROVE  /\ SweptFlags(f, k, t) \in [Locks -> SUBSET Flags]
           /\ SweptLinks(f, k, t) \in [Locks -> {"none", "inactive", "active"}]
BY DEF SweptFlags, SweptLinks, Flags

\* update_sleep_wait_stats_locked keeps types.
LEMMA UpdateTypes ==
    ASSUME NEW f \in [Locks -> SUBSET Flags], NEW k, NEW t, NEW done
    PROVE  UpdateSleepWaitStats(done, f, k, t) \in [Locks -> SUBSET Flags]
BY DEF UpdateSleepWaitStats, Flags

\* What has_wake_lock_locked may return.
LEMMA ReturnTypes ==
    ASSUME NEW k, NEW t \in [Locks -> Nat], NEW ret \in Returns(k, t)
    PROVE  ret \in Nat \cup {-1}
BY DEF Returns, ActiveLocks

\* queue_work leaves the work queued and drops none.
LEMMA QueueTypes ==
    ASSUME queue \in Seq(Works), NEW w \in Works, QueueWork(w)
    PROVE  /\ queue' \in Seq(Works)
           /\ \E i \in 1 .. Len(queue') : queue'[i] = w
           /\ Queued("suspend_work") => Queued("suspend_work")'
<1>1. CASE Queued(w)
  BY <1>1 DEF QueueWork, Queued
<1>2. CASE ~ Queued(w)
  <2>1. queue' = Append(queue, w)
    BY <1>2 DEF QueueWork
  <2>2. /\ queue' \in Seq(Works)
        /\ Len(queue') = Len(queue) + 1
        /\ queue'[Len(queue) + 1] = w
        /\ \A i \in 1 .. Len(queue) : queue'[i] = queue[i]
    BY <2>1
  <2>3. Len(queue) + 1 \in 1 .. Len(queue')
    BY <2>2
  <2>. QED
    BY <2>2, <2>3 DEF Queued
<1>. QED
  BY <1>1, <1>2

\* The timer and the queue after a walk.
LEMMA ArmTypes ==
    ASSUME queue \in Seq(Works), NEW ret \in Nat \cup {-1}, ArmOrQueue(ret)
    PROVE  /\ queue' \in Seq(Works)
           /\ expire_timer' \in Nat \cup {NoTimer}
<1>1. expire_timer' \in Nat \cup {NoTimer}
  BY DEF ArmOrQueue, NoTimer
<1>2. "suspend_work" \in Works
  BY DEF Works
<1>3. queue' \in Seq(Works)
  BY <1>2, QueueTypes DEF ArmOrQueue
<1>. QED
  BY <1>1, <1>3

----------------------------------------------------------------------------
(* Type correctness. *)

\* wake_lock_internal keeps types.
LEMMA InternalTypes ==
    ASSUME WLTypeOK, NEW l \in Locks, NEW timeout \in Int,
           NEW has_timeout,
           WakeLockInternal(l, timeout, has_timeout)
    PROVE  /\ flags' \in [Locks -> SUBSET Flags]
           /\ type' \in [Locks -> LockTypes]
           /\ link' \in [Locks -> {"none", "inactive", "active"}]
           /\ left' \in [Locks -> Nat]
           /\ expire_timer' \in Nat \cup {NoTimer}
           /\ expire_running' \in BOOLEAN
           /\ queue' \in Seq(Works)
           /\ new_event' \in BOOLEAN
           /\ wait_for_wakeup' \in BOOLEAN
<1>. DEFINE f1 == [flags EXCEPT ![l] = TakenFlags(l, has_timeout)]
            k1 == [link EXCEPT ![l] = "active"]
            t1 == [left EXCEPT ![l] = IF has_timeout /\ timeout > 0
                                      THEN timeout ELSE 0]
            f2 == IF l = main_wake_lock
                  THEN UpdateSleepWaitStats(TRUE, f1, k1, t1)
                  ELSE IF "ACTIVE" \notin f1[main_wake_lock]
                  THEN UpdateSleepWaitStats(FALSE, f1, k1, t1)
                  ELSE f1
<1>1. TakenFlags(l, has_timeout) \in SUBSET Flags
  BY DEF TakenFlags, WLTypeOK, Flags
<1>2. /\ f1 \in [Locks -> SUBSET Flags]
      /\ k1 \in [Locks -> {"none", "inactive", "active"}]
      /\ t1 \in [Locks -> Nat]
  BY <1>1 DEF WLTypeOK
<1>3. f2 \in [Locks -> SUBSET Flags]
  <2>. HIDE DEF f1, k1, t1
  <2>. QED
    BY <1>2, UpdateTypes
<1>4. /\ left' = t1
      /\ type' = type
      /\ expire_running' = expire_running
      /\ \/ /\ flags' = f1
            /\ link' = k1
            /\ UNCHANGED <<expire_timer, queue, new_event, wait_for_wakeup>>
         \/ /\ new_event' = TRUE
            /\ wait_for_wakeup' = FALSE
            /\ \/ \E ret \in Returns(k1, t1) :
                     /\ flags' = SweptFlags(f2, k1, t1)
                     /\ link' = SweptLinks(f2, k1, t1)
                     /\ ArmOrQueue(ret)
               \/ /\ flags' = f2
                  /\ link' = k1
                  /\ ArmOrQueue(-1)
  BY DEF WakeLockInternal
<1>. HIDE DEF f1, k1, t1, f2
<1>5. CASE /\ flags' = f1
           /\ link' = k1
           /\ UNCHANGED <<expire_timer, queue, new_event, wait_for_wakeup>>
  BY <1>2, <1>4, <1>5 DEF WLTypeOK
<1>6. CASE /\ new_event' = TRUE
           /\ wait_for_wakeup' = FALSE
           /\ \E ret \in Returns(k1, t1) :
                 /\ flags' = SweptFlags(f2, k1, t1)
                 /\ link' = SweptLinks(f2, k1, t1)
                 /\ ArmOrQueue(ret)
  <2>1. /\ flags' \in [Locks -> SUBSET Flags]
        /\ link' \in [Locks -> {"none", "inactive", "active"}]
    BY <1>2, <1>3, <1>6, SweptTypes
  <2>2. PICK ret \in Returns(k1, t1) : ArmOrQueue(ret)
    BY <1>6
  <2>3. /\ queue' \in Seq(Works)
        /\ expire_timer' \in Nat \cup {NoTimer}
    BY <1>2, <2>2, ReturnTypes, ArmTypes DEF WLTypeOK
  <2>. QED
    BY <1>2, <1>4, <1>6, <2>1, <2>3 DEF WLTypeOK
<1>7. CASE /\ new_event' = TRUE
           /\ wait_for_wakeup' = FALSE
           /\ flags' = f2
           /\ link' = k1
           /\ ArmOrQueue(-1)
  BY <1>2, <1>3, <1>4, <1>7, ArmTypes DEF WLTypeOK
<1>. QED
  BY <1>4, <1>5, <1>6, <1>7

\* wake_unlock keeps types.
LEMMA UnlockTypes ==
    ASSUME WLTypeOK, NEW l \in Locks, WakeUnlock(l)
    PROVE  WLTypeOK'
<1>. DEFINE f1 == [flags EXCEPT ![l] =
                      @ \ {"ACTIVE", "AUTO_EXPIRE", "PREVENTING_SUSPEND"}]
            k1 == [link EXCEPT ![l] = "inactive"]
            t1 == [left EXCEPT ![l] = 0]
            f2 == SweptFlags(f1, k1, t1)
            k2 == SweptLinks(f1, k1, t1)
<1>1. /\ f1 \in [Locks -> SUBSET Flags]
      /\ k1 \in [Locks -> {"none", "inactive", "active"}]
      /\ t1 \in [Locks -> Nat]
  BY DEF WLTypeOK
<1>2. /\ left' = t1
      /\ UNCHANGED <<type, expire_running, worker, new_event, wait_for_wakeup>>
      /\ \/ /\ flags' = f1
            /\ link' = k1
            /\ UNCHANGED <<expire_timer, queue>>
         \/ /\ flags' = UpdateSleepWaitStats(FALSE, f2, k2, t1) \/ flags' = f2
            /\ link' = k2
            /\ \E ret \in Returns(k1, t1) : ArmOrQueue(ret)
  BY DEF WakeUnlock
<1>. HIDE DEF f1, k1, t1
<1>3. /\ f2 \in [Locks -> SUBSET Flags]
      /\ k2 \in [Locks -> {"none", "inactive", "active"}]
  BY <1>1, SweptTypes
<1>. HIDE DEF f2, k2
<1>4. /\ flags' \in [Locks -> SUBSET Flags]
      /\ link' \in [Locks -> {"none", "inactive", "active"}]
  <2>1. UpdateSleepWaitStats(FALSE, f2, k2, t1) \in [Locks -> SUBSET Flags]
    BY <1>3, UpdateTypes, Zenon
  <2>. QED
    BY <1>1, <1>2, <1>3, <2>1
<1>5. /\ queue' \in Seq(Works)
      /\ expire_timer' \in Nat \cup {NoTimer}
  <2>1. CASE UNCHANGED <<expire_timer, queue>>
    BY <2>1 DEF WLTypeOK
  <2>2. CASE \E ret \in Returns(k1, t1) : ArmOrQueue(ret)
    BY <1>1, <2>2, ReturnTypes, ArmTypes DEF WLTypeOK
  <2>. QED
    BY <1>2, <2>1, <2>2
<1>. QED
  BY <1>1, <1>2, <1>4, <1>5 DEF WLTypeOK

\* wakelocks_init establishes the types.
LEMMA InitTypes == WLInit => WLTypeOK
<1>. SUFFICES ASSUME WLInit PROVE WLTypeOK
  OBVIOUS
<1>1. flags \in [Locks -> SUBSET Flags]
  BY DEF WLInit, Flags
<1>2. queue \in Seq(Works)
  BY DEF WLInit
<1>. QED
  BY <1>1, <1>2 DEF WLInit, WLTypeOK, LockTypes, NoTimer

\* has_wake_lock keeps types.
LEMMA HasWakeLockTypes ==
    ASSUME WLTypeOK, NEW ret \in Returns(link, left), HasWakeLock(ret)
    PROVE  /\ flags' \in [Locks -> SUBSET Flags]
           /\ type' \in [Locks -> LockTypes]
           /\ link' \in [Locks -> {"none", "inactive", "active"}]
           /\ left' \in [Locks -> Nat]
BY SweptTypes DEF HasWakeLock, WLTypeOK

\* The steps of the suspend work keep types.
LEMMA SuspendWorkTypes ==
    ASSUME WLTypeOK,
           SuspendWork \/ SuspendReturn \/ FreezerCheck \/ PowerSuspendLate
    PROVE  WLTypeOK'
<1>. USE DEF lockVars, timerVars
<1>1. CASE Dequeue("suspend_work")
  <2>1. queue' \in Seq(Works)
    BY <1>1 DEF Dequeue, WLTypeOK
  <2>. QED
    BY <1>1, <2>1 DEF Dequeue, WLTypeOK, Works
<1>2. CASE SuspendCheck
  BY <1>2, HasWakeLockTypes DEF SuspendCheck, WLTypeOK
<1>3. CASE SuspendEnter
  BY <1>3 DEF SuspendEnter, WLTypeOK
<1>4. CASE UnknownWakeup
  <2>1. HalfSecond \in Int /\ unknown_wakeup \in Locks
    BY LocksAssumption, TimeoutAssumption
  <2>2. /\ WakeLockInternal(unknown_wakeup, HalfSecond, TRUE)
        /\ worker' = "idle"
    BY <1>4 DEF UnknownWakeup
  <2>. QED
    BY <2>1, <2>2, InternalTypes DEF WLTypeOK
<1>5. CASE SuspendReturn
  BY <1>5 DEF SuspendReturn, WLTypeOK
<1>6. CASE FreezerCheck
  BY <1>6, HasWakeLockTypes DEF FreezerCheck, WLTypeOK
<1>7. CASE PowerSuspendLate
  BY <1>7, HasWakeLockTypes DEF PowerSuspendLate, WLTypeOK
<1>. QED
  BY <1>1, <1>2, <1>3, <1>4, <1>5, <1>6, <1>7 DEF SuspendWork

\* Every step keeps types.
LEMMA TypeStep == WLTypeOK /\ [WLNext]_wlVars => WLTypeOK'
<1>. SUFFICES ASSUME WLTypeOK, [WLNext]_wlVars
              PROVE  WLTypeOK'
  OBVIOUS
<1>1. ASSUME NEW l \in Locks, NEW ty \in LockTypes, WakeLockInit(l, ty)
      PROVE  WLTypeOK'
  BY <1>1 DEF WakeLockInit, WLTypeOK, timerVars, Flags
<1>2. ASSUME NEW l \in Locks, WakeLockDestroy(l)
      PROVE  WLTypeOK'
  BY <1>2 DEF WakeLockDestroy, WLTypeOK, timerVars
<1>3. ASSUME NEW l \in Locks, WakeLock(l)
      PROVE  WLTypeOK'
  <2>1. PICK no : WakeLockInternal(l, 0, no) /\ worker' = worker
    BY <1>3, Zenon DEF WakeLock
  <2>. QED
    BY <2>1, InternalTypes DEF WLTypeOK
<1>4. ASSUME NEW l \in Locks, NEW timeout \in Timeouts, WakeLockTimeout(l, timeout)
      PROVE  WLTypeOK'
  <2>1. /\ timeout \in Int
        /\ WakeLockInternal(l, timeout, TRUE)
        /\ worker' = worker
    BY <1>4, TimeoutAssumption DEF WakeLockTimeout
  <2>. QED
    BY <2>1, InternalTypes DEF WLTypeOK
<1>5. ASSUME NEW l \in Locks, WakeUnlock(l)
      PROVE  WLTypeOK'
  BY <1>5, UnlockTypes
<1>6. CASE Tick
  <2>1. left' \in [Locks -> Nat] /\ expire_timer' \in Nat \cup {NoTimer}
    BY <1>6 DEF Tick, CountDown, WLTypeOK, NoTimer
  <2>. QED
    BY <1>6, <2>1 DEF Tick, WLTypeOK
<1>7. CASE TimerDue
  BY <1>7 DEF TimerDue, WLTypeOK, lockVars
<1>8. CASE ExpireWakeLocks
  <2>1. PICK ret \in Returns(link, left) :
           /\ HasWakeLock(ret)
           /\ IF ret = 0 THEN QueueWork("suspend_work") ELSE UNCHANGED queue
    BY <1>8 DEF ExpireWakeLocks
  <2>2. queue' \in Seq(Works)
    BY <2>1, QueueTypes DEF WLTypeOK, Works
  <2>. QED
    BY <1>8, <2>1, <2>2, HasWakeLockTypes DEF ExpireWakeLocks, WLTypeOK
<1>9. CASE UNCHANGED wlVars
  BY <1>9 DEF wlVars, lockVars, timerVars, WLTypeOK
<1>. QED
  BY <1>1, <1>2, <1>3, <1>4, <1>5, <1>6, <1>7, <1>8, <1>9, SuspendWorkTypes,
     LocksAssumption DEF WLNext, DriverStep, OwnerStep, MainStep, Drivers

\* Every variable of wakelock.c keeps its type, for any locks and timeouts.
THEOREM WLTypeCorrect == WLSpec => []WLTypeOK
BY InitTypes, TypeStep, PTL DEF WLSpec

----------------------------------------------------------------------------
(* No suspend is forgotten.  SuspendNotForgotten alone is not inductive: the *)
(* suspend work and the timer function return on has_wake_lock_locked > 0    *)
(* because the timer is set for the lock they saw (TimerCoversLocks), and    *)
(* destroying a lock is harmless because an active one carries ACTIVE, so    *)
(* that the guard on its timeout applies (LinksMatchFlags).  The lock the    *)
(* suspend work takes must be one of the type that has a timer.              *)

LinksMatchFlags == \A l \in Locks : link[l] = "active" => "ACTIVE" \in flags[l]

WLInv == /\ WLTypeOK
         /\ LinksMatchFlags
         /\ type[unknown_wakeup] = "SUSPEND"
         /\ TimerCoversLocks
         /\ SuspendNotForgotten

\* A walk drops no lock that blocks and changes no flag of those it leaves.
LEMMA SweepFacts ==
    ASSUME NEW f \in [Locks -> SUBSET Flags],
           NEW k \in [Locks -> {"none", "inactive", "active"}],
           NEW t \in [Locks -> Nat]
    PROVE  /\ Infinite(SweptFlags(f, k, t), SweptLinks(f, k, t)) <=> Infinite(f, k)
           /\ ActiveLocks(SweptLinks(f, k, t)) \subseteq ActiveLocks(k)
           /\ \A l \in Locks :
                 SweptLinks(f, k, t)[l] = "active" =>
                     k[l] = "active" /\ SweptFlags(f, k, t)[l] = f[l]
<1>. DEFINE g == SweptFlags(f, k, t)
            m == SweptLinks(f, k, t)
<1>1. \A l \in Locks : /\ l \in Swept(f, k, t) => m[l] = "inactive"
                       /\ l \notin Swept(f, k, t) => m[l] = k[l] /\ g[l] = f[l]
  BY DEF SweptFlags, SweptLinks
<1>2. Swept(f, k, t) \subseteq ActiveLocks(k)
  BY DEF Swept
<1>3. Infinite(f, k) => Swept(f, k, t) = {}
  BY DEF Swept
<1>. HIDE DEF g, m
<1>4. ActiveLocks(m) \subseteq ActiveLocks(k)
  BY <1>1 DEF ActiveLocks
<1>5. ASSUME Infinite(f, k) PROVE Infinite(g, m)
  BY <1>1, <1>3, <1>5 DEF Infinite, ActiveLocks
<1>6. ASSUME Infinite(g, m) PROVE Infinite(f, k)
  BY <1>1, <1>6 DEF Infinite, ActiveLocks
<1>. QED
  BY <1>1, <1>4, <1>5, <1>6 DEF g, m

\* The statistics flag has no influence on what is active or timed.
LEMMA UpdateFacts ==
    ASSUME NEW f \in [Locks -> SUBSET Flags], NEW k, NEW t, NEW done
    PROVE  /\ Infinite(UpdateSleepWaitStats(done, f, k, t), k) <=> Infinite(f, k)
           /\ \A l \in Locks : \A x \in {"ACTIVE", "AUTO_EXPIRE"} :
                 x \in UpdateSleepWaitStats(done, f, k, t)[l] <=> x \in f[l]
<1>. DEFINE g == UpdateSleepWaitStats(done, f, k, t)
<1>1. \A l \in Locks : \A x \in {"ACTIVE", "AUTO_EXPIRE"} :
          x \in g[l] <=> x \in f[l]
  BY DEF UpdateSleepWaitStats
<1>. HIDE DEF g
<1>2. Infinite(g, k) <=> Infinite(f, k)
  BY <1>1 DEF Infinite, ActiveLocks
<1>. QED
  BY <1>1, <1>2 DEF g

\* A walk of the list followed by its use of the result re-establishes that
\* the timer covers the locks and that somebody will look again.
LEMMA WalkLooksAgain ==
    ASSUME NEW f \in [Locks -> SUBSET Flags],
           NEW k \in [Locks -> {"none", "inactive", "active"}],
           NEW t \in [Locks -> Nat],
           NEW ret \in Returns(k, t),
           HasWakeLockLocked(ret, f, k, t),
           queue \in Seq(Works),
           type' = type, left' = t, link' = SweptLinks(f, k, t),
           Infinite(flags, link)' <=> Infinite(f, k),
           ArmOrQueue(ret)
    PROVE  TimerCoversLocks' /\ WillLook'
<1>1. CASE Infinite(f, k)
  BY <1>1 DEF TimerCoversLocks, WillLook
<1>2. CASE ~ Infinite(f, k)
  <2>1. /\ \A l \in ActiveLocks(k) : t[l] <= ret
        /\ ret = 0 \/ \E l \in ActiveLocks(k) : t[l] = ret
    BY <1>2 DEF HasWakeLockLocked
  <2>2. ret \in Nat
    BY <2>1 DEF ActiveLocks
  <2>3. ActiveLocks(link)' \subseteq ActiveLocks(k)
    <3>1. ActiveLocks(link)' = ActiveLocks(SweptLinks(f, k, t))
      BY DEF ActiveLocks
    <3>2. ActiveLocks(SweptLinks(f, k, t)) \subseteq ActiveLocks(k)
      BY ONLY f \in [Locks -> SUBSET Flags],
              k \in [Locks -> {"none", "inactive", "active"}],
              t \in [Locks -> Nat], SweepFacts
    <3>. QED
      BY ONLY <3>1, <3>2
  <2>4. CASE ret = 0
    <3>1. QueueWork("suspend_work")
      BY <2>4 DEF ArmOrQueue
    <3>2. Queued("suspend_work")'
      BY <3>1, QueueTypes DEF Queued, Works
    <3>3. \A l \in ActiveLocks(link)' : ~ (left'[l] > 0)
      BY <2>1, <2>3, <2>4 DEF ActiveLocks
    <3>. QED
      BY <3>2, <3>3 DEF TimerCoversLocks, WillLook
  <2>5. CASE ret > 0
    <3>1. expire_timer' = ret
      BY <2>2, <2>5 DEF ArmOrQueue
    <3>. QED
      BY <2>1, <2>2, <2>3, <2>5, <3>1 DEF TimerCoversLocks, WillLook, NoTimer
  <2>. QED
    BY <2>2, <2>4, <2>5
<1>. QED
  BY <1>1, <1>2

\* Taking a lock of type SUSPEND leaves somebody to look again.
LEMMA InternalKeeps ==
    ASSUME WLInv, NEW l \in Locks, NEW timeout \in Int, NEW has_timeout,
           WakeLockInternal(l, timeout, has_timeout)
    PROVE  /\ LinksMatchFlags'
           /\ TimerCoversLocks'
           /\ type[l] = "SUSPEND" => WillLook'
           /\ type[l] # "SUSPEND" => new_event' = new_event
           /\ type[l] # "SUSPEND" /\ WillLook => WillLook'
<1>. DEFINE f1 == [flags EXCEPT ![l] = TakenFlags(l, has_timeout)]
            k1 == [link EXCEPT ![l] = "active"]
            t1 == [left EXCEPT ![l] = IF has_timeout /\ timeout > 0
                                      THEN timeout ELSE 0]
            f2 == IF l = main_wake_lock
                  THEN UpdateSleepWaitStats(TRUE, f1, k1, t1)
                  ELSE IF "ACTIVE" \notin f1[main_wake_lock]
                  THEN UpdateSleepWaitStats(FALSE, f1, k1, t1)
                  ELSE f1
<1>1. /\ f1 \in [Locks -> SUBSET Flags]
      /\ k1 \in [Locks -> {"none", "inactive", "active"}]
      /\ t1 \in [Locks -> Nat]
      /\ "ACTIVE" \in f1[l]
      /\ ~ has_timeout => "AUTO_EXPIRE" \notin f1[l]
      /\ k1[l] = "active"
      /\ \A x \in Locks \ {l} : f1[x] = flags[x] /\ k1[x] = link[x] /\ t1[x] = left[x]
  <2>1. /\ TakenFlags(l, has_timeout) \in SUBSET Flags
        /\ "ACTIVE" \in TakenFlags(l, has_timeout)
        /\ ~ has_timeout => "AUTO_EXPIRE" \notin TakenFlags(l, has_timeout)
    BY DEF TakenFlags, WLInv, WLTypeOK, Flags
  <2>. QED
    BY <2>1 DEF WLInv, WLTypeOK
<1>2. \A x \in Locks : k1[x] = "active" => "ACTIVE" \in f1[x]
  BY <1>1 DEF WLInv, LinksMatchFlags
<1>3. /\ left' = t1
      /\ type' = type
      /\ expire_running' = expire_running
      /\ type[l] # "SUSPEND" =>
            /\ flags' = f1
            /\ link' = k1
            /\ UNCHANGED <<expire_timer, queue, new_event>>
      /\ type[l] = "SUSPEND" /\ has_timeout =>
            \E ret \in Returns(k1, t1) :
               /\ HasWakeLockLocked(ret, f2, k1, t1)
               /\ flags' = SweptFlags(f2, k1, t1)
               /\ link' = SweptLinks(f2, k1, t1)
               /\ ArmOrQueue(ret)
      /\ type[l] = "SUSPEND" /\ ~ has_timeout =>
            /\ flags' = f2
            /\ link' = k1
  BY DEF WakeLockInternal
<1>4. /\ f2 \in [Locks -> SUBSET Flags]
      /\ \A x \in Locks : \A b \in {"ACTIVE", "AUTO_EXPIRE"} : b \in f2[x] <=> b \in f1[x]
  <2>. HIDE DEF f1, k1, t1
  <2>1. CASE l = main_wake_lock \/ "ACTIVE" \notin f1[main_wake_lock]
    <3>1. PICK done : f2 = UpdateSleepWaitStats(done, f1, k1, t1)
      BY <2>1, Zenon
    <3>. HIDE DEF f2
    <3>. QED
      BY <1>1, <3>1, UpdateTypes, UpdateFacts
  <2>2. CASE l # main_wake_lock /\ "ACTIVE" \in f1[main_wake_lock]
    BY <1>1, <2>2
  <2>. QED
    BY <2>1, <2>2
<1>. HIDE DEF f1, k1, t1, f2
<1>5. CASE type[l] # "SUSPEND"
  <2>1. flags' = f1 /\ link' = k1 /\ UNCHANGED <<expire_timer, queue, new_event>>
    BY <1>3, <1>5
  <2>2. LinksMatchFlags'
    BY <1>2, <2>1 DEF LinksMatchFlags
  <2>3. /\ ActiveLocks(link)' = ActiveLocks(link)
        /\ \A x \in ActiveLocks(link) : flags'[x] = flags[x] /\ left'[x] = left[x]
    BY <1>1, <1>3, <1>5, <2>1 DEF ActiveLocks
  <2>4. Infinite(flags, link)' <=> Infinite(flags, link)
    BY <2>3 DEF Infinite
  <2>5. TimerCoversLocks'
    BY <2>1, <2>3, <2>4 DEF WLInv, TimerCoversLocks
  <2>6. WillLook => WillLook'
    BY <1>3, <2>1, <2>4 DEF WillLook, Queued
  <2>. QED
    BY <1>5, <2>1, <2>2, <2>5, <2>6
<1>6. CASE type[l] = "SUSPEND" /\ has_timeout
  <2>1. PICK ret \in Returns(k1, t1) :
           /\ HasWakeLockLocked(ret, f2, k1, t1)
           /\ flags' = SweptFlags(f2, k1, t1)
           /\ link' = SweptLinks(f2, k1, t1)
           /\ ArmOrQueue(ret)
    BY <1>3, <1>6
  <2>2. LinksMatchFlags'
    BY <1>1, <1>2, <1>4, <2>1, SweepFacts DEF LinksMatchFlags
  <2>3. Infinite(flags, link)' <=> Infinite(f2, k1)
    <3>1. Infinite(flags, link)' <=> Infinite(SweptFlags(f2, k1, t1), SweptLinks(f2, k1, t1))
      BY <1>3, <2>1 DEF Infinite, ActiveLocks
    <3>. QED
      BY <1>1, <1>4, <3>1, SweepFacts
  <2>4. queue \in Seq(Works)
    BY DEF WLInv, WLTypeOK
  <2>5. TimerCoversLocks' /\ WillLook'
    BY <1>1, <1>3, <1>4, <2>1, <2>3, <2>4, WalkLooksAgain
  <2>. QED
    BY <1>6, <2>2, <2>5
<1>7. CASE type[l] = "SUSPEND" /\ ~ has_timeout
  <2>1. flags' = f2 /\ link' = k1
    BY <1>3, <1>7
  <2>2. LinksMatchFlags'
    BY <1>2, <1>4, <2>1 DEF LinksMatchFlags
  <2>3. Infinite(flags, link)'
    BY <1>1, <1>3, <1>4, <1>7, <2>1 DEF Infinite, ActiveLocks
  <2>. QED
    BY <1>7, <2>2, <2>3 DEF TimerCoversLocks, WillLook
<1>. QED
  BY <1>5, <1>6, <1>7

\* Releasing a lock leaves somebody to look again.
LEMMA UnlockKeeps ==
    ASSUME WLInv, NEW l \in Locks, WakeUnlock(l)
    PROVE  /\ LinksMatchFlags'
           /\ TimerCoversLocks'
           /\ WillLook => WillLook'
           /\ UNCHANGED <<worker, new_event>>
<1>. DEFINE f1 == [flags EXCEPT ![l] =
                      @ \ {"ACTIVE", "AUTO_EXPIRE", "PREVENTING_SUSPEND"}]
            k1 == [link EXCEPT ![l] = "inactive"]
            t1 == [left EXCEPT ![l] = 0]
            f2 == SweptFlags(f1, k1, t1)
            k2 == SweptLinks(f1, k1, t1)
<1>1. /\ f1 \in [Locks -> SUBSET Flags]
      /\ k1 \in [Locks -> {"none", "inactive", "active"}]
      /\ t1 \in [Locks -> Nat]
      /\ k1[l] = "inactive"
      /\ \A x \in Locks \ {l} : f1[x] = flags[x] /\ k1[x] = link[x] /\ t1[x] = left[x]
  BY DEF WLInv, WLTypeOK
<1>2. \A x \in Locks : k1[x] = "active" => "ACTIVE" \in f1[x]
  BY <1>1 DEF WLInv, LinksMatchFlags
<1>3. /\ left' = t1
      /\ UNCHANGED <<type, expire_running, worker, new_event>>
      /\ type[l] # "SUSPEND" =>
            /\ flags' = f1
            /\ link' = k1
            /\ UNCHANGED <<expire_timer, queue>>
      /\ type[l] = "SUSPEND" =>
            /\ \/ flags' = f2
               \/ flags' = UpdateSleepWaitStats(FALSE, f2, k2, t1)
            /\ link' = k2
            /\ \E ret \in Returns(k1, t1) :
                  /\ HasWakeLockLocked(ret, f1, k1, t1)
                  /\ ArmOrQueue(ret)
  BY DEF WakeUnlock
<1>. HIDE DEF f1, k1, t1
<1>4. /\ f2 \in [Locks -> SUBSET Flags]
      /\ Infinite(f2, k2) <=> Infinite(f1, k1)
      /\ \A x \in Locks : k2[x] = "active" => "ACTIVE" \in f2[x]
  BY <1>1, <1>2, SweptTypes, SweepFacts
<1>5. CASE type[l] # "SUSPEND"
  <2>1. flags' = f1 /\ link' = k1 /\ UNCHANGED <<expire_timer, queue>>
    BY <1>3, <1>5
  <2>2. /\ ActiveLocks(link)' = ActiveLocks(link)
        /\ \A x \in ActiveLocks(link) : flags'[x] = flags[x] /\ left'[x] = left[x]
    BY <1>1, <1>3, <1>5, <2>1 DEF ActiveLocks
  <2>3. Infinite(flags, link)' <=> Infinite(flags, link)
    BY <2>2 DEF Infinite
  <2>4. TimerCoversLocks'
    BY <2>1, <2>2, <2>3 DEF WLInv, TimerCoversLocks
  <2>5. WillLook => WillLook'
    BY <1>3, <2>1, <2>3 DEF WillLook, Queued
  <2>. QED
    BY <1>2, <1>3, <2>1, <2>4, <2>5 DEF LinksMatchFlags
<1>6. CASE type[l] = "SUSPEND"
  <2>1. PICK ret \in Returns(k1, t1) :
           /\ HasWakeLockLocked(ret, f1, k1, t1)
           /\ ArmOrQueue(ret)
    BY <1>3, <1>6
  <2>2. link' = k2
    BY <1>3, <1>6
  <2>. HIDE DEF f2, k2
  <2>3. \A x \in Locks : \A b \in {"ACTIVE", "AUTO_EXPIRE"} :
           b \in flags'[x] <=> b \in f2[x]
    <3>1. CASE flags' = f2
      BY <3>1
    <3>2. CASE flags' = UpdateSleepWaitStats(FALSE, f2, k2, t1)
      <4>1. PICK no : flags' = UpdateSleepWaitStats(no, f2, k2, t1)
        BY <3>2, Zenon
      <4>. QED
        BY <1>4, <4>1, UpdateFacts
    <3>. QED
      BY <1>3, <1>6, <3>1, <3>2
  <2>4. LinksMatchFlags'
    BY <1>4, <2>2, <2>3 DEF LinksMatchFlags
  <2>5. Infinite(flags, link)' <=> Infinite(f1, k1)
    <3>1. Infinite(flags, link)' <=> Infinite(f2, k2)
      BY <1>3, <2>2, <2>3 DEF Infinite, ActiveLocks
    <3>. QED
      BY <1>4, <3>1
  <2>6. queue \in Seq(Works)
    BY DEF WLInv, WLTypeOK
  <2>7. TimerCoversLocks' /\ WillLook'
    BY <1>1, <1>3, <2>1, <2>2, <2>5, <2>6, WalkLooksAgain DEF k2
  <2>. QED
    BY <1>3, <2>4, <2>7
<1>. QED
  BY <1>5, <1>6

\* has_wake_lock on its own leaves the timer and the queue alone, so what it
\* found is what the timer already waits for.
LEMMA CheckKeeps ==
    ASSUME WLInv, NEW ret \in Returns(link, left), HasWakeLock(ret),
           expire_timer' = expire_timer
    PROVE  /\ LinksMatchFlags'
           /\ TimerCoversLocks'
           /\ Infinite(flags, link)' <=> Infinite(flags, link)
           /\ ret # 0 => Infinite(flags, link) \/ expire_timer # NoTimer
<1>1. /\ flags \in [Locks -> SUBSET Flags]
      /\ link \in [Locks -> {"none", "inactive", "active"}]
      /\ left \in [Locks -> Nat]
      /\ expire_timer \in Nat \cup {NoTimer}
  BY DEF WLInv, WLTypeOK
<1>2. /\ flags' = SweptFlags(flags, link, left)
      /\ link' = SweptLinks(flags, link, left)
      /\ left' = left /\ type' = type
      /\ HasWakeLockLocked(ret, flags, link, left)
  BY DEF HasWakeLock
<1>3. LinksMatchFlags'
  BY <1>1, <1>2, SweepFacts DEF WLInv, LinksMatchFlags
<1>4. /\ ActiveLocks(link)' = ActiveLocks(SweptLinks(flags, link, left))
      /\ Infinite(flags, link)' <=>
            Infinite(SweptFlags(flags, link, left), SweptLinks(flags, link, left))
  BY <1>2 DEF Infinite, ActiveLocks
<1>5. /\ ActiveLocks(link)' \subseteq ActiveLocks(link)
      /\ Infinite(flags, link)' <=> Infinite(flags, link)
  BY <1>1, <1>4, SweepFacts
<1>6. TimerCoversLocks'
  BY <1>2, <1>5 DEF WLInv, TimerCoversLocks
<1>7. ASSUME ret # 0, ~ Infinite(flags, link)
      PROVE  expire_timer # NoTimer
  <2>1. PICK l \in ActiveLocks(link) : left[l] = ret
    BY <1>2, <1>7 DEF HasWakeLockLocked
  <2>2. l \in Locks /\ left[l] \in Nat /\ left[l] > 0
    BY <1>1, <1>7, <2>1 DEF ActiveLocks
  <2>. QED
    BY <1>7, <2>1, <2>2 DEF WLInv, TimerCoversLocks, NoTimer
<1>. QED
  BY <1>3, <1>5, <1>6, <1>7

\* At boot the main lock is held without a timeout.
LEMMA InitInv == WLInit => WLInv
<1>. SUFFICES ASSUME WLInit PROVE WLInv
  OBVIOUS
<1>1. LinksMatchFlags
  BY DEF WLInit, LinksMatchFlags
<1>2. Infinite(flags, link)
  BY LocksAssumption DEF WLInit, Infinite, ActiveLocks
<1>. QED
  BY <1>1, <1>2, InitTypes, LocksAssumption
     DEF WLInit, WLInv, TimerCoversLocks, SuspendNotForgotten, WillLook

\* A driver's or the user interface's operation: if nobody was going to look
\* before it, the suspend work is where it looks itself, and stays there.
LEMMA LockStepInv ==
    ASSUME WLInv, NEW l \in Locks,
           \/ WakeLock(l)
           \/ \E timeout \in Timeouts : WakeLockTimeout(l, timeout)
           \/ WakeUnlock(l)
    PROVE  LinksMatchFlags' /\ TimerCoversLocks' /\ SuspendNotForgotten'
<1>1. CASE WakeUnlock(l)
  BY <1>1, UnlockKeeps DEF WLInv, SuspendNotForgotten
<1>2. CASE WakeLock(l) \/ \E timeout \in Timeouts : WakeLockTimeout(l, timeout)
  <2>1. PICK timeout, has_timeout :
           /\ timeout \in Int
           /\ WakeLockInternal(l, timeout, has_timeout)
           /\ worker' = worker
    <3>1. CASE WakeLock(l)
      <4>1. 0 \in Int
        OBVIOUS
      <4>. QED
        BY <3>1, <4>1, Zenon DEF WakeLock
    <3>2. CASE \E timeout \in Timeouts : WakeLockTimeout(l, timeout)
      BY <3>2, TimeoutAssumption, Zenon DEF WakeLockTimeout
    <3>. QED
      BY <1>2, <3>1, <3>2
  <2>2. /\ LinksMatchFlags' /\ TimerCoversLocks'
        /\ type[l] = "SUSPEND" => WillLook'
        /\ type[l] # "SUSPEND" => new_event' = new_event
        /\ type[l] # "SUSPEND" /\ WillLook => WillLook'
    BY <2>1, InternalKeeps
  <2>. QED
    BY <2>1, <2>2 DEF WLInv, SuspendNotForgotten
<1>. QED
  BY <1>1, <1>2

\* The suspend work leaves somebody to look again wherever it stops.
LEMMA SuspendWorkInv ==
    ASSUME WLInv,
           SuspendWork \/ SuspendReturn \/ FreezerCheck \/ PowerSuspendLate
    PROVE  LinksMatchFlags' /\ TimerCoversLocks' /\ SuspendNotForgotten'
<1>. USE DEF lockVars, timerVars
<1>1. CASE Dequeue("suspend_work")
  <2>1. UNCHANGED <<flags, type, link, left, expire_timer>> /\ worker' = "suspend_work"
    BY <1>1 DEF Dequeue
  <2>. QED
    BY <2>1 DEF WLInv, LinksMatchFlags, TimerCoversLocks, Infinite, ActiveLocks,
                SuspendNotForgotten
<1>2. CASE SuspendCheck
  <2>1. PICK ret \in Returns(link, left) :
           HasWakeLock(ret) /\ worker' = IF ret # 0 THEN "idle" ELSE "sync"
    BY <1>2 DEF SuspendCheck
  <2>2. UNCHANGED <<expire_timer, expire_running, queue, new_event>>
    BY <1>2 DEF SuspendCheck
  <2>3. LinksMatchFlags' /\ TimerCoversLocks'
    BY <2>1, <2>2, CheckKeeps
  <2>4. CASE ret = 0
    BY <2>1, <2>3, <2>4 DEF SuspendNotForgotten
  <2>5. CASE ret # 0
    <3>1. Infinite(flags, link)' \/ expire_timer' # NoTimer
      BY <2>1, <2>2, <2>5, CheckKeeps DEF NoTimer
    <3>. QED
      BY <2>3, <3>1 DEF SuspendNotForgotten, WillLook
  <2>. QED
    BY <2>4, <2>5
<1>3. CASE SuspendEnter
  <2>1. /\ UNCHANGED <<flags, type, link, left, expire_timer>>
        /\ worker' = "pm_suspend" /\ new_event' = FALSE
    BY <1>3 DEF SuspendEnter
  <2>. QED
    BY <2>1 DEF WLInv, LinksMatchFlags, TimerCoversLocks, Infinite, ActiveLocks,
                SuspendNotForgotten
<1>4. CASE UnknownWakeup
  <2>1. /\ HalfSecond \in Int /\ unknown_wakeup \in Locks
    BY LocksAssumption, TimeoutAssumption
  <2>2. PICK yes : WakeLockInternal(unknown_wakeup, HalfSecond, yes)
    BY <1>4, Zenon DEF UnknownWakeup
  <2>3. LinksMatchFlags' /\ TimerCoversLocks' /\ WillLook'
    BY <2>1, <2>2, InternalKeeps DEF WLInv
  <2>. QED
    BY <2>3 DEF SuspendNotForgotten
<1>5. CASE SuspendReturn
  <2>1. /\ UNCHANGED <<flags, type, link, left, expire_timer, expire_running, queue, new_event>>
        /\ worker = "pm_suspend"
        /\ worker' = IF new_event THEN "idle" ELSE "no_event"
    BY <1>5 DEF SuspendReturn
  <2>2. WillLook => WillLook'
    BY <2>1 DEF WillLook, Infinite, ActiveLocks, Queued
  <2>. QED
    BY <2>1, <2>2 DEF WLInv, LinksMatchFlags, TimerCoversLocks, Infinite, ActiveLocks,
                SuspendNotForgotten
<1>6. CASE FreezerCheck \/ PowerSuspendLate
  <2>1. PICK ret \in Returns(link, left) : HasWakeLock(ret)
    BY <1>6 DEF FreezerCheck, PowerSuspendLate
  <2>2. UNCHANGED <<expire_timer, expire_running, queue, worker, new_event>>
    BY <1>6 DEF FreezerCheck, PowerSuspendLate
  <2>3. /\ LinksMatchFlags' /\ TimerCoversLocks'
        /\ Infinite(flags, link)' <=> Infinite(flags, link)
    BY <2>1, <2>2, CheckKeeps
  <2>4. WillLook => WillLook'
    BY <2>2, <2>3 DEF WillLook, Queued
  <2>. QED
    BY <2>2, <2>3, <2>4 DEF WLInv, SuspendNotForgotten
<1>. QED
  BY <1>1, <1>2, <1>3, <1>4, <1>5, <1>6 DEF SuspendWork

\* Neither the clock nor the timer loses the last one to look.
LEMMA TimerInv ==
    ASSUME WLInv, Tick \/ TimerDue \/ ExpireWakeLocks
    PROVE  LinksMatchFlags' /\ TimerCoversLocks' /\ SuspendNotForgotten'
<1>1. CASE Tick
  <2>1. /\ UNCHANGED <<flags, type, link, expire_running, queue, worker, new_event>>
        /\ expire_timer' = CountDown(expire_timer)
        /\ \A l \in Locks : left'[l] = CountDown(left[l])
    BY <1>1 DEF Tick
  <2>2. Infinite(flags, link)' <=> Infinite(flags, link)
    BY <2>1 DEF Infinite, ActiveLocks
  <2>3. ActiveLocks(link)' = ActiveLocks(link)
    BY <2>1 DEF ActiveLocks
  <2>4. TimerCoversLocks'
    <3>1. SUFFICES ASSUME ~ Infinite(flags, link), NEW l \in ActiveLocks(link),
                          left'[l] > 0
                   PROVE  left'[l] <= expire_timer'
      BY <2>2, <2>3 DEF TimerCoversLocks
    <3>2. /\ left[l] \in Nat /\ left'[l] = CountDown(left[l])
          /\ expire_timer \in Nat \cup {NoTimer}
      BY <2>1 DEF WLInv, WLTypeOK, ActiveLocks
    <3>3. left[l] > 0 /\ left'[l] = left[l] - 1
      BY <3>1, <3>2 DEF CountDown
    <3>4. left[l] <= expire_timer
      BY <3>1, <3>3 DEF WLInv, TimerCoversLocks
    <3>. QED
      BY <2>1, <3>2, <3>3, <3>4 DEF CountDown, NoTimer
  <2>5. WillLook => WillLook'
    <3>1. expire_timer # NoTimer => expire_timer' # NoTimer
      BY <2>1 DEF WLInv, WLTypeOK, CountDown, NoTimer
    <3>. QED
      BY <2>1, <2>2, <3>1 DEF WillLook, Queued
  <2>. QED
    BY <2>1, <2>4, <2>5 DEF WLInv, LinksMatchFlags, SuspendNotForgotten
<1>2. CASE TimerDue
  <2>1. /\ UNCHANGED <<flags, type, link, left>>
        /\ expire_timer = 0 /\ expire_timer' = NoTimer /\ expire_running' = TRUE
    BY <1>2 DEF TimerDue, lockVars
  <2>2. LinksMatchFlags'
    BY <2>1 DEF WLInv, LinksMatchFlags
  <2>3. TimerCoversLocks'
    <3>1. SUFFICES ASSUME ~ Infinite(flags, link), NEW l \in ActiveLocks(link)
                   PROVE  ~ (left[l] > 0)
      BY <2>1 DEF TimerCoversLocks, Infinite, ActiveLocks
    <3>. QED
      BY <2>1, <3>1 DEF WLInv, WLTypeOK, TimerCoversLocks, ActiveLocks
  <2>. QED
    BY <2>1, <2>2, <2>3 DEF SuspendNotForgotten, WillLook
<1>3. CASE ExpireWakeLocks
  <2>1. PICK ret \in Returns(link, left) :
           /\ HasWakeLock(ret)
           /\ IF ret = 0 THEN QueueWork("suspend_work") ELSE UNCHANGED queue
    BY <1>3 DEF ExpireWakeLocks
  <2>2. expire_timer' = expire_timer
    BY <1>3 DEF ExpireWakeLocks
  <2>3. /\ LinksMatchFlags' /\ TimerCoversLocks'
        /\ Infinite(flags, link)' <=> Infinite(flags, link)
        /\ ret # 0 => Infinite(flags, link) \/ expire_timer # NoTimer
    BY <2>1, <2>2, CheckKeeps
  <2>4. ret = 0 => Queued("suspend_work")'
    BY <2>1, QueueTypes DEF WLInv, WLTypeOK, Queued, Works
  <2>. QED
    BY <2>2, <2>3, <2>4 DEF SuspendNotForgotten, WillLook
<1>. QED
  BY <1>1, <1>2, <1>3

\* wake_lock_init alone sets a type, and only of a lock that drivers own.
LEMMA TypesKept ==
    ASSUME WLTypeOK, [WLNext]_wlVars
    PROVE  /\ type'[unknown_wakeup] = type[unknown_wakeup]
           /\ type'[main_wake_lock] = type[main_wake_lock]
<1>1. ASSUME NEW l \in Drivers, NEW ty \in LockTypes, WakeLockInit(l, ty)
      PROVE  /\ type'[unknown_wakeup] = type[unknown_wakeup]
             /\ type'[main_wake_lock] = type[main_wake_lock]
  BY <1>1, LocksAssumption DEF WakeLockInit, Drivers, WLTypeOK
<1>2. ASSUME NEW l \in Locks, WakeLockDestroy(l) \/ WakeUnlock(l) \/ WakeLock(l)
                              \/ \E timeout \in Timeouts : WakeLockTimeout(l, timeout)
      PROVE  type' = type
  BY <1>2 DEF WakeLockDestroy, WakeUnlock, WakeLock, WakeLockTimeout, WakeLockInternal
<1>3. ASSUME Tick \/ TimerDue \/ ExpireWakeLocks \/ SuspendReturn \/ FreezerCheck
             \/ PowerSuspendLate
      PROVE  type' = type
  BY <1>3 DEF Tick, TimerDue, ExpireWakeLocks, SuspendReturn, FreezerCheck,
              PowerSuspendLate, HasWakeLock, lockVars
<1>4. ASSUME SuspendWork
      PROVE  type' = type
  BY <1>4 DEF SuspendWork, Dequeue, SuspendCheck, SuspendEnter, UnknownWakeup,
              WakeLockInternal, HasWakeLock, lockVars
<1>5. CASE UNCHANGED wlVars
  BY <1>5 DEF wlVars, lockVars
<1>. QED
  BY <1>1, <1>2, <1>3, <1>4, <1>5, LocksAssumption
     DEF WLNext, DriverStep, OwnerStep, MainStep, Drivers

\* The invariant is inductive.
LEMMA InvStep == WLInv /\ [WLNext]_wlVars => WLInv'
<1>. SUFFICES ASSUME WLInv, [WLNext]_wlVars
              PROVE  LinksMatchFlags' /\ TimerCoversLocks' /\ SuspendNotForgotten'
  <2>1. ASSUME WLInv, [WLNext]_wlVars
        PROVE  type'[unknown_wakeup] = type[unknown_wakeup]
    BY <2>1, TypesKept DEF WLInv
  <2>. QED
    BY <2>1, TypeStep DEF WLInv
<1>1. ASSUME NEW l \in Locks,
             WakeLockDestroy(l) \/ \E ty \in LockTypes : WakeLockInit(l, ty)
      PROVE  LinksMatchFlags' /\ TimerCoversLocks' /\ SuspendNotForgotten'
  <2>1. /\ UNCHANGED <<expire_timer, expire_running, queue, worker, new_event>>
        /\ \A x \in Locks \ {l} : /\ flags'[x] = flags[x] /\ type'[x] = type[x]
                                  /\ link'[x] = link[x] /\ left'[x] = left[x]
        /\ link'[l] # "active"
        /\ link[l] = "active" => "AUTO_EXPIRE" \in flags[l]
    BY <1>1 DEF WakeLockDestroy, WakeLockInit, timerVars, WLInv, WLTypeOK,
                LinksMatchFlags
  <2>2. LinksMatchFlags'
    BY <2>1 DEF WLInv, LinksMatchFlags
  <2>3. ActiveLocks(link)' = ActiveLocks(link) \ {l}
    BY <2>1 DEF ActiveLocks
  <2>4. Infinite(flags, link)' <=> Infinite(flags, link)
    BY <2>1, <2>3 DEF Infinite, ActiveLocks
  <2>5. TimerCoversLocks'
    BY <2>1, <2>3, <2>4 DEF WLInv, TimerCoversLocks, ActiveLocks
  <2>6. SuspendNotForgotten'
    BY <2>1, <2>4 DEF WLInv, SuspendNotForgotten, WillLook, Queued
  <2>. QED
    BY <2>2, <2>5, <2>6
<1>2. CASE UNCHANGED wlVars
  BY <1>2 DEF wlVars, lockVars, timerVars, WLInv, LinksMatchFlags, TimerCoversLocks,
              SuspendNotForgotten, WillLook, Infinite, ActiveLocks, Queued
<1>. QED
  BY <1>1, <1>2, LockStepInv, SuspendWorkInv, TimerInv, LocksAssumption
     DEF WLNext, DriverStep, OwnerStep, MainStep, Drivers

\* Whatever drivers, the clock and the suspend work do, in whatever order, some
\* later step will look whether the system can sleep (wakelock.c).
THEOREM SuspendNeverForgotten == WLSpec => []SuspendNotForgotten
<1>1. WLInv => SuspendNotForgotten
  BY DEF WLInv
<1>. QED
  BY <1>1, InitInv, InvStep, PTL DEF WLSpec

\* The expiry timer waits for the last timed lock, for any timeouts.
THEOREM TimerAlwaysCovers == WLSpec => []TimerCoversLocks
<1>1. WLInv => TimerCoversLocks
  BY DEF WLInv
<1>. QED
  BY <1>1, InitInv, InvStep, PTL DEF WLSpec

----------------------------------------------------------------------------
(* PREVENTING_SUSPEND marks the locks that keep the system awake.  A walk    *)
(* may not drop the main lock, which is therefore never a timed one, and     *)
(* ACTIVE tells for it what its list does; a lock that can be taken is on a  *)
(* list, so the flags of a destroyed one are of no consequence.  Each part   *)
(* is stated of flags f, links k and times t, to follow an operation through *)
(* its critical section.                                                     *)

MainUntimed(f, k) ==
    /\ k[main_wake_lock] # "none"
    /\ "AUTO_EXPIRE" \notin f[main_wake_lock]
    /\ k[main_wake_lock] = "active" <=> "ACTIVE" \in f[main_wake_lock]

ListedAreInitialized(f, k) == \A l \in Locks : "INITIALIZED" \in f[l] <=> k[l] # "none"

FlagsTell(f, k) ==
    \A l \in Locks :
        /\ k[l] = "active" => "ACTIVE" \in f[l]
        /\ k[l] = "inactive" => "ACTIVE" \notin f[l] /\ "AUTO_EXPIRE" \notin f[l]

OnlyActiveMarked(f, k) ==
    \A l \in Locks : k[l] # "none" /\ "PREVENTING_SUSPEND" \in f[l] => l \in ActiveLocks(k)

NoneUnderMain(f, k) ==
    k[main_wake_lock] = "active" =>
        \A l \in Locks : k[l] # "none" => "PREVENTING_SUSPEND" \notin f[l]

BlockingMarked(f, k, t) ==
    k[main_wake_lock] # "active" =>
        \A l \in ActiveLocks(k) : ~ Expired(f, t, l) => "PREVENTING_SUSPEND" \in f[l]

Marked(f, k, t) == /\ MainUntimed(f, k)
                   /\ ListedAreInitialized(f, k)
                   /\ FlagsTell(f, k)
                   /\ OnlyActiveMarked(f, k)
                   /\ NoneUnderMain(f, k)
                   /\ BlockingMarked(f, k, t)

MarkInv == /\ WLTypeOK
           /\ type[main_wake_lock] = "SUSPEND"
           /\ Marked(flags, link, left)

\* A walk keeps all of it: it expires nothing under a lock without a timeout.
LEMMA SweepKeepsMarks ==
    ASSUME NEW f \in [Locks -> SUBSET Flags],
           NEW k \in [Locks -> {"none", "inactive", "active"}],
           NEW t \in [Locks -> Nat],
           type[main_wake_lock] = "SUSPEND",
           Marked(f, k, t)
    PROVE  /\ Marked(SweptFlags(f, k, t), SweptLinks(f, k, t), t)
           /\ SweptLinks(f, k, t)[main_wake_lock] = k[main_wake_lock]
<1>. DEFINE g == SweptFlags(f, k, t)
            m == SweptLinks(f, k, t)
            S == Swept(f, k, t)
<1>1. /\ S \subseteq Locks
      /\ main_wake_lock \in Locks
      /\ \A l \in S : /\ m[l] = "inactive" /\ k[l] = "active"
                      /\ g[l] = f[l] \ {"ACTIVE", "AUTO_EXPIRE", "PREVENTING_SUSPEND"}
      /\ \A l \in Locks \ S : m[l] = k[l] /\ g[l] = f[l]
  BY LocksAssumption DEF SweptFlags, SweptLinks, Swept, ActiveLocks
<1>2. main_wake_lock \notin S
  BY LocksAssumption DEF Swept, Infinite, ActiveLocks, Marked, MainUntimed
<1>. HIDE DEF g, m, S
<1>3. MainUntimed(g, m) /\ m[main_wake_lock] = k[main_wake_lock]
  BY <1>1, <1>2 DEF Marked, MainUntimed
<1>4. ListedAreInitialized(g, m)
  BY <1>1 DEF Marked, ListedAreInitialized
<1>8. FlagsTell(g, m)
  BY <1>1 DEF Marked, FlagsTell
<1>5. OnlyActiveMarked(g, m)
  BY <1>1 DEF Marked, OnlyActiveMarked, ActiveLocks
<1>6. NoneUnderMain(g, m)
  BY <1>1, <1>3 DEF Marked, NoneUnderMain
<1>7. BlockingMarked(g, m, t)
  BY <1>1, <1>3 DEF Marked, BlockingMarked, ActiveLocks, Expired
<1>. QED
  BY <1>3, <1>4, <1>5, <1>6, <1>7, <1>8 DEF Marked, g, m

\* update_sleep_wait_stats_locked marks what it has to, whatever was marked of
\* the active locks before: all with the main lock taken, or all with it gone.
LEMMA UpdateMarks ==
    ASSUME NEW f \in [Locks -> SUBSET Flags],
           NEW k \in [Locks -> {"none", "inactive", "active"}],
           NEW t, NEW done \in BOOLEAN,
           MainUntimed(f, k), ListedAreInitialized(f, k), FlagsTell(f, k),
           OnlyActiveMarked(f, k),
           done <=> k[main_wake_lock] = "active"
    PROVE  Marked(UpdateSleepWaitStats(done, f, k, t), k, t)
<1>. DEFINE g == UpdateSleepWaitStats(done, f, k, t)
<1>1. /\ \A l \in Locks \ ActiveLocks(k) : g[l] = f[l]
      /\ \A l \in ActiveLocks(k) :
            /\ \A x \in {"INITIALIZED", "ACTIVE", "AUTO_EXPIRE"} : x \in g[l] <=> x \in f[l]
            /\ "PREVENTING_SUSPEND" \in g[l] <=> ~ (done \/ Expired(f, t, l))
      /\ ActiveLocks(k) \subseteq Locks /\ main_wake_lock \in Locks
  BY LocksAssumption DEF UpdateSleepWaitStats, ActiveLocks
<1>. HIDE DEF g
<1>2. MainUntimed(g, k)
  BY <1>1 DEF MainUntimed
<1>3. ListedAreInitialized(g, k)
  BY <1>1 DEF ListedAreInitialized
<1>7. FlagsTell(g, k)
  BY <1>1 DEF FlagsTell
<1>4. OnlyActiveMarked(g, k)
  BY <1>1 DEF OnlyActiveMarked
<1>5. NoneUnderMain(g, k)
  BY <1>1 DEF NoneUnderMain, OnlyActiveMarked
<1>6. BlockingMarked(g, k, t)
  BY <1>1 DEF BlockingMarked, Expired
<1>. QED
  BY <1>2, <1>3, <1>4, <1>5, <1>6, <1>7 DEF Marked, g

\* wake_lock and wake_lock_timeout; the main lock is only taken without one.
LEMMA InternalKeepsMarks ==
    ASSUME MarkInv, NEW l \in Locks, NEW timeout \in Int, NEW has_timeout \in BOOLEAN,
           WakeLockInternal(l, timeout, has_timeout),
           l = main_wake_lock => ~ has_timeout
    PROVE  Marked(flags', link', left') /\ type' = type
<1>. DEFINE f1 == [flags EXCEPT ![l] = TakenFlags(l, has_timeout)]
            k1 == [link EXCEPT ![l] = "active"]
            t1 == [left EXCEPT ![l] = IF has_timeout /\ timeout > 0
                                      THEN timeout ELSE 0]
            f2 == IF l = main_wake_lock
                  THEN UpdateSleepWaitStats(TRUE, f1, k1, t1)
                  ELSE IF "ACTIVE" \notin f1[main_wake_lock]
                  THEN UpdateSleepWaitStats(FALSE, f1, k1, t1)
                  ELSE f1
<1>1. /\ TakenFlags(l, has_timeout) \in SUBSET Flags
      /\ "ACTIVE" \in TakenFlags(l, has_timeout)
      /\ ~ has_timeout => "AUTO_EXPIRE" \notin TakenFlags(l, has_timeout)
      /\ \A x \in {"INITIALIZED", "PREVENTING_SUSPEND"} :
            x \in TakenFlags(l, has_timeout) => x \in flags[l]
      /\ "INITIALIZED" \in TakenFlags(l, has_timeout)
  BY DEF TakenFlags, MarkInv, WLTypeOK, Flags, WakeLockInternal, Initialized
<1>2. /\ f1 \in [Locks -> SUBSET Flags]
      /\ k1 \in [Locks -> {"none", "inactive", "active"}]
      /\ t1 \in [Locks -> Nat]
      /\ f1[l] = TakenFlags(l, has_timeout)
      /\ k1[l] = "active" /\ link[l] # "none"
      /\ \A x \in Locks \ {l} : f1[x] = flags[x] /\ k1[x] = link[x] /\ t1[x] = left[x]
      /\ main_wake_lock \in Locks
  BY <1>1, LocksAssumption
     DEF MarkInv, WLTypeOK, Marked, ListedAreInitialized, WakeLockInternal, Initialized
<1>3. /\ left' = t1 /\ type' = type
      /\ type[l] # "SUSPEND" => flags' = f1 /\ link' = k1
      /\ type[l] = "SUSPEND" /\ has_timeout =>
            flags' = SweptFlags(f2, k1, t1) /\ link' = SweptLinks(f2, k1, t1)
      /\ type[l] = "SUSPEND" /\ ~ has_timeout => flags' = f2 /\ link' = k1
  BY DEF WakeLockInternal
<1>. HIDE DEF f1, k1, t1
<1>4. /\ MainUntimed(f1, k1) /\ ListedAreInitialized(f1, k1)
      /\ FlagsTell(f1, k1) /\ OnlyActiveMarked(f1, k1)
  BY <1>1, <1>2 DEF MarkInv, Marked, MainUntimed, ListedAreInitialized, FlagsTell,
                    OnlyActiveMarked, ActiveLocks
<1>5. CASE type[l] # "SUSPEND"
  <2>1. NoneUnderMain(f1, k1)
    BY <1>1, <1>2, <1>5 DEF MarkInv, Marked, NoneUnderMain
  <2>2. BlockingMarked(f1, k1, t1)
    BY <1>2, <1>5 DEF MarkInv, Marked, BlockingMarked, ActiveLocks, Expired
  <2>. QED
    BY <1>3, <1>4, <1>5, <2>1, <2>2 DEF Marked
<1>6. CASE type[l] = "SUSPEND"
  <2>1. f2 \in [Locks -> SUBSET Flags] /\ Marked(f2, k1, t1)
    <3>1. CASE l = main_wake_lock
      <4>1. f2 = UpdateSleepWaitStats(TRUE, f1, k1, t1)
        BY <3>1
      <4>. HIDE DEF f2
      <4>2. Marked(UpdateSleepWaitStats(TRUE, f1, k1, t1), k1, t1)
        BY <1>2, <1>4, <3>1, UpdateMarks
      <4>. QED
        BY <1>2, <4>1, <4>2, UpdateTypes
    <3>2. CASE l # main_wake_lock /\ "ACTIVE" \notin f1[main_wake_lock]
      <4>1. f2 = UpdateSleepWaitStats(FALSE, f1, k1, t1)
        BY <3>2
      <4>. HIDE DEF f2
      <4>2. k1[main_wake_lock] # "active"
        BY <1>4, <3>2 DEF MainUntimed
      <4>3. Marked(UpdateSleepWaitStats(FALSE, f1, k1, t1), k1, t1)
        BY <1>2, <1>4, <4>2, UpdateMarks
      <4>. QED
        BY <1>2, <4>1, <4>3, UpdateTypes
    <3>3. CASE l # main_wake_lock /\ "ACTIVE" \in f1[main_wake_lock]
      <4>1. f2 = f1
        BY <3>3
      <4>. HIDE DEF f2
      <4>2. k1[main_wake_lock] = "active" /\ link[main_wake_lock] = "active"
        BY <1>2, <1>4, <3>3 DEF MainUntimed
      <4>3. NoneUnderMain(f1, k1)
        BY <1>1, <1>2, <4>2 DEF MarkInv, Marked, NoneUnderMain
      <4>4. BlockingMarked(f1, k1, t1)
        BY <4>2 DEF BlockingMarked
      <4>. QED
        BY <1>2, <1>4, <4>1, <4>3, <4>4 DEF Marked
    <3>. QED
      BY <3>1, <3>2, <3>3
  <2>. HIDE DEF f2
  <2>2. Marked(SweptFlags(f2, k1, t1), SweptLinks(f2, k1, t1), t1)
    BY <1>2, <2>1, SweepKeepsMarks DEF MarkInv
  <2>. QED
    BY <1>3, <1>6, <2>1, <2>2
<1>. QED
  BY <1>3, <1>5, <1>6

\* wake_unlock: the release of the main lock marks all that now hold the system.
LEMMA UnlockKeepsMarks ==
    ASSUME MarkInv, NEW l \in Locks, WakeUnlock(l)
    PROVE  Marked(flags', link', left') /\ type' = type
<1>. DEFINE f1 == [flags EXCEPT ![l] =
                      @ \ {"ACTIVE", "AUTO_EXPIRE", "PREVENTING_SUSPEND"}]
            k1 == [link EXCEPT ![l] = "inactive"]
            t1 == [left EXCEPT ![l] = 0]
            f2 == SweptFlags(f1, k1, t1)
            k2 == SweptLinks(f1, k1, t1)
<1>1. /\ f1 \in [Locks -> SUBSET Flags]
      /\ k1 \in [Locks -> {"none", "inactive", "active"}]
      /\ t1 \in [Locks -> Nat]
      /\ f1[l] = flags[l] \ {"ACTIVE", "AUTO_EXPIRE", "PREVENTING_SUSPEND"}
      /\ k1[l] = "inactive" /\ link[l] # "none"
      /\ \A x \in Locks \ {l} : f1[x] = flags[x] /\ k1[x] = link[x] /\ t1[x] = left[x]
      /\ main_wake_lock \in Locks
  BY LocksAssumption
     DEF MarkInv, WLTypeOK, Marked, ListedAreInitialized, WakeUnlock, Initialized
<1>2. /\ left' = t1 /\ type' = type
      /\ type[l] # "SUSPEND" => flags' = f1 /\ link' = k1
      /\ type[l] = "SUSPEND" =>
            /\ flags' = IF l = main_wake_lock
                        THEN UpdateSleepWaitStats(FALSE, f2, k2, t1) ELSE f2
            /\ link' = k2
  BY DEF WakeUnlock
<1>. HIDE DEF f1, k1, t1
<1>3. /\ MainUntimed(f1, k1) /\ ListedAreInitialized(f1, k1)
      /\ FlagsTell(f1, k1) /\ OnlyActiveMarked(f1, k1)
  BY <1>1 DEF MarkInv, Marked, MainUntimed, ListedAreInitialized, FlagsTell,
              OnlyActiveMarked, ActiveLocks
<1>4. NoneUnderMain(f1, k1)
  BY <1>1 DEF MarkInv, Marked, NoneUnderMain
<1>5. CASE l # main_wake_lock
  <2>1. BlockingMarked(f1, k1, t1)
    BY <1>1, <1>5 DEF MarkInv, Marked, BlockingMarked, ActiveLocks, Expired
  <2>2. Marked(f1, k1, t1)
    BY <1>3, <1>4, <2>1 DEF Marked
  <2>3. Marked(f2, k2, t1)
    BY <1>1, <2>2, SweepKeepsMarks DEF MarkInv
  <2>. HIDE DEF f2, k2
  <2>. QED
    BY <1>2, <1>5, <2>2, <2>3
<1>6. CASE l = main_wake_lock
  <2>1. /\ f2 \in [Locks -> SUBSET Flags]
        /\ k2 \in [Locks -> {"none", "inactive", "active"}]
    BY <1>1, SweptTypes
  <2>2. /\ \A x \in Swept(f1, k1, t1) :
              /\ k2[x] = "inactive" /\ k1[x] = "active"
              /\ f2[x] = f1[x] \ {"ACTIVE", "AUTO_EXPIRE", "PREVENTING_SUSPEND"}
        /\ \A x \in Locks \ Swept(f1, k1, t1) : k2[x] = k1[x] /\ f2[x] = f1[x]
        /\ main_wake_lock \notin Swept(f1, k1, t1)
    BY <1>1, <1>6 DEF SweptFlags, SweptLinks, Swept, ActiveLocks
  <2>. HIDE DEF f2, k2
  <2>3. MainUntimed(f2, k2) /\ k2[main_wake_lock] = "inactive"
    BY <1>1, <1>3, <1>6, <2>2 DEF MainUntimed
  <2>4. ListedAreInitialized(f2, k2)
    BY <1>3, <2>2 DEF ListedAreInitialized
  <2>8. FlagsTell(f2, k2)
    BY <1>3, <2>2 DEF FlagsTell
  <2>5. OnlyActiveMarked(f2, k2)
    BY <1>3, <2>2 DEF OnlyActiveMarked, ActiveLocks
  <2>6. Marked(UpdateSleepWaitStats(FALSE, f2, k2, t1), k2, t1)
    BY <2>1, <2>3, <2>4, <2>5, <2>8, UpdateMarks
  <2>7. type[l] = "SUSPEND"
    BY <1>6 DEF MarkInv
  <2>. QED
    BY <1>2, <1>6, <2>6, <2>7
<1>. QED
  BY <1>5, <1>6

\* At boot the main lock is the only one that is held.
LEMMA MarkInit == WLInit => MarkInv
BY InitTypes, LocksAssumption
   DEF WLInit, MarkInv, Marked, MainUntimed, ListedAreInitialized, FlagsTell,
       OnlyActiveMarked, NoneUnderMain, BlockingMarked, ActiveLocks, Expired

\* The invariant is inductive.
LEMMA MarkNext == MarkInv /\ [WLNext]_wlVars => MarkInv'
<1>. SUFFICES ASSUME MarkInv, [WLNext]_wlVars
              PROVE  Marked(flags, link, left)'
  BY TypeStep, TypesKept DEF MarkInv
<1>1. ASSUME type' = type, Marked(flags', link', left')
      PROVE  Marked(flags, link, left)'
  BY <1>1 DEF Marked, MainUntimed, ListedAreInitialized, FlagsTell, OnlyActiveMarked,
              NoneUnderMain, BlockingMarked, ActiveLocks, Expired
<1>2. ASSUME NEW l \in Drivers, NEW ty \in LockTypes, WakeLockInit(l, ty)
      PROVE  Marked(flags, link, left)'
  <2>1. /\ l \in Locks /\ l # main_wake_lock /\ main_wake_lock \in Locks
        /\ flags'[l] = {"INITIALIZED"} /\ link'[l] = "inactive"
        /\ \A x \in Locks \ {l} : /\ flags'[x] = flags[x] /\ type'[x] = type[x]
                                  /\ link'[x] = link[x] /\ left'[x] = left[x]
    BY <1>2, LocksAssumption DEF WakeLockInit, Drivers, MarkInv, WLTypeOK
  <2>. QED
    BY <2>1 DEF MarkInv, Marked, MainUntimed, ListedAreInitialized, FlagsTell,
                OnlyActiveMarked, NoneUnderMain, BlockingMarked, ActiveLocks, Expired
<1>3. ASSUME NEW l \in Drivers, WakeLockDestroy(l)
      PROVE  Marked(flags, link, left)'
  <2>1. /\ l \in Locks /\ l # main_wake_lock /\ main_wake_lock \in Locks
        /\ flags'[l] = flags[l] \ {"INITIALIZED"} /\ link'[l] = "none"
        /\ \A x \in Locks \ {l} : /\ flags'[x] = flags[x]
                                  /\ link'[x] = link[x] /\ left'[x] = left[x]
        /\ type' = type
    BY <1>3, LocksAssumption DEF WakeLockDestroy, Drivers, MarkInv, WLTypeOK
  <2>. QED
    BY <2>1 DEF MarkInv, Marked, MainUntimed, ListedAreInitialized, FlagsTell,
                OnlyActiveMarked, NoneUnderMain, BlockingMarked, ActiveLocks, Expired
<1>4. ASSUME NEW l \in Locks, WakeLock(l)
      PROVE  Marked(flags, link, left)'
  <2>1. WakeLockInternal(l, 0, FALSE)
    BY <1>4, Zenon DEF WakeLock
  <2>2. PICK no \in BOOLEAN : no = FALSE /\ WakeLockInternal(l, 0, no)
    BY <2>1, Zenon
  <2>. QED
    BY <1>1, <2>2, InternalKeepsMarks
<1>5. ASSUME NEW l \in Drivers, NEW timeout \in Timeouts, WakeLockTimeout(l, timeout)
      PROVE  Marked(flags, link, left)'
  <2>1. PICK yes \in BOOLEAN : WakeLockInternal(l, timeout, yes)
    BY <1>5, Zenon DEF WakeLockTimeout
  <2>2. l \in Locks /\ l # main_wake_lock /\ timeout \in Int
    BY TimeoutAssumption DEF Drivers
  <2>. QED
    BY <1>1, <2>1, <2>2, InternalKeepsMarks
<1>6. ASSUME NEW l \in Locks, WakeUnlock(l)
      PROVE  Marked(flags, link, left)'
  BY <1>1, <1>6, UnlockKeepsMarks
<1>7. ASSUME UnknownWakeup
      PROVE  Marked(flags, link, left)'
  <2>1. PICK yes \in BOOLEAN : WakeLockInternal(unknown_wakeup, HalfSecond, yes)
    BY <1>7, Zenon DEF UnknownWakeup
  <2>2. /\ unknown_wakeup \in Locks /\ unknown_wakeup # main_wake_lock
        /\ HalfSecond \in Int
    BY LocksAssumption, TimeoutAssumption
  <2>. QED
    BY <1>1, <2>1, <2>2, InternalKeepsMarks
<1>8. ASSUME NEW ret, HasWakeLock(ret)
      PROVE  Marked(flags, link, left)'
  <2>1. /\ flags' = SweptFlags(flags, link, left)
        /\ link' = SweptLinks(flags, link, left)
        /\ left' = left /\ type' = type
    BY <1>8 DEF HasWakeLock
  <2>2. Marked(SweptFlags(flags, link, left), SweptLinks(flags, link, left), left)
    BY SweepKeepsMarks DEF MarkInv, WLTypeOK
  <2>. QED
    BY <1>1, <2>1, <2>2
<1>9. ASSUME Tick
      PROVE  Marked(flags, link, left)'
  <2>1. /\ flags' = flags /\ link' = link /\ type' = type
        /\ \A l \in Locks : left'[l] = CountDown(left[l])
    BY <1>9 DEF Tick
  <2>2. \A l \in Locks : left[l] = 0 => left'[l] = 0
    BY <2>1 DEF CountDown
  <2>3. ActiveLocks(link') \subseteq Locks
    BY DEF ActiveLocks
  <2>4. BlockingMarked(flags', link', left')
    BY <2>1, <2>2, <2>3 DEF MarkInv, Marked, BlockingMarked, Expired
  <2>. QED
    BY <1>1, <2>1, <2>4 DEF MarkInv, Marked
<1>10. ASSUME UNCHANGED lockVars
       PROVE  Marked(flags, link, left)'
  BY <1>1, <1>10 DEF lockVars, MarkInv
<1>. QED
  BY <1>2, <1>3, <1>4, <1>5, <1>6, <1>7, <1>8, <1>9, <1>10, LocksAssumption
     DEF WLNext, DriverStep, OwnerStep, MainStep, Drivers, TimerDue, ExpireWakeLocks,
         SuspendWork, Dequeue, SuspendCheck, SuspendEnter, SuspendReturn, FreezerCheck,
         PowerSuspendLate, wlVars

\* The marks that drive the statistics are exact, for any locks and timeouts.
THEOREM MarksAreExact == WLSpec => []PreventingExact
<1>1. MarkInv => PreventingExact
  BY DEF MarkInv, Marked, OnlyActiveMarked, NoneUnderMain, BlockingMarked,
         PreventingExact, Blocking
<1>. QED
  BY <1>1, MarkInit, MarkNext, PTL DEF WLSpec

\* The flags tell the list of every lock, so that wake_lock_active is right, for
\* any locks, owners, timeouts and walks.
THEOREM FlagsAlwaysMatch == WLSpec => []FlagsMatchLists
<1>1. MarkInv => FlagsMatchLists
  BY DEF MarkInv, Marked, FlagsTell, FlagsMatchLists
<1>. QED
  BY <1>1, MarkInit, MarkNext, PTL DEF WLSpec

----------------------------------------------------------------------------
(* Nobody's walk of the list drops a lock that still counts. *)

\* What a walk drops is timed, and its time is up.
LEMMA WalkDropsExpired ==
    ASSUME NEW f \in [Locks -> SUBSET Flags],
           NEW k \in [Locks -> {"none", "inactive", "active"}],
           NEW t \in [Locks -> Nat],
           NEW l \in Locks, k[l] = "active", SweptLinks(f, k, t)[l] # "active"
    PROVE  Expired(f, t, l)
<1>1. l \in Swept(f, k, t)
  BY DEF SweptLinks
<1>. QED
  BY <1>1 DEF Swept, Infinite, Expired

\* Taking a lock: the others that go have expired, and so has the lock itself
\* if it goes.
LEMMA InternalDropsExpired ==
    ASSUME WLTypeOK, NEW x \in Locks, NEW timeout \in Int, NEW has_timeout \in BOOLEAN,
           WakeLockInternal(x, timeout, has_timeout),
           NEW l \in Locks, link[l] = "active", link'[l] # "active"
    PROVE  /\ l # x => Expired(flags, left, l)
           /\ l = x => has_timeout /\ timeout <= 0
<1>. DEFINE f1 == [flags EXCEPT ![x] = TakenFlags(x, has_timeout)]
            k1 == [link EXCEPT ![x] = "active"]
            t1 == [left EXCEPT ![x] = IF has_timeout /\ timeout > 0
                                      THEN timeout ELSE 0]
            f2 == IF x = main_wake_lock
                  THEN UpdateSleepWaitStats(TRUE, f1, k1, t1)
                  ELSE IF "ACTIVE" \notin f1[main_wake_lock]
                  THEN UpdateSleepWaitStats(FALSE, f1, k1, t1)
                  ELSE f1
<1>1. /\ f1 \in [Locks -> SUBSET Flags]
      /\ k1 \in [Locks -> {"none", "inactive", "active"}]
      /\ t1 \in [Locks -> Nat]
      /\ \A y \in Locks \ {x} : f1[y] = flags[y] /\ t1[y] = left[y]
      /\ k1[l] = "active"
      /\ t1[x] = 0 => ~ has_timeout \/ timeout <= 0
  <2>1. TakenFlags(x, has_timeout) \in SUBSET Flags
    BY DEF TakenFlags, WLTypeOK, Flags
  <2>. QED
    BY <2>1 DEF WLTypeOK
<1>2. has_timeout /\ link' = SweptLinks(f2, k1, t1)
  BY <1>1 DEF WakeLockInternal
<1>. HIDE DEF f1, k1, t1
<1>3. /\ f2 \in [Locks -> SUBSET Flags]
      /\ "AUTO_EXPIRE" \in f2[l] <=> "AUTO_EXPIRE" \in f1[l]
  <2>1. \/ f2 = f1
        \/ \E done \in BOOLEAN : f2 = UpdateSleepWaitStats(done, f1, k1, t1)
    BY Zenon
  <2>. HIDE DEF f2
  <2>. QED
    BY <1>1, <2>1, UpdateTypes, UpdateFacts
<1>. HIDE DEF f2
<1>4. Expired(f2, t1, l)
  BY <1>1, <1>2, <1>3, WalkDropsExpired
<1>. QED
  BY <1>1, <1>2, <1>3, <1>4 DEF Expired

\* Releasing a lock: the others that go have expired.
LEMMA UnlockDropsExpired ==
    ASSUME WLTypeOK, NEW x \in Locks, WakeUnlock(x),
           NEW l \in Locks, link[l] = "active", link'[l] # "active", l # x
    PROVE  Expired(flags, left, l)
<1>. DEFINE f1 == [flags EXCEPT ![x] =
                      @ \ {"ACTIVE", "AUTO_EXPIRE", "PREVENTING_SUSPEND"}]
            k1 == [link EXCEPT ![x] = "inactive"]
            t1 == [left EXCEPT ![x] = 0]
<1>1. /\ f1 \in [Locks -> SUBSET Flags]
      /\ k1 \in [Locks -> {"none", "inactive", "active"}]
      /\ t1 \in [Locks -> Nat]
      /\ f1[l] = flags[l] /\ t1[l] = left[l] /\ k1[l] = "active"
  BY DEF WLTypeOK
<1>2. link' = SweptLinks(f1, k1, t1)
  BY <1>1 DEF WakeUnlock
<1>. HIDE DEF f1, k1, t1
<1>3. Expired(f1, t1, l)
  BY <1>1, <1>2, WalkDropsExpired
<1>. QED
  BY <1>1, <1>3 DEF Expired

\* A lock stays active until it is released, destroyed, taken again for no
\* time, or its time is up, whoever else uses the list (wakelock.c).
THEOREM HeldTillReleased == WLSpec => HeldUntilReleased
<1>. DEFINE Gone(l) == \/ Expired(flags, left, l)
                       \/ WakeUnlock(l)
                       \/ WakeLockDestroy(l)
                       \/ \E timeout \in Timeouts :
                             timeout <= 0 /\ WakeLockTimeout(l, timeout)
            Released == \A l \in Locks : link[l] = "active" /\ link'[l] # "active" => Gone(l)
<1>1. ASSUME WLTypeOK, [WLNext]_wlVars
      PROVE  Released
  <2>. SUFFICES ASSUME NEW l \in Locks, link[l] = "active", link'[l] # "active"
                PROVE  Gone(l)
    OBVIOUS
  <2>1. ASSUME NEW x \in Locks, NEW ty \in LockTypes, WakeLockInit(x, ty)
        PROVE  FALSE
    BY <1>1, <2>1 DEF WakeLockInit, WLTypeOK
  <2>2. ASSUME NEW x \in Locks, WakeLockDestroy(x)
        PROVE  Gone(l)
    <3>1. l = x
      BY <1>1, <2>2 DEF WakeLockDestroy, WLTypeOK
    <3>. QED
      BY <2>2, <3>1, Zenon
  <2>3. ASSUME NEW x \in Locks, WakeLock(x)
        PROVE  Gone(l)
    <3>1. WakeLockInternal(x, 0, FALSE)
      BY <2>3, Zenon DEF WakeLock
    <3>2. PICK no \in BOOLEAN : no = FALSE /\ WakeLockInternal(x, 0, no)
      BY <3>1, Zenon
    <3>3. Expired(flags, left, l)
      BY <1>1, <3>2, InternalDropsExpired
    <3>. QED
      BY <3>3, Zenon
  <2>4. ASSUME NEW x \in Locks, NEW timeout \in Timeouts, WakeLockTimeout(x, timeout)
        PROVE  Gone(l)
    <3>1. PICK yes \in BOOLEAN : WakeLockInternal(x, timeout, yes)
      BY <2>4, Zenon DEF WakeLockTimeout
    <3>2. timeout \in Int
      BY TimeoutAssumption
    <3>3. l # x => Expired(flags, left, l)
      BY <1>1, <3>1, <3>2, InternalDropsExpired
    <3>4. l = x => timeout <= 0
      BY <1>1, <3>1, <3>2, InternalDropsExpired
    <3>. QED
      BY <2>4, <3>3, <3>4, Zenon
  <2>5. ASSUME NEW x \in Locks, WakeUnlock(x)
        PROVE  Gone(l)
    <3>1. l # x => Expired(flags, left, l)
      BY <1>1, <2>5, UnlockDropsExpired
    <3>. QED
      BY <2>5, <3>1, Zenon
  <2>6. ASSUME UnknownWakeup
        PROVE  Gone(l)
    <3>1. PICK yes \in BOOLEAN : WakeLockInternal(unknown_wakeup, HalfSecond, yes)
      BY <2>6, Zenon DEF UnknownWakeup
    <3>2. unknown_wakeup \in Locks /\ HalfSecond \in Int /\ HalfSecond > 0
      BY LocksAssumption, TimeoutAssumption
    <3>3. l # unknown_wakeup => Expired(flags, left, l)
      BY <1>1, <3>1, <3>2, InternalDropsExpired
    <3>4. l # unknown_wakeup
      BY <1>1, <3>1, <3>2, InternalDropsExpired
    <3>. QED
      BY <3>3, <3>4, Zenon
  <2>7. ASSUME NEW ret, HasWakeLock(ret)
        PROVE  Gone(l)
    <3>1. Expired(flags, left, l)
      BY <1>1, <2>7, WalkDropsExpired DEF HasWakeLock, WLTypeOK
    <3>. QED
      BY <3>1, Zenon
  <2>8. ASSUME link' = link
        PROVE  FALSE
    BY <2>8
  <2>. HIDE DEF Gone
  <2>. QED
    BY <1>1, <2>1, <2>2, <2>3, <2>4, <2>5, <2>6, <2>7, <2>8, LocksAssumption
       DEF WLNext, DriverStep, OwnerStep, MainStep, Drivers, Tick, TimerDue,
           ExpireWakeLocks, SuspendWork, Dequeue, SuspendCheck, SuspendEnter,
           SuspendReturn, FreezerCheck, PowerSuspendLate, wlVars, lockVars
<1>2. WLTypeOK /\ [WLNext]_wlVars => [Released]_wlVars
  BY <1>1
<1>. QED
  BY <1>2, WLTypeCorrect, PTL DEF WLSpec, HeldUntilReleased
=============================================================================
