---------------------------- MODULE UserWakeLock ----------------------------
(***************************************************************************)
(* Wake locks of user space, kernel/power/userwakelock.c, on the wake lock *)
(* core: /sys/power/wake_lock and /sys/power/wake_unlock.                  *)
(*                                                                         *)
(* A user lock is found by its name, allocated on its first use and never  *)
(* freed; here the lock is its name.  The optional timeout is written in   *)
(* nanoseconds, computed in a u64 and passed on in a long.  Both widths    *)
(* and the length of a jiffy are constants, so that small ones show what   *)
(* the real ones (2^64, 2^32 and 10^7 ns) do.                              *)
(***************************************************************************)
EXTENDS WakeLock

CONSTANTS Names,         \* the user wake locks
          NsTimeouts,    \* timeouts written by user space, in nanoseconds
          NSEC_PER_JIFFY,
          U64,           \* the number of values of a u64
          LONG,          \* the number of values of a long
          MaxAge         \* bound of the jiffies counted since a request

ASSUME UserAssumption == /\ Names \subseteq Drivers
                         /\ NSEC_PER_JIFFY \in Nat \ {0}
                         /\ U64 \in Nat \ {0} /\ LONG \in Nat \ (0 .. 2)
                         /\ MaxAge \in Nat
                         /\ NsTimeouts \subseteq 0 .. U64 - 1

Forever == -1  \* no timeout was written

VARIABLES storing,  \* the call that holds tree_lock, after its lookup
          asked,    \* the timeout last asked for of a lock user space holds
          age       \* jiffies since then

userVars == <<storing, asked, age>>
uwVars == <<wlVars, userVars>>

Nobody == [name |-> "none", timeout |-> 0, ns |-> 0]
NotAsked == -2

\* The assignment of a u64 to a long.
ToLong(n) == LET m == n % LONG IN IF m < (LONG + 1) \div 2 THEN m ELSE m - LONG

\* lookup_wake_lock_name: nanoseconds to jiffies; no timeout is zero.
JiffiesRoundedDown(ns) ==
    IF ns = Forever THEN 0
    ELSE LET t == (ns % U64) \div NSEC_PER_JIFFY
         IN  ToLong(IF t <= 0 THEN 1 ELSE t)
Jiffies(ns) ==
    IF ns = Forever THEN 0
    ELSE LET t == ((ns + NSEC_PER_JIFFY - 1) % U64) \div NSEC_PER_JIFFY
         IN  ToLong(IF t <= 0 THEN 1 ELSE t)

\* The number of jiffies neither wraps in the u64 nor turns negative in the long.
Fits(ns) == ns + NSEC_PER_JIFFY - 1 < U64
            /\ (ns + NSEC_PER_JIFFY - 1) \div NSEC_PER_JIFFY < LONG \div 2

\* The core gets user space's timeouts like any other, and the count of jiffies
\* goes on until a timeout that fits is over.
ASSUME UserTimeoutsAssumption ==
    \A ns \in NsTimeouts : /\ Jiffies(ns) \in Timeouts
                           /\ Fits(ns) => ns < MaxAge * NSEC_PER_JIFFY

----------------------------------------------------------------------------
\* wake_lock_store up to the return of the lookup.  kzalloc may fail, a write
\* that cannot be parsed returns -EINVAL: neither changes anything.
LookupOrAllocate(n, ns) ==
    /\ storing = Nobody
    /\ storing' = [name |-> n, timeout |-> Jiffies(ns), ns |-> ns]
    /\ IF Initialized(n) THEN UNCHANGED wlVars ELSE WakeLockInit(n, "SUSPEND")
    /\ UNCHANGED <<asked, age>>

\* The rest of wake_lock_store, which releases tree_lock.
WakeLockStore ==
    /\ storing # Nobody
    /\ LET n == storing.name
       IN  /\ IF storing.timeout # 0
              THEN WakeLockTimeout(n, storing.timeout)
              ELSE WakeLock(n)
           /\ asked' = [asked EXCEPT ![n] = storing.ns]
           /\ age' = [age EXCEPT ![n] = 0]
    /\ storing' = Nobody

\* wake_unlock_store: a name that was never locked is refused with -EINVAL.
WakeUnlockStore(n) ==
    /\ storing = Nobody
    /\ Initialized(n)
    /\ WakeUnlock(n)
    /\ asked' = [asked EXCEPT ![n] = NotAsked]
    /\ age' = [age EXCEPT ![n] = 0]
    /\ UNCHANGED storing

----------------------------------------------------------------------------
UWInit == /\ WLInit
          /\ storing = Nobody
          /\ asked = [n \in Names |-> NotAsked]
          /\ age = [n \in Names |-> 0]

UserStep ==
    \/ \E n \in Names, ns \in NsTimeouts \cup {Forever} : LookupOrAllocate(n, ns)
    \/ WakeLockStore
    \/ \E n \in Names : WakeUnlockStore(n)

\* The age of a lock without a timeout is not counted, nor past MaxAge.
UserTick ==
    /\ Tick
    /\ age' = [n \in Names |-> IF asked[n] >= 0 /\ age[n] < MaxAge
                               THEN age[n] + 1 ELSE age[n]]
    /\ UNCHANGED <<storing, asked>>

\* Drivers, the main lock, the timer and the suspend work.
KernelStep ==
    /\ \/ \E l \in Drivers \ Names : OwnerStep(l)
       \/ MainStep
       \/ TimerDue
       \/ ExpireWakeLocks
       \/ SuspendWork
       \/ SuspendReturn
       \/ FreezerCheck
       \/ PowerSuspendLate
    /\ UNCHANGED userVars

UWNext == UserStep \/ UserTick \/ KernelStep

UWSpec == UWInit /\ [][UWNext]_uwVars

----------------------------------------------------------------------------
(* Properties. *)

\* A timeout whose number of jiffies a long can hold is kept to the jiffy: the
\* lock is active for as many jiffies as cover the nanoseconds asked for, and
\* has expired after that; a lock without a timeout is held until it is
\* released.  Nobody else's use of the wake locks changes that.
UserTimeoutKept ==
    \A n \in Names :
        /\ asked[n] = Forever => link[n] = "active" /\ "AUTO_EXPIRE" \notin flags[n]
        /\ asked[n] >= 0 /\ Fits(asked[n]) =>
              /\ age[n] * NSEC_PER_JIFFY < asked[n] =>
                    link[n] = "active" /\ ~ Expired(flags, left, n)
              /\ age[n] * NSEC_PER_JIFFY >= asked[n] /\ age[n] > 0 =>
                    link[n] = "inactive" \/ Expired(flags, left, n)
=============================================================================
