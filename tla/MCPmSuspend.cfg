SPECIFICATION PMFairSpec
CONSTANTS
    main_wake_lock = main_wake_lock
    unknown_wakeup = unknown_wakeup
    a = a
    Locks <- MCLocks
    Timeouts <- MCTimeouts
    HalfSecond = 1
INVARIANTS
    NoSleepWithWakeLock
    TakenDownInOrder
    AllBroughtBack
PROPERTIES
    WLSpec
    HeldLockEndsSuspend
    KeepsSuspending
