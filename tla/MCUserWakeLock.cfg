SPECIFICATION UWSpec
CONSTANTS
    main_wake_lock = main_wake_lock
    unknown_wakeup = unknown_wakeup
    u = u
    a = a
    Locks <- MCLocks
    Names <- MCNames
    Timeouts <- MCTimeouts
    HalfSecond = 1
    NsTimeouts = {0, 4, 5}
    NSEC_PER_JIFFY = 4
    U64 = 64
    LONG = 8
    MaxAge = 3
INVARIANTS
    FlagsMatchLists
    SuspendNotForgotten
    TimerCoversLocks
    PreventingExact
    UserTimeoutKept
PROPERTIES
    HeldUntilReleased
