SPECIFICATION AlarmFairSpec
CONSTANTS
    th = th
    AlarmTypes <- MCAlarmTypes
    Threads <- MCThreads
    Hz = 2
    AlarmTimeout = 2
    Lefts <- MCLefts
    Shifts = {2}
    MaxLeft = 4
    PowerOnTimes <- MCBehind
INVARIANTS
    NeverSleepsPast
    NoSleepWithPending
    TimersRun
PROPERTIES
    LockForAlarms
    WakeupsGoOff
