SPECIFICATION ESFairSpec
CONSTANTS
    c1 = c1
    c2 = c2
    fb = fb
    kpd = kpd
    Callers <- MCTwoCallers
    Handlers <- MCHandlers
    Level <- MCLevel
    FbLevel = 150
INVARIANTS
    HandlersMatchState
    CompletionsMatchWaiters
    OneWriterHonoured
PROPERTIES
    OneWriterWaits
    OnReturns
    SleepReleasesMainLock
