SPECIFICATION DPMFairSpec
CONSTANTS
    ctrl = ctrl
    host = host
    card = card
    other = other
    NoParent = NoParent
    Devices <- MCDevices
    Parent <- MCParent
    AddsWhileCompleting = FALSE
INVARIANTS
    ListsExact
    DepthFirst
    ChildrenSleepFirst
    AllBackOn
PROPERTIES
    TransitionEnds
