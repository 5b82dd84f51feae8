SPECIFICATION DPMSpec
CONSTANTS
    ctrl = ctrl
    host = host
    card = card
    other = other
    NoParent = NoParent
    Devices <- MCDevices
    Parent <- MCParent
    AddsWhileCompleting = TRUE
INVARIANTS
    DepthFirst
