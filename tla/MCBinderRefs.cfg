SPECIFICATION BinderSpec
CONSTANTS
  Clients = {c1, c2}
  Deaths = {}
  MaxBuffers = 1
  MaxUser = 1
CHECK_DEADLOCK FALSE
SYMMETRY MCSymmetry
INVARIANTS
  CountsExact
  OwnerWillKnow
