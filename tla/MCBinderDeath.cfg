SPECIFICATION BinderSpec
CONSTANTS
  Clients = {c1}
  Deaths = {d1, d2}
  MaxBuffers = 1
  MaxUser = 1
CHECK_DEADLOCK FALSE
INVARIANTS
  DeathsInStep
PROPERTIES
  DeathTold
  ClearAnswered
  NodeReleased
