SPECIFICATION AshmemSpec
CONSTANTS
  Areas = {1, 2}
  Ranges = {r1, r2, r3}
  Sizes <- MCSizes
  Offsets <- MCOffsets
  Lengths <- MCLengths
  Scans <- MCScans
  MaxPage <- MCMaxPage
SYMMETRY MCSymmetry
CHECK_DEADLOCK FALSE
INVARIANTS
  ListsAgree
  UnpinnedExact
  PurgeReported
