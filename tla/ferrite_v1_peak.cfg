SPECIFICATION ServerSpec
CONSTANTS
  Items = {c1, c2}
  NumWorkers = 2
  Capacity = 1
  None = None
INVARIANTS
  PeakIsMost
