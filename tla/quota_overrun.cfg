SPECIFICATION Spec
CONSTANTS
  a = a
  b = b
  last = last
  Requests = {r1, r2}
  Partners = {a}
  LimitMaps <- OneMap
  MaxInflight = 2
  Capacity = 1
  BatchMax = 2
  MaxCalls = 4
  MaxWindows = 1
INVARIANTS
  QuotaHeld
CHECK_DEADLOCK FALSE
