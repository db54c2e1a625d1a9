SPECIFICATION MCSpec
CONSTANTS
  a = a
  b = b
  last = last
  Requests = {r1, r2, last}
  Partners = {a, b}
  LimitMaps <- TwoMaps
  MaxInflight = 2
  Capacity = 1
  BatchMax = 2
  MaxCalls = 3
  MaxWindows = 1
INVARIANTS
  SlotsExact
  UsageExact
  AuditComplete
  BillingConserved
  OneAlertPerWindow
PROPERTIES
  Drained
CHECK_DEADLOCK FALSE
