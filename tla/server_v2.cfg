SPECIFICATION Spec
CONSTANTS
  Conns = {c1, c2, c3}
  MaxConnections = 2
INVARIANTS
  ConnectionLimit
  PeakExact
  ReportAccounts
  AtMostOneLateRequest
PROPERTIES
  ShutdownReturns
CHECK_DEADLOCK FALSE
