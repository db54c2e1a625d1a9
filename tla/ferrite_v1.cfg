SPECIFICATION MCSpec
CONSTANTS
  None = None
  Items = {c1, c2, c3, c4}
  Clients = {c1, c2, c3}
  NumWorkers = 2
  Capacity = 2
INVARIANTS
  NoLostWakeup
  ReportIsFinal
  AtMostOneDropped
PROPERTIES
  ShutdownReturns
  ImplementsService
  RunReturns
