CONSTANTS
  Tasks = {"main", "a", "b"}
  Root = "main"
  Nobody = "nobody"
  Scripts <- MCScripts
  Merchants = {"slow", "fast"}
  Load <- MCLoad
  NoEvent = 0
  QueueLen = 1
  Permits = 2
  Attempts = 2
  AuditBatch = 2
  Capacity = 2
  Width = 4
  MaxPushes = 7
SPECIFICATION MCSpec
INVARIANT NoWakeLost EventsOnce ReportComplete RingHandsOver
PROPERTY ExecutorReturns RelayReports
CHECK_DEADLOCK FALSE
