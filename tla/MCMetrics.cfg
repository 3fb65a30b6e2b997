CONSTANTS
  gateway = gateway
  worker = worker
  Process = {gateway, worker}
  Servers = {gateway}
  MaxRecords = 2
  MaxScrapes = 1
  MaxFaults = 1
SPECIFICATION Spec
CHECK_DEADLOCK FALSE
INVARIANTS
  Accounted
  LossHasCause
  ScrapeCountsOwn
PROPERTY RecordedIsSent
