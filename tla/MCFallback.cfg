CONSTANTS
  j1 = j1
  j2 = j2
  p1 = p1
  p2 = p2
  w1 = w1
  w2 = w2
  Job = {j1}
  NoJob = NoJob
  Corrupt = {}
  NoToken <- Nowhere
  BadToken <- Nowhere
  Process = {p1, gateway}
  Producer = {gateway}
  Worker = {w1}
  ProcOf <- OneWorker
  ClaimBatch = 2
  MaxAttempts = 3
  MaxFaults = 1
  MaxDeaths = 0
  MaxInterrupts = 1
SPECIFICATION FairSpec
PROPERTY FallbackJobsSettle
