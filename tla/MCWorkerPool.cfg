CONSTANTS
  j1 = j1
  j2 = j2
  p1 = p1
  p2 = p2
  w1 = w1
  w2 = w2
  Job = {j1, j2}
  NoJob = NoJob
  Corrupt = {}
  NoToken <- EverywhereJ2
  BadToken <- Nowhere
  Process = {gateway, p1, p2}
  Producer = {gateway}
  Worker = {w1, w2}
  ProcOf <- TwoProcesses
  ClaimBatch = 2
  MaxAttempts = 3
  MaxFaults = 1
  MaxDeaths = 1
  MaxInterrupts = 0
SPECIFICATION Spec
SYMMETRY Symmetry
INVARIANTS
  TypeOK
  NoJobLost
  AttemptBound
  OneAnswerPerAttempt
  RetryHasCause
  DeadJobsWereStarted
  NoLeakedEntry
PROPERTY ImplementsContract
