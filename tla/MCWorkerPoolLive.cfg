CONSTANTS
  j1 = j1
  j2 = j2
  p1 = p1
  p2 = p2
  w1 = w1
  w2 = w2
  Job = {j1, j2}
  NoJob = NoJob
  Corrupt = {j2}
  NoToken <- Nowhere
  BadToken <- AtP2
  Process = {p1, p2}
  Producer = {p2}
  Worker = {w1, w2}
  ProcOf <- TwoProcesses
  ClaimBatch = 2
  MaxAttempts = 3
  MaxFaults = 0
  MaxDeaths = 1
  MaxInterrupts = 1
SPECIFICATION FairSpec
PROPERTIES
  ImplementsContract
  JobsSettleUnlessAllFellBack
