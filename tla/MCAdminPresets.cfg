CONSTANTS
  p1 = p1
  p2 = p2
  gw1 = gw1
  gw2 = gw2
  NoProcess = NoProcess
  Preset = {p1, p2}
  Process = {gw1, gw2}
  Defaults <- Yaml
  Registered <- Instances
  Budgets <- MCBudgets
  MaxUpdates = 7
  MaxConcurrent = 2
  MaxFaults = 1
  LastField = 3
  WizardAt <- Gateways
SPECIFICATION MCSpec
CHECK_DEADLOCK FALSE
INVARIANTS
  TypeOK
  MemoryMatches
  WizardSavesOneRun
PROPERTIES
  NoLostEdit
  DeletedStaysDeleted
