CONSTANTS
  r1 = r1
  MaxRows = 1
  EventRow <- MCEventRow
  GenerationRow <- MCGenerationRow
  Transactions <- MCTransactions
  MaxEvents = 3
  MaxForeign = 1
  Report = {r1}
  Loop = Loop
  Closer = Closer
  Schemas <- BothSchemas
  BatchSize = 2
  MaxFaults = 1
SPECIFICATION FairSpec
INVARIANTS
  TypeOK
  StoredOnce
  NoEventLost
  ShutdownPersists
  ReportMissesOnlyHeld
  ReportAddsUp
  TablesRanked
PROPERTY TrackedIsStored
