CONSTANTS
  MaxUpdates = 4
  MaxConcurrent = 2
  MaxFaults = 1
SPECIFICATION MCSpec
CHECK_DEADLOCK FALSE
INVARIANTS
  TypeOK
  OneChargePerChoice
  PresetStillChosen
  StateMatchesData
  NoChargeForgotten
  EveryJobPaid
PROPERTY EveryRequestSettles
