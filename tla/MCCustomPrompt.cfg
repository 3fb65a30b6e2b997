CONSTANTS
  MaxUpdates = 4
  MaxConcurrent = 2
  MaxFaults = 0
SPECIFICATION MCSpec
CHECK_DEADLOCK FALSE
INVARIANT CustomPromptTakesPhoto
