SPECIFICATION Spec
CONSTANTS
  Threads = {t1}
  MaxAppends = 2
  MaxCrashes = 1
  CheckpointEntries = 1
  TornAt = {0, 1}
INVARIANT AckedSurvive
CHECK_DEADLOCK FALSE
