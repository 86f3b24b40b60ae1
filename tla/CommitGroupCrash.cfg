SPECIFICATION Spec
CONSTANTS
  Threads = {t1, t2}
  MaxAppends = 3
  MaxCrashes = 2
  CheckpointEntries = 1
  TornAt = {}
INVARIANT AckedSurvive
PROPERTY ImplementsRegister
CHECK_DEADLOCK FALSE
