SPECIFICATION FairSpec
CONSTANTS
  Threads = {t1, t2, t3}
  MaxAppends = 3
  MaxCrashes = 0
  CheckpointEntries = 1
  TornAt = {1}
INVARIANTS TypeOK WriteAhead OneTurn TruncatedIsOnDisk NoLostWakeup
PROPERTIES ApplyInOrder EveryCommitReturns
CHECK_DEADLOCK FALSE
