\* The durable stores of durability/, killed, failing and without power.
SPECIFICATION Spec
CONSTANTS
  a = a  b = b
  Ids = {a, b}
  Unknown = Unknown
  Ages = {0, 1}
  Seed <- FirstAges
  MaxFlushes = 2  MaxLog = 4
  NoFile = NoFile  Torn = Torn
  Scenarios <- All
INVARIANTS RecoversPromised OpensAgain
CHECK_DEADLOCK FALSE
