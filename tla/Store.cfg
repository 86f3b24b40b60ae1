SPECIFICATION Spec
CONSTANTS
  r1 = r1
  r2 = r2
  Ids = {r1, r2}
  Loaded = {r1}
  MaxVersion = 4
  MaxLog = 4
  Scenarios <- All
INVARIANTS Promised SlotsSound IndexExact
CHECK_DEADLOCK FALSE
