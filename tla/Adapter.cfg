SPECIFICATION Spec
CONSTANTS
  c1 = c1
  c2 = c2
  c3 = c3
  c4 = c4
  r1 = r1
  r2 = r2
  Ids = {r1, r2}
  Loaded = {r1, r2}
  Absent = Absent
  Original = Original
  CheckpointEntries = 1
  Scenarios <- All
INVARIANTS AllOrNothing AckedStand NoLostUpdate RefusedInvisibleUnlessReplayed
CHECK_DEADLOCK FALSE
