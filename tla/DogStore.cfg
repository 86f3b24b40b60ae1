\* The dog store's two files, opened with one list after another.
SPECIFICATION Spec
CONSTANTS
  a = a  b = b  c = c
  Ids = {a, b, c}
  Ages = {0, 1, 2}
  Lists <- AllLists
  MaxUpdates = 2  MaxOpens = 4
  NoFile = NoFile
INVARIANTS AgesByIdentity PortablePair
CHECK_DEADLOCK FALSE
