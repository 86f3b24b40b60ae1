\* Requests of several steps on two tables.
SPECIFICATION Spec
CONSTANTS
  c1 = c1
  c2 = c2
  c3 = c3
  Conns = {c1, c2, c3}
  Reader = c3
  Memories = {1, 2, 3}
  Entities = {11, 12}
  Stamps = {1, 2}
  Absent = Absent
  PageLimit = 2
  MaxDepth = 3
  MaxNodes = 4
  Schema <- MemoryFields
  IntMax = 3
  Panicked = Panicked
  Scenarios <- All
INVARIANTS
  EdgesResolve
  AckedLinksStand
  WalkExact
  JoinFaithful
  TraverseFaithful
  QueryFaithful
