\* Connection threads: sessions, classes and the shared failure table.
SPECIFICATION Spec
CONSTANTS
  k1 = k1
  k2 = k2
  k3 = k3
  p1 = p1
  p2 = p2
  t1 = t1
  t2 = t2
  r1 = r1
  r2 = r2
  Connections = {k1, k2, k3}
  Peers = {p1, p2}
  PeerOf <- Two
  Tables = {t1, t2}
  Primary = t1
  Ids = {r1, r2}
  Absent = Absent
  Bad = Bad
  MaxStagedOps = 2
  MaxTrackedReads = 3
  MaxAuthFailures = 3
  MaxTrackedPeers = 1
  Limit = 2
  Window = 2
  ProtocolVersion = 22
  MaxTime = 3
  Scenarios <- All
INVARIANTS
  SessionSound
  ReadYourWrites
  ValidatedStaysValid
  FailuresBounded
PROPERTIES
  WritesAuthorized
  SnapshotCommits
