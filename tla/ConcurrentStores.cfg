\* The four stores that threads share, each as one map.
SPECIFICATION StoresSpec
CONSTANTS
  Threads = {t1, t2, t3}
  d1 = d1
  d2 = d2
  d3 = d3
  Dogs = {d1, d2, d3}
  Known = {d1, d2}
  AgeRange = {1, 2}
  None = None
  Shards = 2
PROPERTY ImplementsAgeMap
SYMMETRY ThreadSymmetry
