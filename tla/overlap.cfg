SPECIFICATION Safety
CONSTANTS
  q1 = q1
  q2 = q2
  q3 = q3
  q4 = q4
  Nobody = Nobody
  Requests <- FourRequests
  PoolSize = 2
  Asks <- RetriesAndPatches
SYMMETRY RequestSymmetry
INVARIANTS
  ActiveRunsBounded
  DuplicateRunsOnlyFromOverlap
PROPERTIES
  StatusSkipsOnlyFromOverlap
CHECK_DEADLOCK FALSE
