SPECIFICATION Spec
CONSTANTS
  q1 = q1
  q2 = q2
  q3 = q3
  q4 = q4
  Nobody = Nobody
  Requests <- TwoRequests
  PoolSize = 2
  Asks <- RetriesAndDeletion
PROPERTIES
  PendingRunSettles
CHECK_DEADLOCK FALSE
