SPECIFICATION Safety
CONSTANTS
  q1 = q1
  q2 = q2
  q3 = q3
  q4 = q4
  Nobody = Nobody
  Requests <- TwoRequests
  PoolSize = 1
  Asks <- AllButDeletion
PROPERTIES
  StatusFollowsMachine
CHECK_DEADLOCK FALSE
