SPECIFICATION Spec
CONSTANTS
  q1 = q1
  q2 = q2
  q3 = q3
  q4 = q4
  Nobody = Nobody
  Requests <- ThreeRequests
  PoolSize = 2
  Asks <- RetriesAndDeletion
INVARIANTS
  TypeOK
  RunsComeFromAcceptedRequests
  NoOrphanRows
PROPERTIES
  DeletedIsFinal
  
CHECK_DEADLOCK FALSE
