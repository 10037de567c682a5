SPECIFICATION Spec
CONSTANTS
  r1 = r1
  r2 = r2
  w1 = w1
  w2 = w2
  w3 = w3
  w4 = w4
  Runs <- MCRuns
  Works <- MCWorks
  Imports <- MCImports
  SourceId <- MCSourceId
  Doi <- MCDoi
  Checksum <- MCChecksum
  NoId = "none"
  NoDoi = "none"
  MaxResults = 4
  BatchSize = 2
INVARIANTS
  TypeOK
  CountersMatchDocuments
  NoDuplicateOfEarlierRun
PROPERTIES
  EveryRunEnds
  ImplementsContract
CHECK_DEADLOCK FALSE
