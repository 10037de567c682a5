SPECIFICATION Spec
CONSTANTS
  q1 = q1
  q2 = q2
  q3 = q3
  ann = ann
  bob = bob
  p1 = p1
  MaxMatches = 3
  MaxLimit = 3
  MaxImports = 2
  PerPage = 2
  Attempts = 3
  WithDoi <- MCWithDoi
  Servers <- MCServers
  Skew <- MCSkew
  Limit = 2
  Window = 3
  MaxNow = 5
  MaxCalls = 4
  AccountRequests = {q1, q2, q3}
  Founders <- MCFounders
  FirstRole <- MCFirstRole
  FirstEmail <- MCFirstEmail
  Emails = {"a", "b", "c"}
  Superusers = {bob}
  NoRole = "norole"
  NoUser = "nouser"
  EditRequests = {q1, q2, q3}
  Existing = {p1}
  FirstName <- MCFirstName
  MaxCopies = 2
  Suffixes = {"s", "t"}
  NoProject = "noproject"
  Nobody = "nobody"
  Nodes <- MCNodes
  Graphs <- MCGraphs
  MaxDepth = 3
INVARIANTS
  TypeOK
  PreviewComplete
  ImportedOncePerSpelling
  SlidingWindow
  
  ConflictOnlyFromOverlap
  ClashesComeFromOverlap
  LaterFieldsStay
  ShortestPathFound
PROPERTIES
  ImplementsStream
  EveryPreviewAnswered
  FetchAdvances
  SearchAdvances
CHECK_DEADLOCK FALSE
