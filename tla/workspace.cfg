SPECIFICATION Spec
CONSTANTS
  q1 = q1
  q2 = q2
  q3 = q3
  s1 = s1
  c1 = c1
  Requests <- MCRequests
  Stored <- MCStored
  Collected <- MCCollected
  Files <- MCFiles
  PdfFiles <- MCPdfFiles
  BadFiles <- MCBadFiles
  StoredFile <- MCStoredFile
  NoFile = "nofile"
  NoDoc = "nodoc"
  NoGraph = NoGraph
  TableOrder <- MCTableOrder
  Answers <- MCAnswers
  Unstorable = "opportunities"
  Earlier = "earlier"
  PdfInstalled = TRUE
  NoOne = "noone"
SYMMETRY Interchangeable
INVARIANTS
  TypeOK
  FilesBehindRows
  
  SameContentOnlyFromOverlap
  MetaTellsCorpus
  CorpusTextsWereCurrent
  
  
  
  
  ReportFilesAgree
  CompletedReportHasItsFiles
CHECK_DEADLOCK FALSE
