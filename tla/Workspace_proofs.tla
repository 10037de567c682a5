-------------------------- MODULE Workspace_proofs --------------------------
(***************************************************************************)
(* Proofs about Workspace, for any requests, documents, files, tables and  *)
(* answers: its types, and what holds between the rows of documents and    *)
(* the objects in S3, whatever the other handlers do.                      *)
(***************************************************************************)
EXTENDS Workspace, FiniteSetTheorems, TLAPS

-----------------------------------------------------------------------------
(* What any step does to the state of DocumentStore                        *)

\* A request that another module serves begins, or is over.
Taken(r) ==
  /\ \E to \in {"elsewhere", "refused", "done"} : Read(r, to, {})
  /\ UNCHANGED <<row, objects, file, removed>>
Left(r) == \E to \in {"refused", "done", "aborted"} : Finished(r, to)

DocMove(r) == DocStep(r) \/ Taken(r) \/ Left(r)

\* The handlers of corpus, graph, analysis and reports begin and end, and
\* leave the documents alone.
LEMMA Moves ==
  ASSUME [Next]_vars
  PROVE  (\E r \in Requests : DocMove(r)) \/ UNCHANGED docVars
<1> USE DEF DocMove, Taken, Left
<1>1. ASSUME NEW r \in Requests, CorpusStep(r)
      PROVE  Taken(r) \/ Left(r) \/ UNCHANGED docVars
  BY <1>1 DEF CorpusStep, RebuildList, RebuildClear, Download, WriteText, Write,
              Summarise, CutShort, Seed, Served
<1>2. ASSUME NEW r \in Requests, GraphStep(r)
      PROVE  Taken(r) \/ Left(r) \/ UNCHANGED docVars
  <2>1. CASE ListDocuments(r)
    BY <2>1 DEF ListDocuments, Served
  <2>2. CASE Prepare(r) \/ ToolRead(r) \/ ToolExit(r)
    BY <2>2 DEF Prepare, ToolRead, ToolExit
  <2>3. CASE ToolFailed(r) \/ Import(r) \/ GenerationAborted(r)
    BY <2>3 DEF ToolFailed, Import, GenerationAborted, Settle
  <2>. QED
    BY <1>2, <2>1, <2>2, <2>3 DEF GraphStep
<1>3. ASSUME NEW r \in Requests, AnalysisStep(r)
      PROVE  Taken(r) \/ Left(r) \/ UNCHANGED docVars
  BY <1>3 DEF AnalysisStep, DispatchAnalysis, AnalysisLost, Ask, Answer,
              DeleteBegins, DeleteEnds, Store, CannotStore, AnalysisRaises,
              Release, Served
<1>4. ASSUME NEW r \in Requests, ReportStep(r)
      PROVE  Taken(r) \/ Left(r) \/ UNCHANGED docVars
  BY <1>4 DEF ReportStep, CreateReport, Regenerate, DeleteReport, Begins,
              WriteFiles, GenerationFails, CommitReport, CommitFailure,
              CommitReportDeletion, ReportAborted, Served
<1>. QED
  BY <1>1, <1>2, <1>3, <1>4 DEF Next, vars

-----------------------------------------------------------------------------
(* Types                                                                   *)

\* An untouched workspace has its types.
LEMMA InitTypes == Init => TypeOK
<1> SUFFICES ASSUME Init PROVE TypeOK
  OBVIOUS
<1>1. DocTypeOK
  BY FilesAssumption, DocsAssumption DEF Init, DocInit, DocTypeOK, Docs, Absent,
     Keys, Places, InProgress, Over, Uploading, Deleting
<1>2. CorpusTypeOK
  BY DEF Init, CorpusInit, CorpusTypeOK, Job, NoJob
<1>3. GraphTypeOK
  BY DEF Init, GraphInit, GraphTypeOK, Graphs
<1>4. AnalysisTypeOK
  BY TablesAssumption, AnswersAssumption
  DEF Init, AnalysisInit, AnalysisTypeOK, Owned, Tables
<1>5. ReportTypeOK
  BY DEF Init, ReportInit, ReportTypeOK, NoReport, Makers
<1>. QED
  BY <1>1, <1>2, <1>3, <1>4, <1>5 DEF TypeOK

\* A value of a function is replaced by another one of its kind.
LEMMA Replaced ==
  ASSUME NEW D, NEW S, NEW f \in [D -> S], NEW x, NEW v \in S
  PROVE  [f EXCEPT ![x] = v] \in [D -> S]
OBVIOUS

\* A function has no value to replace elsewhere.
LEMMA Elsewhere ==
  ASSUME NEW D, NEW S, NEW f \in [D -> S], NEW x, x \notin D, NEW v
  PROVE  [f EXCEPT ![x] = v] = f
OBVIOUS

\* The row of a document, and what a request does to it.
DocumentRow == [status : {"absent", "pending", "extracted"},
                original : BOOLEAN, text : BOOLEAN, checksum : Files \cup {NoFile}]

\* Queueing a row, and committing an upload, give rows again.
LEMMA DocumentRowFields ==
  /\ \A w \in DocumentRow : /\ [w EXCEPT !.status = "pending"] \in DocumentRow
                             /\ [w EXCEPT !.status = "pending"].status = "pending"
  /\ \A t \in BOOLEAN, c \in Files \cup {NoFile} :
       [status |-> "extracted", original |-> TRUE, text |-> t, checksum |-> c]
         \in DocumentRow
BY DEF DocumentRow

\* Documents keep their types.
LEMMA DocTypes ==
  ASSUME DocTypeOK, NEW r \in Requests, DocMove(r)
  PROVE  DocTypeOK'
<1> USE DocsAssumption DEF DocTypeOK, Docs, Go, Absent
<1>0. /\ Uploading \cup Deleting \cup Over \cup {"reprocessing", "elsewhere"}
           \subseteq Places
      /\ Requests \subseteq Docs
  BY DEF Places, InProgress
<1>1. ASSUME NEW to \in Over \cup {"inserted", "found", "reprocessing", "elsewhere"},
             NEW docs \in SUBSET Docs, Read(r, to, docs)
      PROVE  /\ pc' \in [Requests -> Places]
             /\ target' \in [Requests -> SUBSET Docs]
             /\ after' \in [Requests -> SUBSET Requests]
  BY <1>0, <1>1 DEF Read, Uploading, Deleting
<1>2. CASE \E f \in Files : Upload(r, f)
  <2>1. PICK f \in Files : Upload(r, f)
    BY <1>2
  <2>. QED
    BY <2>1, <1>1 DEF Upload, Over
<1>3. CASE PutOriginal(r) \/ PutText(r)
  <2>1. Keys(r) \subseteq UNION {Keys(d) : d \in Docs}
    BY <1>0
  <2>. QED
    BY <1>3, <1>0, <2>1 DEF PutOriginal, PutText, Keys, Uploading
<1>4. CASE ExtractNothing(r) \/ Abort(r)
  BY <1>4, <1>0 DEF ExtractNothing, Abort, Uploading, Over
<1>12. CASE CommitUpload(r)
  <2>1. pc' \in [Requests -> Places]
    BY <1>12, <1>0 DEF CommitUpload, Over
  <2>2. row' \in [Docs -> [status : {"absent", "pending", "extracted"},
                          original : BOOLEAN, text : BOOLEAN,
                          checksum : Files \cup {NoFile}]]
    <3>1. [status |-> "extracted", original |-> TRUE,
           text |-> pc[r] = "read", checksum |-> file[r]] \in DocumentRow
      <4>1. (pc[r] = "read") \in BOOLEAN /\ file[r] \in Files \cup {NoFile}
        OBVIOUS
      <4>. QED
        BY Zenon, <4>1, DocumentRowFields
    <3>. QED
      BY <1>12, <3>1 DEF CommitUpload, DocumentRow
  <2>. QED
    BY <1>12, <2>1, <2>2 DEF CommitUpload
<1>5. CASE AddUrl(r)
  BY <1>5, <1>1 DEF AddUrl, Over
<1>6. CASE \E d \in Docs : Delete(r, d) \/ Reprocess(r, d)
  <2>1. PICK d \in Docs : Delete(r, d) \/ Reprocess(r, d)
    BY <1>6
  <2>. QED
    BY <2>1, <1>1 DEF Delete, Reprocess, Over
<1>7. CASE Purge(r)
  <2>1. PICK gone \in SUBSET UNION {Named(d) : d \in target[r]} :
          /\ objects' = objects \ gone
          /\ removed' = [removed EXCEPT ![r] = gone]
    BY <1>7 DEF Purge
  <2>2. gone \subseteq UNION {Keys(d) : d \in Docs}
    BY <2>1 DEF Named
  <2>. QED
    BY <1>7, <2>1, <2>2, <1>0 DEF Purge, Deleting
<1>8. CASE CommitDelete(r)
  BY <1>8, <1>0 DEF CommitDelete, Over
<1>9. CASE CommitReprocess(r)
  <2>1. pc' \in [Requests -> Places]
    BY <1>9, <1>0 DEF CommitReprocess, Over
  <2>2. \A d \in Docs : [row[d] EXCEPT !.status = "pending"] \in DocumentRow
    BY DocumentRowFields DEF DocumentRow
  <2>3. row' \in [Docs -> DocumentRow]
    BY <1>9, <2>2 DEF CommitReprocess, DocumentRow
  <2>. QED
    BY <1>9, <2>1, <2>3 DEF CommitReprocess, DocumentRow
<1>10. CASE Taken(r)
  BY <1>10, <1>1 DEF Taken, Over
<1>11. CASE Left(r)
  BY <1>11, <1>0 DEF Left, Finished, Over
<1>. QED
  BY <1>2, <1>3, <1>4, <1>5, <1>6, <1>7, <1>8, <1>9, <1>10, <1>11, <1>12
  DEF DocMove, DocStep

\* What a rebuild does to its own state.
LEMMA JobFields ==
  ASSUME NEW j \in Job
  PROVE  /\ \A ok \in BOOLEAN : [j EXCEPT !.at = "writing", !.got = ok] \in Job
         /\ [j EXCEPT !.at = "ended"] \in Job /\ [j EXCEPT !.at = "cut"] \in Job
         /\ \A n \in Nat :
              [j EXCEPT !.at = "summing", !.doc = NoDoc, !.added = n] \in Job
         /\ \A todo \in SUBSET Docs, d \in Docs, n \in Nat :
              [j EXCEPT !.at = "downloading", !.todo = todo, !.doc = d, !.added = n]
                \in Job
<1>1. ASSUME NEW ok \in BOOLEAN
      PROVE  [j EXCEPT !.at = "writing", !.got = ok] \in Job
  BY DEF Job, Rebuilding
<1>2. [j EXCEPT !.at = "ended"] \in Job /\ [j EXCEPT !.at = "cut"] \in Job
  BY DEF Job
<1>3. ASSUME NEW n \in Nat
      PROVE  [j EXCEPT !.at = "summing", !.doc = NoDoc, !.added = n] \in Job
  BY DEF Job, Rebuilding
<1>4. ASSUME NEW todo \in SUBSET Docs, NEW d \in Docs, NEW n \in Nat
      PROVE  [j EXCEPT !.at = "downloading", !.todo = todo, !.doc = d, !.added = n]
               \in Job
  BY DEF Job, Rebuilding
<1>. QED
  BY <1>1, <1>2, <1>3, <1>4

\* So do folders, texts and rebuilds.
LEMMA GoOnTypes ==
  ASSUME CorpusTypeOK, NEW r \in Requests, NEW todo \in SUBSET Docs,
         NEW added \in Nat, NEW cleared \in SUBSET Docs,
         GoOn(r, todo, added, cleared)
  PROVE  /\ job' \in [Requests -> Job] /\ folders' \in SUBSET Docs
         /\ cleared \subseteq folders'
         /\ meta' \in [included : Nat, tests : BOOLEAN]
<1> USE DEF CorpusTypeOK, GoOn
<1>0. job[r] \in Job
  OBVIOUS
<1>1. CASE todo = {}
  <2>1. [job[r] EXCEPT !.at = "summing", !.doc = NoDoc, !.added = added] \in Job
    BY <1>0, JobFields
  <2>3. job' \in [Requests -> Job]
    BY <1>1, <2>1
  <2>2. meta' = [included |-> added, tests |-> FALSE]
    BY <1>1
  <2>. QED
    BY <1>1, <2>3, <2>2
<1>2. CASE todo # {}
  <2>1. PICK d \in todo :
          /\ job' = [job EXCEPT ![r] =
                       [@ EXCEPT !.at = "downloading", !.todo = todo \ {d},
                          !.doc = d, !.added = added]]
          /\ folders' = cleared \cup {d}
          /\ UNCHANGED meta
    BY <1>2
  <2>2. todo \ {d} \in SUBSET Docs /\ d \in Docs
    OBVIOUS
  <2>3. [job[r] EXCEPT !.at = "downloading", !.todo = todo \ {d},
                       !.doc = d, !.added = added] \in Job
    BY <1>0, <2>2, JobFields
  <2>4. job' \in [Requests -> Job]
    BY <2>1, <2>3
  <2>. QED
    BY <2>1, <2>4
<1>. QED
  BY <1>1, <1>2

\* The steps of a rebuild and of a seed keep the types of the corpus.
LEMMA CorpusTypes ==
  ASSUME CorpusTypeOK, DocTypeOK, NEW r \in Requests, CorpusStep(r)
  PROVE  CorpusTypeOK'
<1> USE DEF CorpusTypeOK
<1>1. CASE RebuildList(r)
  <2>1. Listed \in SUBSET Docs
    BY DEF Listed, Rows
  <2>2. [NoJob EXCEPT !.at = "listed", !.todo = Listed] \in Job
    BY <2>1 DEF NoJob, Job, Rebuilding
  <2>3. job' \in [Requests -> Job]
    BY <1>1, <2>2 DEF RebuildList
  <2>. QED
    BY <1>1, <2>3 DEF RebuildList
<1>2. CASE RebuildClear(r)
  <2>1. job[r].todo \in SUBSET Docs
    BY DEF Job
  <2>2. /\ job' \in [Requests -> Job] /\ folders' \in SUBSET Docs
        /\ meta' \in [included : Nat, tests : BOOLEAN]
    BY <1>2, <2>1, GoOnTypes DEF RebuildClear
  <2>. QED
    BY <1>2, <2>2 DEF RebuildClear, OtherWorking, Working
<1>3. CASE Download(r)
  <2>1. PICK ok \in BOOLEAN :
          job' = [job EXCEPT ![r] = [@ EXCEPT !.at = "writing", !.got = ok]]
    BY <1>3 DEF Download
  <2>2. job' \in [Requests -> Job]
    BY <2>1, JobFields, Replaced
  <2>. QED
    BY <1>3, <2>2 DEF Download
<1>4. CASE WriteText(r)
  <2>1. PICK added \in Nat : GoOn(r, job[r].todo, added, folders)
    BY <1>4 DEF WriteText, Write, Job
  <2>2. /\ job' \in [Requests -> Job] /\ folders' \in SUBSET Docs
        /\ folders \subseteq folders'
        /\ meta' \in [included : Nat, tests : BOOLEAN]
    BY <2>1, GoOnTypes DEF Job
  <2>3. texts' \in SUBSET folders /\ source' \in [texts' -> Requests]
    BY <1>4 DEF WriteText, Write
  <2>. QED
    BY <1>4, <2>2, <2>3 DEF WriteText, Write
<1>5. CASE Summarise(r) \/ CutShort(r)
  <2>1. [job[r] EXCEPT !.at = "ended"] \in Job /\ [job[r] EXCEPT !.at = "cut"] \in Job
    BY JobFields
  <2>2. job' \in [Requests -> Job]
    BY <1>5, <2>1 DEF Summarise, CutShort
  <2>. QED
    BY <1>5, <2>2 DEF Summarise, CutShort, Working
<1>6. CASE Seed(r)
  BY <1>6 DEF Seed, OtherWorking, Working
<1>. QED
  BY <1>1, <1>2, <1>3, <1>4, <1>5, <1>6 DEF CorpusStep

\* ... and the folder, the tool's output and the runs of generations,
LEMMA GraphTypes ==
  ASSUME GraphTypeOK, DocTypeOK, NEW r \in Requests, GraphStep(r)
  PROVE  GraphTypeOK'
<1> USE DEF GraphTypeOK, Graphs, Generating
<1>1. Rows \in SUBSET Docs /\ WithAbstract(r) \in SUBSET Docs
  BY DEF Rows, WithAbstract
<1>2. CASE ListDocuments(r)
  BY <1>1, <1>2 DEF ListDocuments, Served, graphVars
<1>3. CASE Prepare(r)
  BY <1>1, <1>3 DEF Prepare, At
<1>4. CASE ToolRead(r) \/ ToolExit(r)
  BY <1>4 DEF ToolRead, ToolExit, At
<1>5. CASE ToolFailed(r)
  BY <1>5 DEF ToolFailed, Settle
<1>6. CASE Import(r)
  BY <1>6 DEF Import, Settle
<1>7. CASE GenerationAborted(r)
  BY <1>7 DEF GenerationAborted
<1>. QED
  BY <1>2, <1>3, <1>4, <1>5, <1>6, <1>7 DEF GraphStep

\* A DELETE is of one of the tables.
DeletesTable ==
  \A r \in Requests : ana[r].at = "waiting" => ana[r].table <= Len(TableOrder)

\* The state of an analysis, and what its steps do to it.
Analysis == [at : Analysing \cup {"none", "ended"}, table : 1 .. Len(TableOrder) + 1,
             answer : SUBSET Tables, stored : BOOLEAN]

\* Every assignment an analysis makes to its record gives such a record again.
LEMMA AnalysisFields ==
  ASSUME NEW a \in Analysis
  PROVE  /\ \A at \in Analysing \cup {"ended"} : [a EXCEPT !.at = at] \in Analysis
         /\ \A answer \in SUBSET Tables :
              [a EXCEPT !.at = "deleting", !.answer = answer] \in Analysis
         /\ \A t \in 1 .. Len(TableOrder) + 1 :
              [a EXCEPT !.at = "deleting", !.table = t] \in Analysis
         /\ [a EXCEPT !.at = "ended", !.stored = TRUE] \in Analysis
         /\ a.table \in 1 .. Len(TableOrder) + 1 /\ a.answer \in SUBSET Tables
<1>1. ASSUME NEW at \in Analysing \cup {"ended"}
      PROVE  [a EXCEPT !.at = at] \in Analysis
  BY DEF Analysis
<1>2. ASSUME NEW answer \in SUBSET Tables
      PROVE  [a EXCEPT !.at = "deleting", !.answer = answer] \in Analysis
  BY DEF Analysis, Analysing
<1>3. ASSUME NEW t \in 1 .. Len(TableOrder) + 1
      PROVE  [a EXCEPT !.at = "deleting", !.table = t] \in Analysis
  BY DEF Analysis, Analysing
<1>4. [a EXCEPT !.at = "ended", !.stored = TRUE] \in Analysis
  BY DEF Analysis
<1>5. a.table \in 1 .. Len(TableOrder) + 1 /\ a.answer \in SUBSET Tables
  BY DEF Analysis
<1>. QED
  BY <1>1, <1>2, <1>3, <1>4, <1>5

\* ... the tables and those who empty and fill them,
LEMMA AnalysisTypes ==
  ASSUME AnalysisTypeOK, DeletesTable, NEW r \in Requests, AnalysisStep(r)
  PROVE  AnalysisTypeOK' /\ DeletesTable'
<1>0. Len(TableOrder) \in Nat
  BY TablesAssumption
<1>1. /\ results \in SUBSET Owned /\ ana \in [Requests -> Analysis]
      /\ snapshot \in [Requests -> SUBSET Owned]
      /\ deleted \in [Requests -> SUBSET Owned]
  BY DEF AnalysisTypeOK, Analysis
<1>2. ana[r] \in Analysis
  BY <1>1
<1>3. ASSUME /\ results' \in SUBSET Owned
             /\ snapshot' \in [Requests -> SUBSET Owned]
             /\ deleted' \in [Requests -> SUBSET Owned],
             NEW a \in Analysis, ana' = [ana EXCEPT ![r] = a],
             a.at = "waiting" => a.table <= Len(TableOrder)
      PROVE  AnalysisTypeOK' /\ DeletesTable'
  <2>1. ana' \in [Requests -> Analysis]
    BY <1>1, <1>3
  <2>2. DeletesTable'
    BY <1>1, <1>3 DEF DeletesTable
  <2>. QED
    BY Zenon, <1>3, <2>1, <2>2 DEF AnalysisTypeOK, Analysis
<1>4. \A at : /\ [ana[r] EXCEPT !.at = at].at = at
              /\ [ana[r] EXCEPT !.at = at].table = ana[r].table
  BY <1>2 DEF Analysis
<1>5. ASSUME NEW at \in Analysing \cup {"ended"},
             at = "waiting" => ana[r].table <= Len(TableOrder),
             ana' = [ana EXCEPT ![r].at = at],
             /\ results' \in SUBSET Owned
             /\ snapshot' \in [Requests -> SUBSET Owned]
             /\ deleted' \in [Requests -> SUBSET Owned]
      PROVE  AnalysisTypeOK' /\ DeletesTable'
  <2>. DEFINE a == [ana[r] EXCEPT !.at = at]
  <2>1. a \in Analysis /\ ana' = [ana EXCEPT ![r] = a]
    BY <1>2, <1>5, AnalysisFields
  <2>2. a.at = "waiting" => a.table <= Len(TableOrder)
    BY <1>4, <1>5
  <2>. QED
    BY <1>3, <1>5, <2>1, <2>2
<1>6. CASE DispatchAnalysis(r) \/ AnalysisLost(r) \/ Ask(r) \/ CannotStore(r)
  <2>1. PICK at \in {"dispatched", "ended", "asking", "leaked"} :
          ana' = [ana EXCEPT ![r].at = at]
    BY <1>6 DEF DispatchAnalysis, AnalysisLost, Ask, CannotStore, Step
  <2>2. UNCHANGED <<results, snapshot, deleted>>
    BY <1>6 DEF DispatchAnalysis, AnalysisLost, Ask, CannotStore
  <2>. QED
    BY <1>1, <1>5, <2>1, <2>2 DEF Analysing
<1>7. CASE \E answer \in Answers : Answer(r, answer)
  <2>1. PICK answer \in SUBSET Tables : Answer(r, answer)
    BY <1>7, AnswersAssumption
  <2>. DEFINE a == [ana[r] EXCEPT !.at = "deleting", !.answer = answer]
  <2>2. a \in Analysis /\ ana' = [ana EXCEPT ![r] = a]
    BY <1>2, <2>1, AnalysisFields DEF Answer
  <2>3. a.at # "waiting"
    BY <1>2 DEF Analysis
  <2>. QED
    BY <1>1, <1>3, <2>1, <2>2, <2>3 DEF Answer
<1>8. CASE DeleteBegins(r)
  <2>1. {p \in results : p[1] = Current(r)} \in SUBSET Owned
    BY <1>1
  <2>2. snapshot' \in [Requests -> SUBSET Owned]
    BY <1>1, <1>8, <2>1 DEF DeleteBegins
  <2>. QED
    BY <1>1, <1>5, <1>8, <2>2 DEF DeleteBegins, Step, Analysing
<1>9. CASE DeleteEnds(r)
  <2>1. ana[r].table <= Len(TableOrder)
    BY <1>9 DEF DeleteEnds, DeletesTable
  <2>2. ana[r].table + 1 \in 1 .. Len(TableOrder) + 1
    <3>1. ana[r].table \in 1 .. Len(TableOrder) + 1
      BY <1>2, AnalysisFields
    <3>. QED
      BY <1>0, <2>1, <3>1
  <2>. DEFINE a == [ana[r] EXCEPT !.at = "deleting", !.table = ana[r].table + 1]
  <2>3. a \in Analysis
    BY <1>2, <2>2, AnalysisFields
  <2>4. ana' = [ana EXCEPT ![r] = a]
    BY Zenon, <1>9 DEF DeleteEnds
  <2>5. a.at # "waiting"
    BY <1>2 DEF Analysis
  <2>6. deleted' \in [Requests -> SUBSET Owned] /\ snapshot' \in [Requests -> SUBSET Owned]
    BY <1>1, <1>9 DEF DeleteEnds
  <2>. QED
    BY <1>1, <1>3, <1>9, <2>3, <2>4, <2>5, <2>6 DEF DeleteEnds
<1>10. CASE Store(r)
  <2>. DEFINE a == [ana[r] EXCEPT !.at = "ended", !.stored = TRUE]
  <2>1. a \in Analysis /\ ana' = [ana EXCEPT ![r] = a]
    BY <1>2, <1>10, AnalysisFields DEF Store
  <2>2. a.at # "waiting"
    BY <1>2 DEF Analysis
  <2>3. ana[r].answer \X {r} \subseteq Owned
    BY <1>2, AnalysisFields DEF Owned
  <2>4. results' \in SUBSET Owned /\ deleted' \in [Requests -> SUBSET Owned]
    BY <1>1, <1>10, <2>3 DEF Store
  <2>. QED
    BY <1>1, <1>3, <1>10, <2>1, <2>2, <2>4 DEF Store
<1>11. CASE AnalysisRaises(r) \/ Release(r)
  <2>1. PICK at \in {"leaked", "ended"} : ana' = [ana EXCEPT ![r].at = at]
    BY <1>11 DEF AnalysisRaises, Release, Step
  <2>2. /\ results' \in SUBSET Owned
        /\ snapshot' \in [Requests -> SUBSET Owned]
        /\ deleted' \in [Requests -> SUBSET Owned]
    BY <1>1, <1>11 DEF AnalysisRaises, Release
  <2>. QED
    BY <1>5, <2>1, <2>2 DEF Analysing
<1>. QED
  BY <1>6, <1>7, <1>8, <1>9, <1>10, <1>11 DEF AnalysisStep

\* A generation of a report, and the row of one.
Making ==
  [at : {"none", "reading", "written", "failing", "deleting", "ended"},
   report : Makers, pdf : {"none", "written", "failed"}, half : BOOLEAN]
ReportRow == [status : {"absent", "completed", "failed"},
              by : Makers, paths : BOOLEAN, pdfPath : BOOLEAN]

\* What a generation does to its own state, ...
LEMMA MakingFields ==
  ASSUME NEW m \in Making
  PROVE  /\ \A at \in {"reading", "written", "failing", "deleting", "ended"} :
              /\ [m EXCEPT !.at = at] \in Making
              /\ \A d \in Makers : [m EXCEPT !.at = at, !.report = d] \in Making
              /\ \A p \in {"none", "written", "failed"} :
                   [m EXCEPT !.at = at, !.pdf = p] \in Making
              /\ \A h \in BOOLEAN : [m EXCEPT !.at = at, !.half = h] \in Making
         /\ m.report \in Makers
<1>1. ASSUME NEW at \in {"reading", "written", "failing", "deleting", "ended"}
      PROVE  /\ [m EXCEPT !.at = at] \in Making
             /\ \A d \in Makers : [m EXCEPT !.at = at, !.report = d] \in Making
  BY DEF Making
<1>2. ASSUME NEW at \in {"reading", "written", "failing", "deleting", "ended"}
      PROVE  /\ \A p \in {"none", "written", "failed"} :
                   [m EXCEPT !.at = at, !.pdf = p] \in Making
             /\ \A h \in BOOLEAN : [m EXCEPT !.at = at, !.half = h] \in Making
  BY DEF Making
<1>3. m.report \in Makers
  BY DEF Making
<1>. QED
  BY <1>1, <1>2, <1>3

\* ... and to the row.
LEMMA ReportRowFields ==
  ASSUME NEW w \in ReportRow, NEW r \in Requests
  PROVE  /\ [w EXCEPT !.status = "failed", !.by = r] \in ReportRow
         /\ \A b \in BOOLEAN :
              [status |-> "completed", by |-> r, paths |-> TRUE, pdfPath |-> b]
                \in ReportRow
         /\ NoReport \in ReportRow
         /\ w.pdfPath \in BOOLEAN
<1>1. r \in Makers /\ NoOne \in Makers
  BY DEF Makers
<1>2. [w EXCEPT !.status = "failed", !.by = r] \in ReportRow
  BY Zenon, <1>1 DEF ReportRow
<1>3. ASSUME NEW b \in BOOLEAN
      PROVE  [status |-> "completed", by |-> r, paths |-> TRUE, pdfPath |-> b]
               \in ReportRow
  BY <1>1 DEF ReportRow
<1>4. NoReport \in ReportRow /\ w.pdfPath \in BOOLEAN
  BY <1>1 DEF ReportRow, NoReport
<1>. QED
  BY <1>2, <1>3, <1>4

\* ... reports and their files.
LEMMA ReportTypes ==
  ASSUME ReportTypeOK, NEW r \in Requests, ReportStep(r)
  PROVE  ReportTypeOK'
<1>0. Requests \subseteq Makers /\ NoOne \in Makers
  BY DEF Makers
<1>1. /\ report \in [Requests -> ReportRow] /\ making \in [Requests -> Making]
      /\ html \in [Requests -> Makers] /\ markdown \in [Requests -> Makers]
      /\ pdf \in [Requests -> Makers]
  BY DEF ReportTypeOK, ReportRow, Making
<1>2. making[r] \in Making /\ making[r].report \in Makers
  BY Zenon, <1>1, MakingFields
<1>3. SUFFICES /\ report' \in [Requests -> ReportRow]
               /\ making' \in [Requests -> Making]
               /\ html' \in [Requests -> Makers] /\ markdown' \in [Requests -> Makers]
               /\ pdf' \in [Requests -> Makers]
  BY Zenon DEF ReportTypeOK, ReportRow, Making
<1>4. ASSUME NEW m \in Making, making' = [making EXCEPT ![r] = m]
      PROVE  making' \in [Requests -> Making]
  BY <1>1, <1>4, Replaced
<1>5. \A d \in Makers : /\ [html EXCEPT ![d] = r] \in [Requests -> Makers]
                        /\ [markdown EXCEPT ![d] = r] \in [Requests -> Makers]
                        /\ [pdf EXCEPT ![d] = r] \in [Requests -> Makers]
  BY Zenon, <1>0, <1>1
<1>6. CASE CreateReport(r) \/ Regenerate(r) \/ DeleteReport(r)
  <2>1. PICK d \in Makers, at \in {"reading", "deleting"} : Begins(r, d, at)
    BY <1>0, <1>6 DEF CreateReport, Regenerate, DeleteReport, Reports
  <2>2. making' = [making EXCEPT ![r] = [making[r] EXCEPT !.at = at, !.report = d]]
    BY <2>1 DEF Begins
  <2>. QED
    BY Zenon, <1>1, <1>2, <1>4, <2>1, <2>2, MakingFields DEF Begins, files
<1>7. CASE WriteFiles(r)
  <2>1. PICK p \in {"written", "failed", "none"} :
          /\ making' = [making EXCEPT ![r] = [making[r] EXCEPT !.at = "written", !.pdf = p]]
          /\ Written(making[r].report, r, p = "written")
    BY Zenon, <1>7 DEF WriteFiles
  <2>2. making' \in [Requests -> Making]
    BY Zenon, <1>2, <1>4, <2>1, MakingFields
  <2>. QED
    BY <1>1, <1>2, <1>5, <1>7, <2>1, <2>2 DEF WriteFiles, Written
<1>8. CASE GenerationFails(r)
  <2>1. PICK half \in BOOLEAN :
          /\ making' = [making EXCEPT ![r].at = "failing", ![r].half = half]
          /\ html' = IF half THEN [html EXCEPT ![making[r].report] = r] ELSE html
    BY <1>8 DEF GenerationFails
  <2>2. making' \in [Requests -> Making]
    <3> DEFINE m == [making[r] EXCEPT !.at = "failing", !.half = half]
    <3>1. m \in Making
      BY Zenon, <1>2, MakingFields
    <3>2. making' = [making EXCEPT ![r] = m]
      BY Zenon, <2>1
    <3>. QED
      BY Zenon, <1>4, <3>1, <3>2
  <2>. QED
    BY <1>1, <1>2, <1>5, <1>8, <2>1, <2>2 DEF GenerationFails
<1>9. CASE CommitFailure(r) \/ CommitReport(r) \/ CommitReportDeletion(r)
  <2> DEFINE d == making[r].report
  <2>1. making' \in [Requests -> Making] /\ UNCHANGED files
    <3>1. making' = [making EXCEPT ![r] = [making[r] EXCEPT !.at = "ended"]]
      BY <1>9 DEF CommitFailure, CommitReport, CommitReportDeletion, Turn
    <3>. QED
      BY Zenon, <1>2, <1>4, <1>9, <3>1, MakingFields
      DEF CommitFailure, CommitReport, CommitReportDeletion
  <2>2. ASSUME d \in Requests
        PROVE  report' \in [Requests -> ReportRow]
    <3>1. report[d] \in ReportRow
      BY <1>1, <2>2
    <3>2. /\ [report[d] EXCEPT !.status = "failed", !.by = r] \in ReportRow
          /\ NoReport \in ReportRow
          /\ [status |-> "completed", by |-> r, paths |-> TRUE,
              pdfPath |-> report[d].pdfPath \/ making[r].pdf # "none"] \in ReportRow
      BY <3>1, ReportRowFields
    <3>. QED
      BY <1>1, <1>9, <3>2, Replaced
      DEF CommitFailure, CommitReport, CommitReportDeletion
  <2>3. ASSUME d \notin Requests
        PROVE  report' = report
    <3>1. \E v : report' = [report EXCEPT ![d] = v]
      <4>1. CASE CommitFailure(r)
        BY Zenon, <4>1 DEF CommitFailure
      <4>2. CASE CommitReport(r)
        BY Zenon, <4>2 DEF CommitReport
      <4>3. CASE CommitReportDeletion(r)
        BY Zenon, <4>3 DEF CommitReportDeletion
      <4>. QED
        BY <1>9, <4>1, <4>2, <4>3
    <3>. QED
      BY <1>1, <2>3, <3>1, Elsewhere
  <2>. QED
    BY <1>1, <2>1, <2>2, <2>3 DEF files
<1>10. CASE ReportAborted(r)
  <2>1. making' = [making EXCEPT ![r] = [making[r] EXCEPT !.at = "ended"]]
    BY <1>10 DEF ReportAborted
  <2>. QED
    BY Zenon, <1>1, <1>2, <1>4, <1>10, <2>1, MakingFields DEF ReportAborted, files
<1>. QED
  BY <1>6, <1>7, <1>8, <1>9, <1>10 DEF ReportStep

\* The types of all components are kept by every step.
LEMMA StepTypes ==
  ASSUME TypeOK, DeletesTable, [Next]_vars
  PROVE  TypeOK' /\ DeletesTable'
<1> USE DEF TypeOK
<1>1. DocTypeOK'
  BY Moves, DocTypes DEF docVars, DocTypeOK
<1>2. CASE UNCHANGED vars
  BY <1>2 DEF vars, docVars, corpusVars, graphVars, anaVars, reportVars,
     DocTypeOK, CorpusTypeOK, GraphTypeOK, AnalysisTypeOK, ReportTypeOK,
     DeletesTable
<1>3. CASE Next
  <2>1. UNCHANGED corpusVars => CorpusTypeOK'
    BY DEF corpusVars, CorpusTypeOK
  <2>2. UNCHANGED graphVars => GraphTypeOK'
    BY DEF graphVars, GraphTypeOK
  <2>3. UNCHANGED anaVars => AnalysisTypeOK' /\ DeletesTable'
    BY DEF anaVars, AnalysisTypeOK, DeletesTable
  <2>4. UNCHANGED reportVars => ReportTypeOK'
    BY DEF reportVars, ReportTypeOK, files
  <2>. QED
    BY <1>1, <1>3, <2>1, <2>2, <2>3, <2>4, CorpusTypes, GraphTypes,
       AnalysisTypes, ReportTypes DEF Next
<1>. QED
  BY <1>2, <1>3

\* Every variable of the workspace keeps its type.
THEOREM TypeCorrect == Spec => []TypeOK
<1>1. Init => DeletesTable
  BY DEF Init, AnalysisInit, DeletesTable
<1>2. (TypeOK /\ DeletesTable) /\ [Next]_vars => (TypeOK /\ DeletesTable)'
  BY StepTypes
<1>. QED
  BY InitTypes, <1>1, <1>2, PTL DEF Spec

-----------------------------------------------------------------------------
(* The invariant of documents                                              *)

\* What a request has met as over is over.
OverInv == \A r \in Requests : \A x \in after[r] : pc[x] \in Over

\* A row that is absent holds nothing; that of a request was written when it
\* was done.
RowInv ==
  \A d \in Docs :
    /\ row[d].status = "absent" => row[d] = Absent
    /\ row[d].status # "absent" /\ d \in Requests => pc[d] = "done"

\* What an upload has stored is there until it is over.
ObjectInv ==
  \A r \in Requests :
    /\ pc[r] \in {"stored", "read", "bare"} => <<r, "original">> \in objects
    /\ pc[r] = "read" => <<r, "text">> \in objects

\* The documents that a request looked up had been committed before, and stay
\* deleted or unextracted once it is done with them.
TargetInv ==
  \A r \in Requests :
    /\ pc[r] \in Uploading \cup {"idle", "elsewhere"} => target[r] = {}
    /\ \A d \in target[r] :
         /\ pc[r] \in Deleting \cup {"reprocessing", "done", "queued"}
              => d \notin Requests \/ pc[d] = "done"
         /\ pc[r] = "done" => row[d].status = "absent"
         /\ pc[r] = "queued" => row[d].status # "extracted"

\* A deletion removed files of its documents only, which nobody puts back.
RemovedInv ==
  \A r \in Requests :
    /\ removed[r] # {} => pc[r] \in {"cleaned", "done", "aborted"}
    /\ \A k \in removed[r] :
         \E d \in target[r] : k \in Keys(d) /\ (d \in Requests => pc[d] = "done")
    /\ pc[r] = "cleaned" => removed[r] \cap objects = {}

\* A document with the content of an upload in progress came from another
\* that overlaps with it.
ChecksumInv ==
  \A r \in Requests : pc[r] \in Uploading =>
    /\ file[r] \in Files
    /\ \A d \in Rows : row[d].checksum = file[r] => d \in Requests /\ Overlapped(d, r)

DocInv == OverInv /\ RowInv /\ ObjectInv /\ TargetInv /\ RemovedInv /\ ChecksumInv

\* The invariant of the documents holds before anybody has sent a request.
LEMMA DocInvInit == DocInit => DocInv
<1> SUFFICES ASSUME DocInit PROVE DocInv
  OBVIOUS
<1> USE FilesAssumption, DocsAssumption DEF DocInit, Docs
<1>1. OverInv
  BY DEF OverInv
<1>2. RowInv
  BY DEF RowInv, Absent
<1>3. ObjectInv
  BY DEF ObjectInv
<1>4. TargetInv
  BY DEF TargetInv
<1>5. RemovedInv
  BY DEF RemovedInv
<1>6. ChecksumInv
  BY DEF ChecksumInv, Uploading
<1>. QED
  BY <1>1, <1>2, <1>3, <1>4, <1>5, <1>6 DEF DocInv

\* Where a request is, and what becomes of what it has read.
LEMMA Advance ==
  ASSUME DocTypeOK, NEW r \in Requests, DocMove(r)
  PROVE  /\ pc[r] \notin Over
         /\ \E to \in Places \ {"idle"} : pc' = [pc EXCEPT ![r] = to]
         /\ \/ pc[r] # "idle" /\ UNCHANGED <<target, after, file>>
            \/ /\ pc[r] = "idle"
               /\ after' = [after EXCEPT ![r] = {x \in Requests : pc[x] \in Over}]
               /\ \E docs \in SUBSET Docs : target' = [target EXCEPT ![r] = docs]
<1> USE DEF Go, Over, Places, InProgress, Uploading, Deleting
<1>1. CASE Taken(r)
  BY <1>1 DEF Taken, Read
<1>2. CASE Left(r)
  BY <1>2 DEF Left, Finished
<1>3. CASE \E f \in Files : Upload(r, f)
  BY <1>3 DEF Upload, Read
<1>4. CASE AddUrl(r)
  BY <1>4 DEF AddUrl, Read
<1>5. CASE \E d \in Docs : Delete(r, d) \/ Reprocess(r, d)
  BY <1>5 DEF Delete, Reprocess, Read
<1>6. CASE PutOriginal(r) \/ ExtractNothing(r) \/ PutText(r)
  BY <1>6 DEF PutOriginal, ExtractNothing, PutText
<1>7. CASE CommitUpload(r) \/ Purge(r) \/ CommitDelete(r)
  BY <1>7 DEF CommitUpload, Purge, CommitDelete
<1>8. CASE CommitReprocess(r) \/ Abort(r)
  BY <1>8 DEF CommitReprocess, Abort
<1>. QED
  BY <1>1, <1>2, <1>3, <1>4, <1>5, <1>6, <1>7, <1>8 DEF DocMove, DocStep

\* What a request saw as over stays over, since no request comes back.
LEMMA OverStep ==
  ASSUME DocTypeOK, OverInv, NEW r \in Requests, DocMove(r)
  PROVE  OverInv'
<1>1. \A x \in Requests : pc[x] \in Over => pc'[x] \in Over
  BY Advance DEF DocTypeOK
<1>. QED
  BY <1>1, Advance DEF DocTypeOK, OverInv

\* Rows change in four actions.
LEMMA RowStep ==
  ASSUME DocTypeOK, RowInv, TargetInv, NEW r \in Requests, DocMove(r)
  PROVE  RowInv'
<1> USE DEF DocTypeOK, RowInv, Docs, Go
<1>0. \A x \in Requests : pc[x] = "done" => pc'[x] = "done"
  BY Advance DEF Over
<1>1. CASE UNCHANGED row
  BY <1>0, <1>1
<1>2. CASE CommitUpload(r)
  BY <1>0, <1>2 DEF CommitUpload
<1>3. CASE AddUrl(r)
  BY <1>0, <1>3 DEF AddUrl, Read, Absent
<1>4. CASE CommitDelete(r)
  BY <1>0, <1>4 DEF CommitDelete, Absent
<1>5. CASE CommitReprocess(r)
  BY <1>0, <1>5 DEF CommitReprocess, Rows
<1>. QED
  BY <1>1, <1>2, <1>3, <1>4, <1>5
  DEF DocMove, DocStep, Taken, Left, Finished, Upload, PutOriginal,
      ExtractNothing, PutText, Delete, Reprocess, Purge, Abort

\* No deletion knows the objects of an upload that is not over.
LEMMA ObjectStep ==
  ASSUME DocTypeOK, DocInv, NEW r \in Requests, DocMove(r)
  PROVE  ObjectInv'
<1> USE DEF DocTypeOK, ObjectInv, Go, DocInv
<1>1. CASE UNCHANGED objects /\ \/ Taken(r) \/ Left(r)
                                \/ \E f \in Files : Upload(r, f)
                                \/ \E d \in Docs : Delete(r, d) \/ Reprocess(r, d)
                                \/ AddUrl(r) \/ ExtractNothing(r)
                                \/ CommitDelete(r) \/ CommitReprocess(r) \/ Abort(r)
  <2>1. \E to \in Places \ {"stored", "read", "idle"} :
          /\ pc' = [pc EXCEPT ![r] = to]
          /\ to = "bare" => pc[r] = "stored"
    <3> USE DEF Places, Over, InProgress, Uploading, Deleting
    <3>1. CASE Taken(r) \/ Left(r)
      BY <3>1 DEF Taken, Left, Read, Finished
    <3>2. CASE \E f \in Files : Upload(r, f)
      <4>1. \E to \in {"inserted", "refused"} : pc' = [pc EXCEPT ![r] = to]
        BY <3>2 DEF Upload, Read
      <4>. QED
        BY <4>1
    <3>3. CASE \E d \in Docs : Delete(r, d) \/ Reprocess(r, d)
      BY <3>3 DEF Delete, Reprocess, Read
    <3>4. CASE AddUrl(r) \/ ExtractNothing(r)
      BY <3>4 DEF AddUrl, ExtractNothing, Read
    <3>5. CASE CommitDelete(r) \/ CommitReprocess(r) \/ Abort(r)
      BY <3>5 DEF CommitDelete, CommitReprocess, Abort
    <3>. QED
      BY <1>1, <3>1, <3>2, <3>3, <3>4, <3>5
  <2>. QED
    BY <1>1, <2>1
<1>2. CASE CommitUpload(r)
  BY <1>2 DEF CommitUpload
<1>3. CASE PutOriginal(r)
  BY <1>3 DEF PutOriginal
<1>4. CASE PutText(r)
  BY <1>4 DEF PutText
<1>5. CASE Purge(r)
  <2>1. ASSUME NEW x \in Requests, pc[x] \in {"stored", "read", "bare"},
               NEW k \in Keys(x) \cap objects
        PROVE  k \in objects'
    <3>1. Named(x) = {}
      BY <2>1 DEF RowInv, Named, Absent, Keys, Docs
    <3>2. \A d \in Docs : k \in Keys(d) => d = x
      BY <2>1 DEF Keys
    <3>. QED
      BY <1>5, <2>1, <3>1, <3>2 DEF Purge, Named
  <2>. QED
    BY <1>5, <2>1 DEF Purge, Keys
<1>. QED
  BY <1>1, <1>2, <1>3, <1>4, <1>5
  DEF DocMove, DocStep, Taken, Left, Finished, Upload, AddUrl,
      ExtractNothing, Delete, Reprocess, CommitDelete, CommitReprocess, Abort

\* A document that is there is queued for reprocessing, or nothing changes.
LEMMA ReprocessedRows ==
  ASSUME row \in [Docs -> DocumentRow], NEW r \in Requests, CommitReprocess(r)
  PROVE  \A d \in Docs : \/ row'[d].status = row[d].status
                         \/ row[d].status # "absent" /\ row'[d].status = "pending"
<1>1. CASE UNCHANGED row
  BY <1>1
<1>2. CASE /\ target[r] \subseteq Rows
           /\ row' = [d \in Docs |-> IF d \in target[r]
                                     THEN [row[d] EXCEPT !.status = "pending"]
                                     ELSE row[d]]
  <2>1. \A d \in Docs : [row[d] EXCEPT !.status = "pending"].status = "pending"
    BY DocumentRowFields
  <2>. QED
    BY <1>2, <2>1 DEF Rows
<1>. QED
  BY <1>1, <1>2 DEF CommitReprocess

\* What a request looked up was committed, and the lookup outlives nothing.
LEMMA TargetStep ==
  ASSUME DocTypeOK, DocInv, NEW r \in Requests, DocMove(r)
  PROVE  TargetInv'
<1> USE DEF DocTypeOK, DocInv, Docs, Uploading, Deleting
<1>0. \A x \in Requests : pc[x] = "done" => pc'[x] = "done"
  BY Advance DEF Over
<1>1. CASE Taken(r)
  BY <1>1 DEF Taken, Read, Go, TargetInv
<1>2. CASE Left(r)
  BY <1>2 DEF Left, Finished, Go, TargetInv
<1>3. CASE \E f \in Files : Upload(r, f)
  BY <1>3 DEF Upload, Read, Go, TargetInv
<1>4. CASE PutOriginal(r) \/ ExtractNothing(r) \/ PutText(r)
  BY <1>4 DEF PutOriginal, ExtractNothing, PutText, Go, TargetInv
<1>5. CASE CommitUpload(r)
  BY <1>5 DEF CommitUpload, Go, TargetInv
<1>6. CASE AddUrl(r)
  BY <1>6 DEF AddUrl, Read, Go, TargetInv
<1>7. CASE \E d \in Docs : Delete(r, d) \/ Reprocess(r, d)
  <2>1. PICK d \in Docs : Delete(r, d) \/ Reprocess(r, d)
    BY <1>7
  <2>2. d \in Rows /\ d \in Requests => pc[d] = "done"
    BY DEF RowInv, Rows
  <2>3. \/ Read(r, "refused", {d})
        \/ d \in Rows /\ \E to \in {"found", "reprocessing"} : Read(r, to, {d})
    BY <2>1 DEF Delete, Reprocess
  <2>4. row' = row
    BY <2>1 DEF Delete, Reprocess
  <2>5. CASE Read(r, "refused", {d})
    BY <2>4, <2>5 DEF Read, Go, TargetInv
  <2>6. CASE d \in Rows /\ \E to \in {"found", "reprocessing"} : Read(r, to, {d})
    BY <1>0, <2>2, <2>4, <2>6 DEF Read, Go, TargetInv
  <2>. QED
    BY <2>3, <2>5, <2>6
<1>8. CASE Purge(r)
  BY <1>8 DEF Purge, Go, TargetInv
<1>9. CASE CommitDelete(r)
  BY <1>9 DEF CommitDelete, Go, TargetInv, Absent
<1>10. CASE CommitReprocess(r)
  <2>1. /\ target' = target /\ pc[r] = "reprocessing"
        /\ pc'[r] \in {"queued", "aborted"}
        /\ \A x \in Requests \ {r} : pc'[x] = pc[x]
    BY <1>10 DEF CommitReprocess, Go
  <2>2. \A d \in Docs : \/ row'[d].status = row[d].status
                        \/ row[d].status # "absent" /\ row'[d].status = "pending"
    <3>1. row \in [Docs -> DocumentRow]
      BY DEF DocumentRow
    <3>. QED
      BY <1>10, <3>1, ReprocessedRows
  <2>3. pc'[r] = "queued" => \A d \in target[r] : row'[d].status = "pending"
    BY <1>10 DEF CommitReprocess, Go
  <2>4. \A x \in Requests : target[x] \subseteq Docs
    OBVIOUS
  <2>5. ASSUME NEW x \in Requests, x # r
        PROVE  /\ pc'[x] \in Uploading \cup {"idle", "elsewhere"} => target'[x] = {}
               /\ \A d \in target'[x] :
                    /\ pc'[x] \in Deleting \cup {"reprocessing", "done", "queued"}
                         => d \notin Requests \/ pc'[d] = "done"
                    /\ pc'[x] = "done" => row'[d].status = "absent"
                    /\ pc'[x] = "queued" => row'[d].status # "extracted"
    BY <1>0, <2>1, <2>2, <2>4, <2>5 DEF TargetInv
  <2>6. \A d \in target'[r] : d \notin Requests \/ pc'[d] = "done"
    BY <1>0, <2>1 DEF TargetInv
  <2>. QED
    BY <2>1, <2>3, <2>5, <2>6 DEF TargetInv
<1>11. CASE Abort(r)
  BY <1>11 DEF Abort, TargetInv, InProgress
<1>. QED
  BY <1>1, <1>2, <1>3, <1>4, <1>5, <1>6, <1>7, <1>8, <1>9, <1>10, <1>11
  DEF DocMove, DocStep

\* Two documents share no object.
LEMMA KeysApart ==
  \A d, e : \A k \in Keys(d) : k \in Keys(e) => d = e
  BY DEF Keys

\* What was removed stays removed: its document is over, or was no upload.
LEMMA RemovedStep ==
  ASSUME DocTypeOK, DocInv, NEW r \in Requests, DocMove(r)
  PROVE  RemovedInv'
<1> USE DEF DocTypeOK, DocInv
<1>0. \A x \in Requests : pc[x] = "done" => pc'[x] = "done"
  BY Advance DEF Over
<1>1. CASE Purge(r)
  <2>1. PICK gone \in SUBSET UNION {Named(d) : d \in target[r]} :
          objects' = objects \ gone /\ removed' = [removed EXCEPT ![r] = gone]
    BY <1>1 DEF Purge
  <2>2. pc[r] = "found" /\ pc' = [pc EXCEPT ![r] = "cleaned"] /\ target' = target
    BY <1>1 DEF Purge, Go
  <2>3. \A k \in gone :
          \E d \in target[r] : k \in Keys(d) /\ (d \in Requests => pc[d] = "done")
    BY <2>1, <2>2 DEF Named, TargetInv, Deleting
  <2>. QED
    BY <1>0, <2>1, <2>2, <2>3 DEF RemovedInv
<1>2. CASE UNCHANGED removed /\ (PutOriginal(r) \/ PutText(r))
  <2>1. \E n \in {"original", "text"} : objects' = objects \cup {<<r, n>>}
    BY <1>2 DEF PutOriginal, PutText
  <2>2. \E to \in {"stored", "read"} : pc' = [pc EXCEPT ![r] = to]
    BY <1>2 DEF PutOriginal, PutText, Go
  <2>3. pc[r] \in {"inserted", "stored"} /\ target' = target
    BY <1>2 DEF PutOriginal, PutText, Go
  <2>4. \A x \in Requests : \A k \in removed[x] : k \notin {<<r, "original">>, <<r, "text">>}
    BY <2>3, KeysApart DEF RemovedInv, Keys
  <2>. QED
    BY <1>0, <1>2, <2>1, <2>2, <2>3, <2>4 DEF RemovedInv
<1>3. ASSUME UNCHANGED <<removed, objects>>,
             pc[r] \in {"cleaned", "done", "aborted"} => pc'[r] \in {"done", "aborted"},
             removed[r] # {} => UNCHANGED target,
             pc'[r] # "cleaned"
      PROVE  RemovedInv'
  <2>1. \A x \in Requests : removed[x] # {} => target'[x] = target[x]
    BY <1>3, Advance
  <2>2. \A x \in Requests \ {r} : pc'[x] = pc[x]
    BY Advance
  <2>. QED
    BY <1>0, <1>3, <2>1, <2>2 DEF RemovedInv
<1>4. CASE Taken(r)
  BY <1>3, <1>4 DEF Taken, Read, Go, RemovedInv
<1>5. CASE Left(r)
  BY <1>3, <1>5 DEF Left, Finished, Go, RemovedInv
<1>6. CASE \E f \in Files : Upload(r, f)
  BY <1>3, <1>6 DEF Upload, Read, Go, RemovedInv
<1>7. CASE ExtractNothing(r) \/ CommitUpload(r) \/ CommitDelete(r)
  BY <1>3, <1>7 DEF ExtractNothing, CommitUpload, CommitDelete, Go, RemovedInv
<1>8. CASE AddUrl(r)
  BY <1>3, <1>8 DEF AddUrl, Read, Go, RemovedInv
<1>9. CASE \E d \in Docs : Delete(r, d) \/ Reprocess(r, d)
  BY <1>3, <1>9 DEF Delete, Reprocess, Read, Go, RemovedInv
<1>10. CASE CommitReprocess(r)
  BY <1>3, <1>10 DEF CommitReprocess, Go, RemovedInv
<1>11. CASE Abort(r)
  BY <1>3, <1>11 DEF Abort, RemovedInv, InProgress, Uploading, Deleting
<1>12. CASE PutOriginal(r) \/ PutText(r)
  BY <1>2, <1>12 DEF PutOriginal, PutText
<1>. QED
  BY <1>1, <1>4, <1>5, <1>6, <1>7, <1>8, <1>9, <1>10, <1>11, <1>12
  DEF DocMove, DocStep

\* A document whose row names the content of an upload in progress was
\* committed while that upload ran.
LEMMA ChecksumStep ==
  ASSUME DocTypeOK, DocInv, NEW r \in Requests, DocMove(r)
  PROVE  ChecksumInv'
<1> USE DEF DocTypeOK, DocInv, Uploading
<1>1. ASSUME NEW x \in Requests \ {r}, pc'[x] \in Uploading
      PROVE  /\ pc[x] \in Uploading /\ file'[x] = file[x] /\ after'[x] = after[x]
             /\ x \notin after'[r] /\ x \notin after[r]
  <2>1. pc[x] \in Uploading /\ after'[x] = after[x] /\ x \notin after[r]
    BY <1>1, Advance DEF OverInv, Over
  <2>2. x \notin after'[r]
    BY <2>1, Advance DEF Over
  <2>3. file'[x] = file[x]
    BY <1>1 DEF DocMove, DocStep, Taken, Left, Finished, Upload, AddUrl,
       PutOriginal, PutText, CommitUpload, Purge, ExtractNothing, Delete,
       Reprocess, CommitDelete, CommitReprocess, Abort
  <2>. QED
    BY <2>1, <2>2, <2>3
<1>2. ASSUME NEW x \in Requests, pc'[x] \in Uploading,
             pc[x] \in Uploading, file'[x] = file[x], after'[x] = after[x],
             x \notin after'[r],
             NEW d \in Docs, row[d].checksum = row'[d].checksum,
             d \in Rows' => d \in Rows
      PROVE  d \in Rows' /\ row'[d].checksum = file'[x]
               => d \in Requests /\ Overlapped(d, x)'
  BY <1>2, Advance DEF ChecksumInv, Overlapped
<1>3. ASSUME NEW x \in Requests \ {r}, pc'[x] \in Uploading, NEW d \in Docs,
             d \in Rows', row'[d].checksum = file'[x]
      PROVE  d \in Requests /\ Overlapped(d, x)'
  <2>1. CASE UNCHANGED row
    BY <1>1, <1>2, <1>3, <2>1 DEF Rows
  <2>2. CASE CommitUpload(r)
    <3>1. CASE d = r
      <4>1. pc[r] \in Uploading /\ after' = after
        BY <2>2 DEF CommitUpload, Go
      <4>. QED
        BY <1>1, <1>3, <3>1, <4>1 DEF OverInv, Over, Overlapped
    <3>2. CASE d # r
      BY <1>1, <1>2, <1>3, <2>2, <3>2 DEF CommitUpload, Rows
    <3>. QED
      BY <3>1, <3>2
  <2>3. CASE AddUrl(r)
    <3>1. d # r
      BY <1>1, <1>3, <2>3, FilesAssumption DEF AddUrl, Absent, ChecksumInv
    <3>. QED
      BY <1>1, <1>2, <1>3, <2>3, <3>1 DEF AddUrl, Rows
  <2>4. CASE CommitDelete(r)
    BY <1>1, <1>2, <1>3, <2>4 DEF CommitDelete, Rows, Absent
  <2>5. CASE CommitReprocess(r)
    BY <1>1, <1>2, <1>3, <2>5 DEF CommitReprocess, Rows
  <2>. QED
    BY <2>1, <2>2, <2>3, <2>4, <2>5
    DEF DocMove, DocStep, Taken, Left, Finished, Upload, PutOriginal,
        ExtractNothing, PutText, Delete, Reprocess, Purge, Abort
<1>4. ASSUME pc'[r] \in Uploading
      PROVE  /\ file'[r] \in Files
             /\ \A d \in Rows' : row'[d].checksum = file'[r]
                                   => d \in Requests /\ Overlapped(d, r)'
  <2>1. CASE \E f \in Files : Upload(r, f)
    <3>1. PICK f \in Files : Upload(r, f)
      BY <2>1
    <3>2. Admitted(f) /\ file'[r] = f /\ row' = row
      BY <1>4, <3>1 DEF Upload, Read, Go
    <3>. QED
      BY <3>2 DEF Admitted, WithChecksum, Rows
  <2>2. CASE PutOriginal(r) \/ ExtractNothing(r) \/ PutText(r)
    <3>1. pc[r] \in Uploading /\ UNCHANGED <<row, file, after>>
      BY <2>2 DEF PutOriginal, ExtractNothing, PutText, Go
    <3>. QED
      BY <3>1 DEF ChecksumInv, Rows, Overlapped
  <2>3. ~Taken(r) /\ ~Left(r) /\ ~CommitUpload(r) /\ ~AddUrl(r)
    BY <1>4 DEF Taken, Left, Read, Finished, CommitUpload, AddUrl, Go
  <2>4. ASSUME NEW d \in Docs PROVE ~Delete(r, d) /\ ~Reprocess(r, d)
    BY <1>4 DEF Delete, Reprocess, Read, Go
  <2>5. ~Purge(r) /\ ~CommitDelete(r) /\ ~CommitReprocess(r) /\ ~Abort(r)
    BY <1>4 DEF Purge, CommitDelete, CommitReprocess, Abort, Go
  <2>. QED
    BY <2>1, <2>2, <2>3, <2>4, <2>5 DEF DocMove, DocStep
<1>5. ASSUME NEW x \in Requests \ {r}, pc'[x] \in Uploading
      PROVE  file'[x] \in Files
  BY <1>1, <1>5 DEF ChecksumInv
<1>. QED
  BY <1>3, <1>4, <1>5 DEF ChecksumInv, Rows

\* The invariant of the documents is inductive: its parts need each other's and
\* the types, and nothing of the other four components.
LEMMA DocInvStep ==
  ASSUME TypeOK, DocInv, [Next]_vars
  PROVE  DocInv'
<1> USE DEF TypeOK
<1>1. CASE UNCHANGED docVars
  BY <1>1 DEF docVars, DocInv, OverInv, RowInv, ObjectInv, TargetInv,
     RemovedInv, ChecksumInv, Rows, Overlapped
<1>2. ASSUME NEW r \in Requests, DocMove(r) PROVE DocInv'
  <2>1. OverInv'
    BY <1>2, OverStep DEF DocInv
  <2>2. RowInv'
    BY <1>2, RowStep DEF DocInv
  <2>3. ObjectInv'
    BY <1>2, ObjectStep
  <2>4. TargetInv'
    BY <1>2, TargetStep
  <2>5. RemovedInv'
    BY <1>2, RemovedStep
  <2>6. ChecksumInv'
    BY <1>2, ChecksumStep
  <2>. QED
    BY <2>1, <2>2, <2>3, <2>4, <2>5, <2>6 DEF DocInv
<1>. QED
  BY <1>1, <1>2, Moves

-----------------------------------------------------------------------------
(* Rows and objects                                                        *)

\* Only a deletion, before its commit, takes the file of a committed row.
LEMMA FilesStep ==
  ASSUME DocTypeOK, DocInv, FilesBehindRows, NEW r \in Requests, DocMove(r)
  PROVE  FilesBehindRows'
<1> USE DEF DocTypeOK, DocInv
<1> SUFFICES ASSUME NEW d \in Rows', NEW k \in Named(d)', k \notin objects'
             PROVE  \E x \in Requests :
                      k \in removed'[x] /\ pc'[x] \in {"cleaned", "aborted"}
  BY DEF FilesBehindRows
<1>0. d \in Docs /\ k \in Keys(d) /\ row'[d].status # "absent" /\ row'[d][k[2]]
  BY DEF Rows, Named
\* An explanation stays, but for the one whose deletion is committed.
<1>1. ASSUME NEW x \in Requests, k \in removed[x], pc[x] \in {"cleaned", "aborted"}
      PROVE  k \in removed'[x] /\ pc'[x] \in {"cleaned", "aborted"}
  <2>1. CASE x # r
    <3>1. removed'[x] = removed[x]
      BY <2>1 DEF DocMove, DocStep, Taken, Left, Finished, Upload, AddUrl,
         PutOriginal, PutText, CommitUpload, Purge, ExtractNothing, Delete,
         Reprocess, CommitDelete, CommitReprocess, Abort
    <3>. QED
      BY <1>1, <2>1, <3>1, Advance
  <2>2. CASE x = r
    <3>1. pc[r] = "cleaned"
      BY <1>1, <2>2, Advance DEF Over
    <3>2. CASE CommitDelete(r)
      <4>1. d \in target[r]
        BY <1>0, <1>1, <2>2, KeysApart DEF RemovedInv
      <4>. QED
        BY <1>0, <3>2, <4>1 DEF CommitDelete, Absent
    <3>3. CASE Abort(r)
      BY <1>1, <2>2, <3>3 DEF Abort
    <3>4. ~Taken(r) /\ ~Left(r) /\ ~CommitUpload(r) /\ ~AddUrl(r)
      BY <3>1 DEF Taken, Left, Read, Finished, CommitUpload, AddUrl, Go
    <3>5. \A e \in Docs : ~Delete(r, e) /\ ~Reprocess(r, e)
      BY <3>1 DEF Delete, Reprocess, Read, Go
    <3>6. \A f \in Files : ~Upload(r, f)
      BY <3>1 DEF Upload, Read, Go
    <3>7. ~Purge(r) /\ ~CommitReprocess(r) /\ ~PutOriginal(r) /\ ~PutText(r)
          /\ ~ExtractNothing(r)
      BY <3>1 DEF Purge, CommitReprocess, PutOriginal, PutText,
         ExtractNothing, Go
    <3>. QED
      BY <3>2, <3>3, <3>4, <3>5, <3>6, <3>7 DEF DocMove, DocStep
  <2>. QED
    BY <2>1, <2>2
<1>2. CASE Purge(r)
  <2>1. d \in Rows /\ k \in Named(d) /\ pc'[r] = "cleaned"
    BY <1>0, <1>2 DEF Purge, Go, Rows, Named
  <2>2. PICK gone : objects' = objects \ gone /\ removed' = [removed EXCEPT ![r] = gone]
    BY <1>2 DEF Purge
  <2>3. CASE k \in gone
    BY <2>1, <2>2, <2>3
  <2>4. CASE k \notin gone
    BY <1>1, <2>1, <2>2, <2>4 DEF FilesBehindRows
  <2>. QED
    BY <2>3, <2>4
<1>3. CASE CommitUpload(r)
  <2>1. CASE d = r
    <3>1. objects' = objects /\ row'[r].text = (pc[r] = "read")
      BY <1>3 DEF CommitUpload, Docs
    <3>2. <<r, "original">> \in objects
      BY <1>3 DEF CommitUpload, Go, ObjectInv
    <3>3. k = <<r, "text">> /\ k \notin objects
      BY <1>0, <2>1, <3>1, <3>2 DEF Keys
    <3>4. k[2] = "text"
      BY <3>3
    <3>5. row'[r].text
      BY <1>0, <2>1, <3>4
    <3>. QED
      BY <3>1, <3>3, <3>5 DEF ObjectInv
  <2>2. CASE d # r
    BY <1>0, <1>1, <1>3, <2>2 DEF CommitUpload, FilesBehindRows, Rows, Named
  <2>. QED
    BY <2>1, <2>2
<1>4. ASSUME objects \subseteq objects', d \in Rows, k \in Named(d)
      PROVE  \E x \in Requests :
               k \in removed'[x] /\ pc'[x] \in {"cleaned", "aborted"}
  BY <1>1, <1>4 DEF FilesBehindRows
<1>5. CASE AddUrl(r)
  <2>1. d # r
    BY <1>0, <1>5 DEF AddUrl, Absent, Keys
  <2>. QED
    BY <1>0, <1>4, <1>5, <2>1 DEF AddUrl, Rows, Named
<1>6. CASE CommitDelete(r)
  <2>1. d \notin target[r]
    BY <1>0, <1>6 DEF CommitDelete, Absent
  <2>. QED
    BY <1>0, <1>4, <1>6, <2>1 DEF CommitDelete, Rows, Named
<1>7. CASE CommitReprocess(r)
  <2>1. d \in Rows
    BY <1>0, <1>7 DEF CommitReprocess, Rows
  <2>2. row'[d][k[2]] = row[d][k[2]]
    <3>1. row'[d].original = row[d].original /\ row'[d].text = row[d].text
      BY <1>0, <1>7 DEF CommitReprocess
    <3>2. k[2] = "original" \/ k[2] = "text"
      BY <1>0 DEF Keys
    <3>. QED
      BY <3>1, <3>2
  <2>. QED
    BY <1>0, <1>4, <1>7, <2>1, <2>2 DEF CommitReprocess, Named
<1>8. CASE UNCHANGED row /\ objects \subseteq objects'
  BY <1>0, <1>4, <1>8 DEF Rows, Named
<1>. QED
  BY <1>2, <1>3, <1>5, <1>6, <1>7, <1>8
  DEF DocMove, DocStep, Taken, Left, Finished, Upload, PutOriginal,
      ExtractNothing, PutText, Delete, Reprocess, Abort

\* A file without a row is left by an upload that failed, or by the store itself.
LEMMA OrphanStep ==
  ASSUME DocTypeOK, DocInv, OrphanFilesExplained, NEW r \in Requests, DocMove(r)
  PROVE  OrphanFilesExplained'
<1> USE DEF DocTypeOK, DocInv
<1> SUFFICES ASSUME NEW d \in Docs, d \notin Rows', NEW k \in Keys(d), k \in objects'
             PROVE  \/ d \in Requests /\ pc'[d] \in Uploading \cup {"aborted"}
                    \/ \E x \in Requests :
                         pc'[x] = "done" /\ d \in target'[x] /\ k \notin removed'[x]
  BY DEF OrphanFilesExplained
<1>1. ASSUME NEW x \in Requests, pc[x] = "done", d \in target[x], k \notin removed[x]
      PROVE  pc'[x] = "done" /\ d \in target'[x] /\ k \notin removed'[x]
  <2>1. x # r
    BY <1>1, Advance DEF Over
  <2>2. removed'[x] = removed[x]
    BY <2>1 DEF DocMove, DocStep, Taken, Left, Finished, Upload, AddUrl,
       PutOriginal, PutText, CommitUpload, Purge, ExtractNothing, Delete,
       Reprocess, CommitDelete, CommitReprocess, Abort
  <2>. QED
    BY <1>1, <2>1, <2>2, Advance
<1>2. CASE CommitUpload(r)
  BY <1>1, <1>2 DEF CommitUpload, Go, OrphanFilesExplained, Rows
<1>3. CASE PutOriginal(r) \/ PutText(r)
  <2>1. \E n \in {"original", "text"} : objects' = objects \cup {<<r, n>>}
    BY <1>3 DEF PutOriginal, PutText
  <2>2. \E to \in {"stored", "read"} : pc' = [pc EXCEPT ![r] = to]
    BY <1>3 DEF PutOriginal, PutText, Go
  <2>3. CASE d = r
    BY <2>2, <2>3 DEF Uploading
  <2>4. CASE d # r
    <3>1. k \in objects /\ d \notin Rows
      BY <1>3, <2>1, <2>4 DEF Keys, Rows, PutOriginal, PutText
    <3>. QED
      BY <1>1, <2>2, <2>4, <3>1 DEF OrphanFilesExplained
  <2>. QED
    BY <2>3, <2>4
<1>4. CASE CommitDelete(r)
  <2>1. k \in objects /\ removed' = removed /\ target' = target
        /\ pc[r] = "cleaned" /\ pc' = [pc EXCEPT ![r] = "done"]
    BY <1>4 DEF CommitDelete, Go
  <2>2. CASE d \in target[r]
    BY <2>1, <2>2 DEF RemovedInv
  <2>3. CASE d \notin target[r]
    <3>1. d \notin Rows
      BY <1>4, <2>3 DEF CommitDelete, Rows
    <3>. QED
      BY <1>1, <2>1, <3>1 DEF OrphanFilesExplained, Uploading
  <2>. QED
    BY <2>2, <2>3
\* What was unexplained before cannot be, and an upload leaves its places by
\* the cases above or aborted.
<1>5. ASSUME d \notin Rows, k \in objects,
             pc[r] \in Uploading => pc'[r] \in Uploading \cup {"aborted"}
      PROVE  \/ d \in Requests /\ pc'[d] \in Uploading \cup {"aborted"}
             \/ \E x \in Requests :
                  pc'[x] = "done" /\ d \in target'[x] /\ k \notin removed'[x]
  <2>1. CASE d \in Requests /\ pc[d] \in Uploading \cup {"aborted"}
    BY <1>5, <2>1, Advance DEF Over
  <2>. QED
    BY <1>1, <1>5, <2>1 DEF OrphanFilesExplained
<1>6. CASE Taken(r) \/ Left(r)
  BY <1>5, <1>6 DEF Taken, Left, Finished, Read, Go, Uploading, Rows
<1>7. CASE \E f \in Files : Upload(r, f)
  BY <1>5, <1>7 DEF Upload, Read, Go, Uploading, Rows
<1>8. CASE AddUrl(r)
  <2>1. d \notin Rows
    BY <1>8 DEF AddUrl, Rows, Absent
  <2>. QED
    BY <1>5, <1>8, <2>1 DEF AddUrl, Read, Go, Uploading
<1>9. CASE \E e \in Docs : Delete(r, e) \/ Reprocess(r, e)
  BY <1>5, <1>9 DEF Delete, Reprocess, Read, Go, Uploading, Rows
<1>10. CASE ExtractNothing(r)
  BY <1>5, <1>10 DEF ExtractNothing, Go, Uploading, Rows
<1>11. CASE Purge(r)
  BY <1>5, <1>11 DEF Purge, Go, Uploading, Rows
<1>12. CASE CommitReprocess(r)
  <2>1. d \notin Rows
    BY <1>12 DEF CommitReprocess, Rows
  <2>. QED
    BY <1>5, <1>12, <2>1 DEF CommitReprocess, Go, Uploading
<1>13. CASE Abort(r)
  BY <1>5, <1>13 DEF Abort, Rows
<1>. QED
  BY <1>2, <1>3, <1>4, <1>6, <1>7, <1>8, <1>9, <1>10, <1>11, <1>12, <1>13
  DEF DocMove, DocStep

\* A second document with some content is admitted only by an overlapping upload.
LEMMA SameContentStep ==
  ASSUME DocTypeOK, DocInv, SameContentOnlyFromOverlap, NEW r \in Requests, DocMove(r)
  PROVE  SameContentOnlyFromOverlap'
<1> USE DEF DocTypeOK, DocInv
\* Of two requests that are over neither one's history changes.
<1>1. ASSUME NEW d \in Rows, NEW e \in Rows, d # e,
             row[d].checksum = row[e].checksum, row[d].checksum # NoFile
      PROVE  d \in Requests /\ e \in Requests /\ Overlapped(d, e)'
  <2>1. d \in Requests /\ e \in Requests /\ Overlapped(d, e)
    BY <1>1 DEF SameContentOnlyFromOverlap
  <2>2. d # r /\ e # r
    BY <2>1, Advance DEF RowInv, Rows, Over, Docs
  <2>. QED
    BY <2>1, <2>2, Advance DEF Overlapped
<1> SUFFICES ASSUME NEW d \in Rows', NEW e \in Rows', d # e,
                    row'[d].checksum = row'[e].checksum, row'[d].checksum # NoFile
             PROVE  d \in Requests /\ e \in Requests /\ Overlapped(d, e)'
  BY DEF SameContentOnlyFromOverlap
<1>2. CASE UNCHANGED row
  BY <1>1, <1>2 DEF Rows
<1>3. CASE CommitUpload(r)
  <2>1. pc[r] \in Uploading /\ after' = after
    BY <1>3 DEF CommitUpload, Go, Uploading
  <2>2. ASSUME NEW x \in Rows, x # r, row[x].checksum = file[r]
        PROVE  x \in Requests /\ Overlapped(x, r)' /\ Overlapped(r, x)'
    BY <2>1, <2>2 DEF ChecksumInv, Overlapped
  <2>3. \A x \in Rows' \ {r} : x \in Rows /\ row'[x] = row[x]
    BY <1>3 DEF CommitUpload, Rows
  <2>4. r \in Docs => row'[r].checksum = file[r]
    BY <1>3 DEF CommitUpload
  <2>. QED
    BY <1>1, <2>2, <2>3, <2>4 DEF Docs
<1>4. CASE AddUrl(r)
  <2>1. d # r /\ e # r
    BY <1>4 DEF AddUrl, Absent, Docs
  <2>. QED
    BY <1>1, <1>4, <2>1 DEF AddUrl, Rows
<1>5. CASE CommitDelete(r)
  BY <1>1, <1>5 DEF CommitDelete, Rows, Absent
<1>6. CASE CommitReprocess(r)
  <2>1. \A x \in Rows' : x \in Rows /\ row'[x].checksum = row[x].checksum
    BY <1>6 DEF CommitReprocess, Rows
  <2>. QED
    BY <1>1, <2>1
<1>. QED
  BY <1>2, <1>3, <1>4, <1>5, <1>6
  DEF DocMove, DocStep, Taken, Left, Finished, Upload, PutOriginal,
      ExtractNothing, PutText, Delete, Reprocess, Purge, Abort

\* Everything that is kept together, whatever the other handlers do.
Documents == TypeOK /\ DeletesTable /\ DocInv

\* All of it holds in an untouched workspace.
LEMMA DocumentsInit == Init => Documents
  BY InitTypes, DocInvInit DEF Init, Documents, AnalysisInit, DeletesTable

\* All of it is kept by every step of the workspace.
LEMMA DocumentsStep == Documents /\ [Next]_vars => Documents'
  BY StepTypes, DocInvStep DEF Documents

\* A file that a committed row names is in the store unless a deletion took
\* it out and did not commit (document_service.py:258-266).
THEOREM FilesStayBehindRows == Spec => []FilesBehindRows
<1>1. Init => FilesBehindRows
  BY DEF Init, DocInit, FilesBehindRows, Rows, Named, Keys, Absent
<1>2. Documents /\ FilesBehindRows /\ [Next]_vars => FilesBehindRows'
  <2>1. UNCHANGED docVars /\ FilesBehindRows => FilesBehindRows'
    BY DEF docVars, FilesBehindRows, Rows, Named
  <2>. QED
    BY <2>1, Moves, FilesStep DEF Documents, TypeOK
<1>. QED
  BY <1>1, <1>2, DocumentsInit, DocumentsStep, PTL DEF Spec

\* A file without a row is an unfinished or failed upload's, or one that the
\* store kept for a deletion that ended (document_service.py:121-169, 258-262).
THEOREM OrphansExplained == Spec => []OrphanFilesExplained
<1>1. Init => OrphanFilesExplained
  BY DEF Init, DocInit, OrphanFilesExplained, Rows, Keys, Docs
<1>2. Documents /\ OrphanFilesExplained /\ [Next]_vars => OrphanFilesExplained'
  <2>1. UNCHANGED docVars /\ OrphanFilesExplained => OrphanFilesExplained'
    BY DEF docVars, OrphanFilesExplained, Rows
  <2>. QED
    BY <2>1, Moves, OrphanStep DEF Documents, TypeOK
<1>. QED
  BY <1>1, <1>2, DocumentsInit, DocumentsStep, PTL DEF Spec

\* Two documents have one content only if their uploads overlapped: the query
\* for the checksum catches every other (document_service.py:113-119).
THEOREM DuplicatesOverlapped == Spec => []SameContentOnlyFromOverlap
<1>1. Init => SameContentOnlyFromOverlap
  BY FilesAssumption
  DEF Init, DocInit, SameContentOnlyFromOverlap, Rows, Absent, Docs
<1>2. Documents /\ SameContentOnlyFromOverlap /\ [Next]_vars
        => SameContentOnlyFromOverlap'
  <2>1. UNCHANGED docVars /\ SameContentOnlyFromOverlap => SameContentOnlyFromOverlap'
    BY DEF docVars, SameContentOnlyFromOverlap, Rows, Overlapped
  <2>. QED
    BY <2>1, Moves, SameContentStep DEF Documents, TypeOK
<1>. QED
  BY <1>1, <1>2, DocumentsInit, DocumentsStep, PTL DEF Spec

=============================================================================
