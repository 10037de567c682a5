---------------------- MODULE WorkspaceResults_proofs ----------------------
(***************************************************************************)
(* Proofs about what the requests of Workspace leave behind: the rows of   *)
(* analyses, the files of reports, the graph and the texts of the corpus.  *)
(* They rest on the documents' invariant and on one about the handlers: a  *)
(* request is served by one of them, from its beginning to its end.        *)
(***************************************************************************)
EXTENDS Workspace_proofs

-----------------------------------------------------------------------------
(* One handler for a request                                               *)

Reporting == {"reading", "written", "failing", "deleting"}

NoneBut(r, j, g, a, m) ==
  /\ j \/ job[r].at = "none"
  /\ g \/ gen[r].at = "none"
  /\ a \/ ana[r].at = "none"
  /\ m \/ making[r].at = "none"

\* Before a request is read it is in no handler; while one works for it, it is
\* over for nobody and in no other handler.
HandlerInv ==
  \A r \in Requests :
    /\ pc[r] = "idle" => NoneBut(r, FALSE, FALSE, FALSE, FALSE)
    /\ job[r].at \in Rebuilding
         => pc[r] = "elsewhere" /\ NoneBut(r, TRUE, FALSE, FALSE, FALSE)
    /\ gen[r].at \in Generating
         => pc[r] = "elsewhere" /\ NoneBut(r, FALSE, TRUE, FALSE, FALSE)
    /\ ana[r].at \in Analysing
         => pc[r] = "elsewhere" /\ NoneBut(r, FALSE, FALSE, TRUE, FALSE)
    /\ making[r].at \in Reporting
         => pc[r] = "elsewhere" /\ NoneBut(r, FALSE, FALSE, FALSE, TRUE)

\* No handler has begun.
LEMMA HandlerInit == Init => HandlerInv
  BY DEF Init, DocInit, CorpusInit, GraphInit, AnalysisInit, ReportInit, NoJob,
     HandlerInv, NoneBut, Rebuilding, Generating, Analysing, Reporting

\* A handler begins with a request that is idle, ends when it is over, and
\* until then works for it alone: `was` and `is` are its place in the handler.
Course(r, was, is, active) ==
  \/ pc[r] = "idle" /\ pc' = [pc EXCEPT ![r] = "elsewhere"] /\ is # "none"
  \/ was \in active /\ is \in active /\ UNCHANGED pc
  \/ was \in active /\ is \notin active /\ is # "none"
       /\ \E to \in Over : pc' = [pc EXCEPT ![r] = to]
  \/ pc[r] = "idle" /\ was = is /\ \E to \in Over : pc' = [pc EXCEPT ![r] = to]

\* A rebuild or a seed works for its own request.
LEMMA CorpusCourse ==
  ASSUME TypeOK, NEW r \in Requests, CorpusStep(r)
  PROVE  /\ Course(r, job[r].at, job'[r].at, Rebuilding)
         /\ \A x \in Requests \ {r} : job'[x] = job[x]
<1> USE DEF TypeOK, CorpusTypeOK, Course, Over, Rebuilding
<1>0. job \in [Requests -> Job]
  OBVIOUS
<1>1. CASE RebuildList(r)
  BY <1>1 DEF RebuildList, Served, Read, Go, NoJob
<1>2. CASE RebuildClear(r) \/ WriteText(r)
  <2>1. \E todo, added, cleared : GoOn(r, todo, added, cleared)
    BY <1>2 DEF RebuildClear, WriteText, Write
  <2>2. /\ job'[r].at \in {"summing", "downloading"}
        /\ \A x \in Requests \ {r} : job'[x] = job[x]
    <3>1. PICK todo, added, cleared : GoOn(r, todo, added, cleared)
      BY <2>1
    <3>2. CASE todo = {}
      <4>1. job' = [job EXCEPT ![r] = [@ EXCEPT !.at = "summing", !.doc = NoDoc,
                                         !.added = added]]
        BY <3>1, <3>2 DEF GoOn
      <4>. QED
        BY <1>0, <4>1 DEF Job
    <3>3. CASE todo # {}
      <4>1. PICK d \in todo :
              job' = [job EXCEPT ![r] =
                        [@ EXCEPT !.at = "downloading", !.todo = todo \ {d},
                           !.doc = d, !.added = added]]
        BY <3>1, <3>3 DEF GoOn
      <4>. QED
        BY <1>0, <4>1 DEF Job
    <3>. QED
      BY <3>2, <3>3
  <2>3. job[r].at \in {"listed", "writing"} /\ UNCHANGED pc
    BY <1>2 DEF RebuildClear, WriteText, Write, docVars
  <2>. QED
    BY <2>2, <2>3
<1>3. CASE Download(r)
  BY <1>3, <1>0 DEF Download, docVars, Job
<1>4. CASE Summarise(r) \/ CutShort(r)
  BY <1>4, <1>0 DEF Summarise, CutShort, Finished, Go, Job
<1>5. CASE Seed(r)
  BY <1>5 DEF Seed, Read, Go
<1>. QED
  BY <1>1, <1>2, <1>3, <1>4, <1>5 DEF CorpusStep

\* A generation works for its own request.
LEMMA GraphCourse ==
  ASSUME TypeOK, NEW r \in Requests, GraphStep(r)
  PROVE  /\ Course(r, gen[r].at, gen'[r].at, Generating)
         /\ \A x \in Requests \ {r} : gen'[x] = gen[x]
<1> USE DEF TypeOK, GraphTypeOK, Course, Over, Generating
<1>1. CASE ListDocuments(r)
  BY <1>1 DEF ListDocuments, Served, Read, Go, graphVars
<1>2. CASE Prepare(r)
  BY <1>2 DEF Prepare, At, Finished, Go, docVars
<1>3. CASE ToolRead(r) \/ ToolExit(r)
  BY <1>3 DEF ToolRead, ToolExit, At, docVars
<1>4. CASE ToolFailed(r) \/ Import(r)
  <2>1. gen[r].at \in Generating /\ \E status, nodes : Settle(r, status, nodes)
    BY <1>4 DEF ToolFailed, Import
  <2>. QED
    BY <2>1 DEF Settle, Finished, Go
<1>5. CASE GenerationAborted(r)
  BY <1>5 DEF GenerationAborted, Finished, Go
<1>. QED
  BY <1>1, <1>2, <1>3, <1>4, <1>5 DEF GraphStep

\* An analysis works for its own request.
LEMMA AnalysisCourse ==
  ASSUME TypeOK, NEW r \in Requests, AnalysisStep(r)
  PROVE  /\ Course(r, ana[r].at, ana'[r].at, Analysing)
         /\ \A x \in Requests \ {r} : ana'[x] = ana[x]
<1> USE DEF TypeOK, AnalysisTypeOK, Course, Over, Analysing, Step
<1>1. CASE DispatchAnalysis(r)
  BY <1>1 DEF DispatchAnalysis, Served, Read, Go
<1>2. CASE AnalysisLost(r) \/ Release(r)
  BY <1>2 DEF AnalysisLost, Release, Finished, Go
<1>3. CASE Ask(r) \/ CannotStore(r)
  BY <1>3 DEF Ask, CannotStore, Emptied, docVars
<1>4. CASE \E answer \in Answers : Answer(r, answer)
  BY <1>4 DEF Answer, docVars
<1>5. CASE DeleteBegins(r) \/ DeleteEnds(r) \/ AnalysisRaises(r)
  BY <1>5 DEF DeleteBegins, DeleteEnds, AnalysisRaises, docVars
<1>6. CASE Store(r)
  BY <1>6 DEF Store, Emptied, Finished, Go
<1>. QED
  BY <1>1, <1>2, <1>3, <1>4, <1>5, <1>6 DEF AnalysisStep

\* A report is made for its own request.
LEMMA ReportCourse ==
  ASSUME TypeOK, NEW r \in Requests, ReportStep(r)
  PROVE  /\ Course(r, making[r].at, making'[r].at, Reporting)
         /\ \A x \in Requests \ {r} : making'[x] = making[x]
<1> USE DEF TypeOK, ReportTypeOK, Course, Over, Reporting, Turn
<1>1. CASE CreateReport(r) \/ Regenerate(r) \/ DeleteReport(r)
  <2>1. \E d : \E at \in {"reading", "deleting"} : Begins(r, d, at)
    BY <1>1 DEF CreateReport, Regenerate, DeleteReport
  <2>. QED
    BY <2>1 DEF Begins, Served, Read, Go
<1>2. CASE WriteFiles(r) \/ GenerationFails(r)
  BY <1>2 DEF WriteFiles, GenerationFails, docVars
<1>3. CASE CommitReport(r) \/ CommitFailure(r) \/ CommitReportDeletion(r)
  BY <1>3 DEF CommitReport, CommitFailure, CommitReportDeletion, Finished, Go
<1>4. CASE ReportAborted(r)
  BY <1>4 DEF ReportAborted, Finished, Go
<1>. QED
  BY <1>1, <1>2, <1>3, <1>4 DEF ReportStep

\* A request stays in the handler in which it began.
LEMMA HandlerStep ==
  ASSUME Documents, HandlerInv, [Next]_vars
  PROVE  HandlerInv'
<1> USE DEF Documents, Over
<1>0. pc \in [Requests -> Places]
  BY DEF TypeOK, DocTypeOK
<1>a. "none" \notin Rebuilding \cup Generating \cup Analysing \cup Reporting
  BY DEF Rebuilding, Generating, Analysing, Reporting
<1>1. CASE UNCHANGED vars
  BY <1>1 DEF vars, docVars, corpusVars, graphVars, anaVars, reportVars,
     HandlerInv, NoneBut
<1>2. ASSUME NEW r \in Requests, DocStep(r),
             UNCHANGED <<corpusVars, graphVars, anaVars, reportVars>>
      PROVE  HandlerInv'
  <2>1. UNCHANGED <<job, gen, ana, making>>
    BY <1>2 DEF corpusVars, graphVars, anaVars, reportVars
  <2>2. pc[r] # "elsewhere" /\ \E to \in Places \ {"idle"} : pc' = [pc EXCEPT ![r] = to]
    <3>1. \E to \in Places \ {"idle"} : pc' = [pc EXCEPT ![r] = to]
      BY <1>2, Advance DEF DocMove, TypeOK
    <3>2. \A f \in Files : Upload(r, f) => pc[r] = "idle"
      BY DEF Upload, Read, Go
    <3>3. \A d \in Docs : Delete(r, d) \/ Reprocess(r, d) => pc[r] = "idle"
      BY DEF Delete, Reprocess, Read, Go
    <3>4. pc[r] # "elsewhere"
      BY <1>2, <3>2, <3>3
      DEF DocStep, AddUrl, PutOriginal, PutText, CommitUpload, Purge, ExtractNothing,
          CommitDelete, CommitReprocess, Abort, Read, Go, InProgress, Uploading, Deleting
    <3>. QED
      BY <3>1, <3>4
  <2>. QED
    BY <1>0, <2>1, <2>2 DEF HandlerInv, NoneBut
<1>3. ASSUME NEW r \in Requests, CorpusStep(r), UNCHANGED <<graphVars, anaVars, reportVars>>
      PROVE  HandlerInv'
  <2>1. UNCHANGED <<gen, ana, making>>
    BY <1>3 DEF graphVars, anaVars, reportVars
  <2>. QED
    BY <1>0, <1>a, <1>3, <2>1, CorpusCourse DEF HandlerInv, NoneBut, Course
<1>4. ASSUME NEW r \in Requests, GraphStep(r), UNCHANGED <<corpusVars, anaVars, reportVars>>
      PROVE  HandlerInv'
  <2>1. UNCHANGED <<job, ana, making>>
    BY <1>4 DEF corpusVars, anaVars, reportVars
  <2>. QED
    BY <1>0, <1>a, <1>4, <2>1, GraphCourse DEF HandlerInv, NoneBut, Course
<1>5. ASSUME NEW r \in Requests, AnalysisStep(r), UNCHANGED <<corpusVars, graphVars, reportVars>>
      PROVE  HandlerInv'
  <2>1. UNCHANGED <<job, gen, making>>
    BY <1>5 DEF corpusVars, graphVars, reportVars
  <2>. QED
    BY <1>0, <1>a, <1>5, <2>1, AnalysisCourse DEF HandlerInv, NoneBut, Course
<1>6. ASSUME NEW r \in Requests, ReportStep(r), UNCHANGED <<corpusVars, graphVars, anaVars>>
      PROVE  HandlerInv'
  <2>1. UNCHANGED <<job, gen, ana>>
    BY <1>6 DEF corpusVars, graphVars, anaVars
  <2>. QED
    BY <1>0, <1>a, <1>6, <2>1, ReportCourse DEF HandlerInv, NoneBut, Course
<1>. QED
  BY <1>1, <1>2, <1>3, <1>4, <1>5, <1>6 DEF Next

\* What every proof below is relative to.
Base == Documents /\ HandlerInv

\* It holds in an untouched workspace.
LEMMA BaseInit == Init => Base
  BY DocumentsInit, HandlerInit DEF Base

\* It is kept by every step.
LEMMA BaseStep == Base /\ [Next]_vars => Base'
  BY DocumentsStep, HandlerStep DEF Base

\* Others leave what a request has met as it is once it was read, and two that
\* are at work at the same time overlap.
LEMMA AfterKept ==
  ASSUME Base, [Next]_vars, NEW r \in Requests, pc[r] # "idle"
  PROVE  after'[r] = after[r] /\ pc'[r] # "idle"
<1>1. CASE UNCHANGED docVars
  BY <1>1 DEF docVars
<1>2. ASSUME NEW x \in Requests, DocMove(x) PROVE after'[r] = after[r] /\ pc'[r] # "idle"
  BY <1>2, Advance DEF Base, Documents, TypeOK, DocTypeOK
<1>. QED
  BY <1>1, <1>2, Moves

\* Two requests that are both at work overlap.
LEMMA WorkOverlaps ==
  ASSUME Base, NEW r \in Requests, NEW x \in Requests, r # x,
         pc[r] = "elsewhere", pc[x] = "elsewhere"
  PROVE  Overlapped(r, x)
  BY DEF Base, Documents, DocInv, OverInv, Over, Overlapped

-----------------------------------------------------------------------------
(* Analysis                                                                *)

\* What an analysis deleted is from tables that it has left behind, and what
\* it waits to delete from the one it is at.
LockInv ==
  \A r \in Requests :
    /\ \A p \in deleted[r] : \E i \in 1 .. Len(TableOrder) :
         i < ana[r].table /\ p[1] = TableOrder[i]
    /\ ana[r].at = "waiting" => \A p \in snapshot[r] : p[1] = Current(r)

\* A step of an analysis leaves the others alone; only its commit changes the
\* results and what is said of them, and only its DELETEs lock anything.
LEMMA AnalysisMoves ==
  ASSUME AnalysisTypeOK, NEW r \in Requests, AnalysisStep(r)
  PROVE  /\ \A x \in Requests \ {r} : /\ ana'[x] = ana[x]
                                      /\ deleted'[x] = deleted[x]
                                      /\ snapshot'[x] = snapshot[x]
         /\ ~Store(r) => results' = results /\ ana'[r].stored = ana[r].stored
         /\ \/ DeleteBegins(r) \/ DeleteEnds(r)
            \/ /\ ana'[r].at # "waiting" /\ ana'[r].table = ana[r].table
               /\ deleted'[r] \subseteq deleted[r]
<1>. DEFINE Others == \A x \in Requests \ {r} : /\ ana'[x] = ana[x]
                                               /\ deleted'[x] = deleted[x]
                                               /\ snapshot'[x] = snapshot[x]
            Keeps == results' = results /\ ana'[r].stored = ana[r].stored
            Quiet == /\ ana'[r].at # "waiting" /\ ana'[r].table = ana[r].table
                     /\ deleted'[r] \subseteq deleted[r]
<1>1. /\ ana \in [Requests -> Analysis] /\ ana[r] \in Analysis
      /\ snapshot \in [Requests -> SUBSET Owned]
      /\ deleted \in [Requests -> SUBSET Owned]
  BY DEF AnalysisTypeOK, Analysis
<1>2. ASSUME NEW at, ana' = [ana EXCEPT ![r].at = at]
      PROVE  /\ \A x \in Requests \ {r} : ana'[x] = ana[x]
             /\ ana'[r].at = at /\ ana'[r].table = ana[r].table
             /\ ana'[r].stored = ana[r].stored
  <2>. DEFINE a == [ana[r] EXCEPT !.at = at]
  <2>1. a.at = at /\ a.table = ana[r].table /\ a.stored = ana[r].stored
    BY <1>1 DEF Analysis
  <2>2. ana' = [ana EXCEPT ![r] = a]
    BY Zenon, <1>2
  <2>. HIDE DEF a
  <2>. QED
    BY <1>1, <2>1, <2>2
<1>3. CASE DispatchAnalysis(r) \/ AnalysisLost(r) \/ Ask(r) \/ CannotStore(r)
  <2>1. PICK at \in {"dispatched", "ended", "asking", "leaked"} :
          ana' = [ana EXCEPT ![r].at = at]
    BY <1>3 DEF DispatchAnalysis, AnalysisLost, Ask, CannotStore, Step
  <2>2. UNCHANGED <<results, snapshot, deleted>>
    BY <1>3 DEF DispatchAnalysis, AnalysisLost, Ask, CannotStore
  <2>. QED
    BY <1>2, <2>1, <2>2
<1>4. CASE \E answer \in Answers : Answer(r, answer)
  <2>1. PICK answer \in Answers : Answer(r, answer)
    BY <1>4
  <2>. DEFINE a == [ana[r] EXCEPT !.at = "deleting", !.answer = answer]
  <2>2. /\ a.at = "deleting" /\ a.table = ana[r].table
        /\ a.stored = ana[r].stored
    BY <1>1 DEF Analysis
  <2>3. ana' = [ana EXCEPT ![r] = a] /\ UNCHANGED <<results, snapshot, deleted>>
    BY Zenon, <2>1 DEF Answer
  <2>. HIDE DEF a
  <2>. QED
    BY <1>1, <2>2, <2>3
<1>5. CASE DeleteBegins(r)
  <2>1. /\ ana' = [ana EXCEPT ![r].at = "waiting"]
        /\ UNCHANGED <<results, deleted>>
        /\ snapshot' = [snapshot EXCEPT ![r] = {p \in results : p[1] = Current(r)}]
    BY <1>5 DEF DeleteBegins, Step
  <2>2. Others
    BY <1>1, <1>2, <2>1
  <2>3. Keeps
    BY <1>2, <2>1
  <2>. QED
    BY <1>5, <2>2, <2>3
<1>6. CASE DeleteEnds(r)
  <2>. DEFINE a == [ana[r] EXCEPT !.at = "deleting", !.table = ana[r].table + 1]
  <2>1. a.stored = ana[r].stored
    BY <1>1 DEF Analysis
  <2>2. ana' = [ana EXCEPT ![r] = a]
    BY Zenon, <1>6 DEF DeleteEnds
  <2>3. Others
    <3>. HIDE DEF a
    <3>. QED
      BY <1>1, <1>6, <2>2 DEF DeleteEnds
  <2>4. Keeps
    <3>. HIDE DEF a
    <3>. QED
      BY <1>1, <1>6, <2>1, <2>2 DEF DeleteEnds
  <2>. QED
    BY <1>6, <2>3, <2>4
<1>7. CASE Store(r)
  <2>. DEFINE a == [ana[r] EXCEPT !.at = "ended", !.stored = TRUE]
  <2>1. a.at = "ended" /\ a.table = ana[r].table
    BY <1>1 DEF Analysis
  <2>2. /\ ana' = [ana EXCEPT ![r] = a] /\ UNCHANGED snapshot
        /\ deleted' = [deleted EXCEPT ![r] = {}]
    BY Zenon, <1>7 DEF Store
  <2>. HIDE DEF a
  <2>3. Others /\ Quiet
    BY <1>1, <2>1, <2>2
  <2>. QED
    BY <1>7, <2>3
<1>8. CASE AnalysisRaises(r) \/ Release(r)
  <2>1. PICK at \in {"leaked", "ended"} : ana' = [ana EXCEPT ![r].at = at]
    BY <1>8 DEF AnalysisRaises, Release, Step
  <2>2. /\ results' = results
        /\ deleted' \in {deleted, [deleted EXCEPT ![r] = {}]}
        /\ snapshot' \in {snapshot, [snapshot EXCEPT ![r] = {}]}
    BY <1>8 DEF AnalysisRaises, Release
  <2>3. /\ \A x \in Requests \ {r} : deleted'[x] = deleted[x]
        /\ \A x \in Requests \ {r} : snapshot'[x] = snapshot[x]
        /\ deleted'[r] \subseteq deleted[r]
    BY <1>1, <2>2
  <2>. QED
    BY <1>2, <2>1, <2>2, <2>3
<1>. QED
  BY <1>3, <1>4, <1>5, <1>6, <1>7, <1>8 DEF AnalysisStep

\* An analysis that goes on to a later table leaves its removed rows behind, and
\* one that waits has seen rows of the table it is at only.
LEMMA LockStep ==
  ASSUME Base, LockInv, [Next]_vars
  PROVE  LockInv'
<1>1. CASE UNCHANGED anaVars
  BY <1>1 DEF LockInv, anaVars, Current
<1>2. ASSUME NEW r \in Requests, AnalysisStep(r) PROVE LockInv'
  <2>. DEFINE Locks(x) ==
         /\ \A p \in deleted[x] : \E i \in 1 .. Len(TableOrder) :
              i < ana[x].table /\ p[1] = TableOrder[i]
         /\ ana[x].at = "waiting" => \A p \in snapshot[x] : p[1] = Current(x)
  <2>0. /\ AnalysisTypeOK /\ ana[r] \in Analysis
        /\ ana \in [Requests -> Analysis]
        /\ snapshot \in [Requests -> SUBSET Owned]
        /\ deleted \in [Requests -> SUBSET Owned]
    BY DEF Base, Documents, TypeOK, AnalysisTypeOK, Analysis
  <2>1. ASSUME NEW x \in Requests \ {r} PROVE Locks(x)'
    <3>1. Locks(x)
      BY DEF LockInv
    <3>. QED
      BY <1>2, <2>0, <3>1, AnalysisMoves DEF Current
  <2>2. Locks(r)
    BY DEF LockInv
  <2>3. ASSUME DeleteBegins(r) PROVE Locks(r)'
    <3>1. /\ ana' = [ana EXCEPT ![r].at = "waiting"] /\ UNCHANGED deleted
          /\ snapshot' = [snapshot EXCEPT ![r] = {p \in results : p[1] = Current(r)}]
      BY <2>3 DEF DeleteBegins, Step
    <3>. DEFINE a == [ana[r] EXCEPT !.at = "waiting"]
    <3>2. a.table = ana[r].table
      BY <2>0 DEF Analysis
    <3>3. ana' = [ana EXCEPT ![r] = a]
      BY Zenon, <3>1
    <3>. HIDE DEF a
    <3>4. ana'[r].table = ana[r].table
      BY <2>0, <3>2, <3>3
    <3>5. /\ deleted'[r] = deleted[r]
          /\ snapshot'[r] = {p \in results : p[1] = TableOrder[ana[r].table]}
      BY <2>0, <3>1 DEF Current
    <3>6. \A p \in deleted'[r] : \E i \in 1 .. Len(TableOrder) :
            i < ana'[r].table /\ p[1] = TableOrder[i]
      BY ONLY Zenon, <2>2, <3>4, <3>5
    <3>7. \A p \in snapshot'[r] : p[1] = TableOrder[ana'[r].table]
      BY ONLY <3>4, <3>5
    <3>. QED
      BY ONLY <3>6, <3>7 DEF Current
  <2>4. ASSUME DeleteEnds(r) PROVE Locks(r)'
    <3>. DEFINE a == [ana[r] EXCEPT !.at = "deleting", !.table = ana[r].table + 1]
    <3>1. /\ deleted' = [deleted EXCEPT ![r] = @ \cup (snapshot[r] \cap results)]
          /\ ana' = [ana EXCEPT ![r] = a] /\ ana[r].at = "waiting"
      BY Zenon, <2>4 DEF DeleteEnds
    <3>2. /\ a.table = ana[r].table + 1 /\ a.at = "deleting"
      BY <2>0 DEF Analysis
    <3>. HIDE DEF a
    <3>3. /\ ana'[r].table = ana[r].table + 1 /\ ana'[r].at = "deleting"
          /\ deleted'[r] = deleted[r] \cup (snapshot[r] \cap results)
      BY <2>0, <3>1, <3>2
    <3>4. ana[r].table \in 1 .. Len(TableOrder) /\ ana[r].table < ana[r].table + 1
      BY <3>1, TablesAssumption DEF Base, Documents, TypeOK, DeletesTable,
         AnalysisTypeOK
    <3>5. ASSUME NEW p \in deleted[r]
          PROVE  \E i \in 1 .. Len(TableOrder) :
                   i < ana[r].table + 1 /\ p[1] = TableOrder[i]
      <4>1. PICK i \in 1 .. Len(TableOrder) : i < ana[r].table /\ p[1] = TableOrder[i]
        BY <2>2
      <4>. QED
        BY <3>4, <4>1
    <3>6. ASSUME NEW p \in snapshot[r]
          PROVE  \E i \in 1 .. Len(TableOrder) :
                   i < ana[r].table + 1 /\ p[1] = TableOrder[i]
      <4>1. p[1] = TableOrder[ana[r].table]
        BY <2>2, <3>1 DEF Current
      <4>. QED
        BY <3>4, <4>1
    <3>7. \A p \in deleted'[r] : \E i \in 1 .. Len(TableOrder) :
            i < ana'[r].table /\ p[1] = TableOrder[i]
      BY ONLY Zenon, <3>3, <3>5, <3>6
    <3>. QED
      BY ONLY <3>3, <3>7
  <2>5. ASSUME ana'[r].at # "waiting", ana'[r].table = ana[r].table,
               deleted'[r] \subseteq deleted[r]
        PROVE  Locks(r)'
    <3>1. \A p \in deleted'[r] : \E i \in 1 .. Len(TableOrder) :
            i < ana'[r].table /\ p[1] = TableOrder[i]
      BY ONLY Zenon, <2>2, <2>5
    <3>. QED
      BY ONLY <2>5, <3>1
  <2>6. Locks(r)'
    <3>1. \/ DeleteBegins(r) \/ DeleteEnds(r)
          \/ /\ ana'[r].at # "waiting" /\ ana'[r].table = ana[r].table
             /\ deleted'[r] \subseteq deleted[r]
      BY <1>2, <2>0, AnalysisMoves
    <3>. HIDE DEF Locks
    <3>. QED
      BY ONLY <2>3, <2>4, <2>5, <3>1
  <2>7. \A x \in Requests : Locks(x)'
    BY <2>1, <2>6
  <2>. QED
    BY ONLY <2>7 DEF LockInv, Current
<1>. QED
  BY <1>1, <1>2 DEF Next, vars, anaVars

\* Analyses never wait for each other in a circle, however many there are (the
\* order of the four DELETEs of tasks/analysis.py:51-52, 79-80, 102-103,
\* 126-127): who is furthest in the tables waits for none of the others.
THEOREM AnalysesNeverDeadlock == Spec => []NoAnalysisDeadlock
<1>1. Init => LockInv
  BY DEF Init, AnalysisInit, LockInv
<1>2. Base /\ LockInv => NoAnalysisDeadlock
  <2> SUFFICES ASSUME Base, LockInv, NEW S \in (SUBSET Requests) \ {{}}
               PROVE  \E r \in S : \A x \in S : ~Blocks(x, r)
    BY DEF NoAnalysisDeadlock
  <2>1. ASSUME NEW y \in Requests, NEW z \in Requests, Blocks(y, z)
        PROVE  ana[z].table < ana[y].table
    <3>1. PICK p \in deleted[y] : p \in snapshot[z]
      BY <2>1 DEF Blocks
    <3>2. ana[z].at = "waiting" /\ p[1] = TableOrder[ana[z].table]
      BY <2>1, <3>1 DEF Blocks, LockInv, Current
    <3>3. PICK i \in 1 .. Len(TableOrder) : i < ana[y].table /\ p[1] = TableOrder[i]
      BY <3>1 DEF LockInv
    <3>4. ana[z].table \in 1 .. Len(TableOrder)
      BY <3>2, TablesAssumption
      DEF Base, Documents, TypeOK, AnalysisTypeOK, DeletesTable
    <3>. QED
      BY <3>2, <3>3, <3>4, TablesAssumption
  <2>. DEFINE left == {Len(TableOrder) + 1 - ana[r].table : r \in S}
  <2>2. \A r \in Requests : ana[r].table \in 1 .. Len(TableOrder) + 1
    BY DEF Base, Documents, TypeOK, AnalysisTypeOK
  <2>3. Len(TableOrder) \in Nat
    BY TablesAssumption
  <2>4. left \subseteq Nat /\ left # {}
    BY <2>2, <2>3
  <2>5. PICK n \in left : \A m \in left : ~(m < n)
    <3>. HIDE DEF left
    <3>1. \E n \in left : \A m \in left : <<m, n>> \notin OpToRel(<, Nat)
      BY ONLY Zenon, <2>4, NatLessThanWellFounded, WFMin
    <3>2. \A m, n \in left : m < n => <<m, n>> \in OpToRel(<, Nat)
      BY ONLY <2>4 DEF OpToRel
    <3>. QED
      BY ONLY Zenon, <3>1, <3>2
  <2>6. PICK r \in S : n = Len(TableOrder) + 1 - ana[r].table
    BY <2>5
  <2>7. ASSUME NEW x \in S, Blocks(x, r) PROVE FALSE
    <3>1. ana[r].table < ana[x].table
      BY <2>1, <2>7
    <3>2. Len(TableOrder) + 1 - ana[x].table \in left
      OBVIOUS
    <3>3. /\ ana[r].table \in Int /\ ana[x].table \in Int
          /\ Len(TableOrder) \in Int
      BY <2>2, <2>3
    <3>. HIDE DEF left
    <3>4. ~(Len(TableOrder) + 1 - ana[x].table < n)
      BY ONLY Zenon, <2>5, <3>2
    <3>. QED
      BY ONLY <2>6, <3>1, <3>3, <3>4
  <2>. QED
    BY <2>7
<1>. QED
  BY <1>1, <1>2, BaseInit, BaseStep, LockStep, PTL DEF Spec

\* An analysis that fails leaves the tables as they were, although it emptied
\* them and rolls nothing back (tasks/analysis.py:144-147).
THEOREM FailuresKeepResults == Spec => []FailureKeepsResults
<1>1. Init => FailureKeepsResults
  BY DEF Init, AnalysisInit, FailureKeepsResults
<1>2. Base /\ FailureKeepsResults /\ [Next]_vars => FailureKeepsResults'
  <2> SUFFICES ASSUME Base, FailureKeepsResults, [Next]_vars
               PROVE  FailureKeepsResults'
    OBVIOUS
  <2>1. CASE UNCHANGED anaVars
    BY <2>1 DEF FailureKeepsResults, anaVars
  <2>2. ASSUME NEW r \in Requests, AnalysisStep(r) PROVE FailureKeepsResults'
    <3>0. AnalysisTypeOK
      BY DEF Base, Documents, TypeOK
    <3>1. CASE Store(r)
      <4>. DEFINE a == [ana[r] EXCEPT !.at = "ended", !.stored = TRUE]
      <4>1. ana \in [Requests -> Analysis] /\ ana[r] \in Analysis
        BY <3>0 DEF AnalysisTypeOK, Analysis
      <4>2. a.stored
        BY <4>1 DEF Analysis
      <4>3. ana' = [ana EXCEPT ![r] = a]
        BY Zenon, <3>1 DEF Store
      <4>. HIDE DEF a
      <4>4. ana'[r].stored
        BY <4>1, <4>2, <4>3
      <4>. QED
        BY <4>4 DEF FailureKeepsResults
    <3>2. CASE ~Store(r)
      <4>1. /\ \A x \in Requests : ana'[x].stored = ana[x].stored
            /\ results' = results
        BY <2>2, <3>0, <3>2, AnalysisMoves
      <4>. QED
        BY <4>1 DEF FailureKeepsResults
    <3>. QED
      BY <3>1, <3>2
  <2>. QED
    BY <2>1, <2>2 DEF Next, vars, anaVars
<1>. QED
  BY <1>1, <1>2, BaseInit, BaseStep, PTL DEF Spec

\* A row that was not there when the request began.
Newer(r, p) == p[2] # Earlier /\ p[2] \notin after[r]

Behind(r, p) ==
  \E i \in 1 .. Len(TableOrder) : i < ana[r].table /\ p[1] = TableOrder[i]

\* Of the tables an analysis has been through nothing older than its request
\* is left that it has not deleted, and of the one it is at nothing that it
\* is not about to delete.
ReplaceInv ==
  \A r \in Requests :
    /\ ana[r].at \in {"none", "dispatched", "asking"} => ana[r].table = 1
    /\ ana[r].stored => ana[r].at # "none"
    /\ ana[r].at \in {"deleting", "waiting"}
         => \A p \in results : Behind(r, p) => p \in deleted[r] \/ Newer(r, p)
    /\ ana[r].at = "waiting"
         => \A p \in results : p[1] = Current(r) => p \in snapshot[r] \/ Newer(r, p)

\* A result that is stored now is newer than anything an analysis at work had
\* read.
LEMMA NewRowsAreNewer ==
  ASSUME Base, [Next]_vars, NEW p \in results', p \notin results, NEW r \in Requests
  PROVE  Newer(r, p)
<1>1. PICK x \in Requests : AnalysisStep(x)
  BY DEF Next, vars, anaVars
<1>2. Store(x)
  BY <1>1 DEF AnalysisStep, DispatchAnalysis, AnalysisLost, Ask, Answer, DeleteBegins,
     DeleteEnds, CannotStore, AnalysisRaises, Release
<1>3. p[2] = x /\ pc[x] = "elsewhere"
  BY <1>2 DEF Store, Finished, Go
<1>. QED
  BY <1>3, TablesAssumption DEF Newer, Base, Documents, DocInv, OverInv, Over

\* The coverage grows table by table: an ended DELETE has covered its table, and
\* what appears meanwhile is newer.
LEMMA ReplaceStep ==
  ASSUME Base, ReplaceInv, [Next]_vars
  PROVE  ReplaceInv'
<1> USE DEF ReplaceInv, Current
<1>0. ana \in [Requests -> [at : Analysing \cup {"none", "ended"},
                            table : 1 .. Len(TableOrder) + 1,
                            answer : SUBSET Tables, stored : BOOLEAN]]
      /\ snapshot \in [Requests -> SUBSET Owned]
      /\ deleted \in [Requests -> SUBSET Owned]
  BY DEF Base, Documents, TypeOK, AnalysisTypeOK
<1>1. \A r \in Requests : ana[r].at # "none" => pc[r] # "idle"
  BY DEF Base, HandlerInv, NoneBut
<1>2. \A r \in Requests : pc[r] # "idle" => after'[r] = after[r]
  BY AfterKept
<1>3. \A r \in Requests : \A p \in results' : p \in results \/ Newer(r, p)
  BY NewRowsAreNewer
<1>4. ASSUME NEW r \in Requests, ana[r].at # "none"
      PROVE  \A p : Newer(r, p) => Newer(r, p)'
  BY <1>1, <1>2, <1>4 DEF Newer
\* Whoever does not move keeps what it has.
<1>5. ASSUME NEW r \in Requests, ana'[r] = ana[r],
             deleted'[r] = deleted[r], snapshot'[r] = snapshot[r]
      PROVE  /\ ana'[r].at \in {"none", "dispatched", "asking"} => ana'[r].table = 1
             /\ ana'[r].stored => ana'[r].at # "none"
             /\ ana'[r].at \in {"deleting", "waiting"}
                  => \A p \in results' : Behind(r, p)' => p \in deleted'[r] \/ Newer(r, p)'
             /\ ana'[r].at = "waiting"
                  => \A p \in results' : p[1] = Current(r)' => p \in snapshot'[r] \/ Newer(r, p)'
  BY <1>3, <1>4, <1>5 DEF Behind
<1>6. CASE UNCHANGED anaVars
  BY <1>5, <1>6 DEF anaVars
<1>7. ASSUME NEW x \in Requests, AnalysisStep(x) PROVE ReplaceInv'
  <2>1. \A r \in Requests \ {x} :
          ana'[r] = ana[r] /\ deleted'[r] = deleted[r] /\ snapshot'[r] = snapshot[r]
    BY <1>0, <1>7
    DEF AnalysisStep, DispatchAnalysis, AnalysisLost, Ask, Answer, DeleteBegins,
        DeleteEnds, Store, CannotStore, AnalysisRaises, Release, Step
  <2>2. SUFFICES
          /\ ana'[x].at \in {"none", "dispatched", "asking"} => ana'[x].table = 1
          /\ ana'[x].stored => ana'[x].at # "none"
          /\ ana'[x].at \in {"deleting", "waiting"}
               => \A p \in results' : Behind(x, p)' => p \in deleted'[x] \/ Newer(x, p)'
          /\ ana'[x].at = "waiting"
               => \A p \in results' : p[1] = Current(x)' => p \in snapshot'[x] \/ Newer(x, p)'
    BY <1>5, <2>1
  <2>3. CASE DispatchAnalysis(x) \/ AnalysisLost(x) \/ Ask(x) \/ CannotStore(x) \/ Release(x)
    BY <1>0, <2>3
    DEF DispatchAnalysis, AnalysisLost, Ask, CannotStore, Release, Emptied, Step
  <2>4. CASE \E answer \in Answers : Answer(x, answer)
    <3>1. /\ ana'[x].at = "deleting" /\ ana'[x].table = ana[x].table
          /\ ana[x].at = "asking"
      BY <1>0, <2>4 DEF Answer
    <3>2. ana'[x].table = 1
      BY <3>1
    <3>3. \A p : ~Behind(x, p)'
      BY <3>2 DEF Behind
    <3>. QED
      BY <3>1, <3>3
  <2>5. CASE DeleteBegins(x)
    <3>1. /\ ana'[x].at = "waiting" /\ ana'[x].table = ana[x].table
          /\ ana[x].at = "deleting" /\ UNCHANGED <<results, deleted>>
          /\ snapshot'[x] = {p \in results : p[1] = Current(x)}
      BY <1>0, <2>5 DEF DeleteBegins, Step
    <3>. QED
      BY <1>4, <3>1 DEF Behind
  <2>6. CASE DeleteEnds(x)
    <3>1. /\ ana'[x].at = "deleting" /\ ana'[x].table = ana[x].table + 1
          /\ ana[x].at = "waiting" /\ UNCHANGED results
          /\ deleted'[x] = deleted[x] \cup (snapshot[x] \cap results)
      BY <1>0, <2>6 DEF DeleteEnds
    <3>2. ASSUME NEW p \in results, Behind(x, p)' PROVE p \in deleted'[x] \/ Newer(x, p)
      <4>1. PICK i \in 1 .. Len(TableOrder) : i < ana[x].table + 1 /\ p[1] = TableOrder[i]
        BY <3>1, <3>2 DEF Behind
      <4>2. CASE i < ana[x].table
        BY <3>1, <4>1, <4>2 DEF Behind
      <4>3. CASE i = ana[x].table
        BY <3>1, <4>1, <4>3
      <4>. QED
        BY <1>0, <4>1, <4>2, <4>3
    <3>. QED
      BY <1>4, <3>1, <3>2
  <2>7. CASE Store(x)
    BY <1>0, <2>7 DEF Store
  <2>8. CASE AnalysisRaises(x)
    BY <1>0, <2>8 DEF AnalysisRaises
  <2>. QED
    BY <1>7, <2>3, <2>4, <2>5, <2>6, <2>7, <2>8 DEF AnalysisStep
<1>. QED
  BY <1>6, <1>7 DEF Next, vars, anaVars

\* A stored analysis replaced every row that was older than its request, and
\* the rows of two analyses are together only if these overlapped
\* (tasks/analysis.py:51-127).
THEOREM StoredAnalysesReplace == Spec => []StoredAnalysisReplaces
<1>1. Init => ReplaceInv /\ StoredAnalysisReplaces
  BY DEF Init, AnalysisInit, ReplaceInv, Behind, StoredAnalysisReplaces
<1>2. Base /\ ReplaceInv /\ StoredAnalysisReplaces /\ [Next]_vars
        => StoredAnalysisReplaces'
  <2> SUFFICES ASSUME Base, ReplaceInv, StoredAnalysisReplaces, [Next]_vars,
                      NEW r \in Requests, ana'[r].stored, NEW p \in results'
               PROVE  Newer(r, p)'
    BY DEF StoredAnalysisReplaces, Newer
  <2>0. ana \in [Requests -> [at : Analysing \cup {"none", "ended"},
                              table : 1 .. Len(TableOrder) + 1,
                              answer : SUBSET Tables, stored : BOOLEAN]]
        /\ results \in SUBSET Owned
    BY DEF Base, Documents, TypeOK, AnalysisTypeOK
  <2>1. ana[r].at # "none" => pc[r] # "idle"
    BY DEF Base, HandlerInv, NoneBut
  <2>2. ana[r].at # "none" /\ Newer(r, p) => Newer(r, p)'
    BY <2>1, AfterKept DEF Newer
  <2>3. CASE p \notin results
    <3>1. ana[r].at # "none"
      <4>1. PICK x \in Requests : AnalysisStep(x)
        BY <2>3 DEF Next, vars, anaVars
      <4>2. Store(x)
        BY <4>1, <2>3 DEF AnalysisStep, DispatchAnalysis, AnalysisLost, Ask, Answer,
           DeleteBegins, DeleteEnds, CannotStore, AnalysisRaises, Release
      <4>3. r = x \/ ana'[r] = ana[r]
        BY <4>2, <2>0 DEF Store
      <4>. QED
        BY <4>2, <4>3 DEF Store, Emptied, ReplaceInv
    <3>. QED
      BY <2>2, <2>3, <3>1, NewRowsAreNewer
  <2>4. CASE p \in results /\ ana[r].stored
    <3>1. Newer(r, p) /\ ana[r].at # "none"
      BY <2>4 DEF StoredAnalysisReplaces, ReplaceInv, Newer
    <3>. QED
      BY <2>2, <3>1
  <2>5. CASE p \in results /\ ~ana[r].stored
    <3>1. Store(r)
      <4>1. PICK x \in Requests : AnalysisStep(x)
        BY <2>5 DEF Next, vars, anaVars
      <4>2. CASE \E answer \in Answers : Answer(x, answer)
        BY <2>0, <2>5, <4>2 DEF Answer
      <4>3. CASE Store(x)
        BY <2>0, <2>5, <4>3 DEF Store
      <4>4. CASE DeleteEnds(x)
        BY <2>0, <2>5, <4>4 DEF DeleteEnds
      <4>. QED
        BY <2>0, <2>5, <4>1, <4>2, <4>3, <4>4
        DEF AnalysisStep, DispatchAnalysis, AnalysisLost, Ask, DeleteBegins,
            CannotStore, AnalysisRaises, Release, Step
    <3>2. /\ ana[r].at = "deleting" /\ ana[r].table = Len(TableOrder) + 1
          /\ results' = (results \ deleted[r]) \cup (ana[r].answer \X {r})
          /\ pc[r] = "elsewhere"
      BY <3>1 DEF Store, Emptied, Finished, Go
    <3>3. CASE p \in ana[r].answer \X {r}
      BY <2>2, <3>2, <3>3, TablesAssumption
      DEF Newer, Base, Documents, DocInv, OverInv, Over
    <3>4. CASE p \notin deleted[r]
      <4>1. Behind(r, p)
        <5>1. p[1] \in Tables
          BY <2>0, <2>5 DEF Owned
        <5>2. PICK i \in 1 .. Len(TableOrder) : p[1] = TableOrder[i]
          BY <5>1 DEF Tables
        <5>. QED
          BY <3>2, <5>2, TablesAssumption DEF Behind
      <4>. QED
        BY <2>2, <2>5, <3>2, <3>4, <4>1 DEF ReplaceInv
    <3>. QED
      BY <3>2, <3>3, <3>4
  <2>. QED
    BY <2>3, <2>4, <2>5
<1>. QED
  BY <1>1, <1>2, BaseInit, BaseStep, ReplaceStep, PTL DEF Spec

-----------------------------------------------------------------------------
(* Reports                                                                 *)

\* Requests that overlap do so for ever.
LEMMA OverlapKept ==
  ASSUME Base, [Next]_vars, NEW r \in Requests, NEW x \in Requests,
         pc[r] # "idle", pc[x] # "idle", Overlapped(r, x)
  PROVE  Overlapped(r, x)'
  BY AfterKept DEF Overlapped

MakingType ==
  [at : {"none", "reading", "written", "failing", "deleting", "ended"},
   report : Makers, pdf : {"none", "written", "failed"}, half : BOOLEAN]

\* What a generation has noted of its files is true of them, and stays noted.
NotedInv ==
  \A r \in Requests :
    /\ making[r].at \in {"none", "reading"} => making[r].pdf = "none" /\ ~making[r].half
    /\ making[r].at # "none" => making[r].report \in Requests
    /\ making[r].at = "ended" => pc[r] \in Over

\* A generation notes its files in their order and forgets nothing it noted.
LEMMA MakingMoves ==
  ASSUME Base, NotedInv, [Next]_vars, NEW r \in Requests
  PROVE  /\ making[r].at # "none" =>
              /\ making'[r].at # "none" /\ making'[r].report = making[r].report
              /\ making[r].half => making'[r].half
              /\ making[r].at = "written" => making'[r].at \in {"written", "ended"}
              /\ making[r].pdf # "none" => making'[r].pdf = making[r].pdf
         /\ making[r].at = "ended" => making'[r].at = "ended" /\ pc'[r] = pc[r]
         /\ making'[r].at = "ended" => pc'[r] \in Over
         /\ making'[r].at \in {"none", "reading"} => making'[r].pdf = "none" /\ ~making'[r].half
         /\ making'[r].at # "none" => making'[r].report \in Requests
<1> USE DEF NotedInv, MakingType
<1>0. making \in [Requests -> MakingType]
  BY DEF Base, Documents, TypeOK, ReportTypeOK
<1>1. pc[r] \in Over => pc'[r] = pc[r]
  <2>1. ASSUME NEW x \in Requests, DocMove(x) PROVE pc[r] \in Over => pc'[r] = pc[r]
    BY <2>1, Advance DEF Base, Documents, TypeOK, DocTypeOK
  <2>. QED
    BY <2>1, Moves DEF docVars
<1>2. pc[r] = "idle" => making[r].at = "none"
  BY DEF Base, HandlerInv, NoneBut
<1>3. CASE making'[r] = making[r]
  BY <1>1, <1>3
<1>4. CASE ReportStep(r)
  <2>1. CASE CreateReport(r) \/ Regenerate(r) \/ DeleteReport(r)
    <3>1. PICK d \in Requests : \E at \in {"reading", "deleting"} : Begins(r, d, at)
      BY <2>1 DEF CreateReport, Regenerate, DeleteReport, Reports
    <3>2. pc[r] = "idle" /\ \E at \in {"reading", "deleting"} :
            making' = [making EXCEPT ![r].at = at, ![r].report = d]
      BY <3>1 DEF Begins, Served, Read, Go
    <3>. QED
      BY <1>0, <1>2, <3>2
  <2>2. CASE WriteFiles(r)
    <3>1. making[r].at = "reading" /\ UNCHANGED pc /\ \E p \in {"written", "failed", "none"} :
            making' = [making EXCEPT ![r].at = "written", ![r].pdf = p]
      BY <2>2 DEF WriteFiles, docVars
    <3>. QED
      BY <1>0, <3>1
  <2>3. CASE GenerationFails(r)
    <3>1. making[r].at = "reading" /\ UNCHANGED pc /\ \E half \in BOOLEAN :
            making' = [making EXCEPT ![r].at = "failing", ![r].half = half]
      BY <2>3 DEF GenerationFails, docVars
    <3>. QED
      BY <1>0, <3>1
  <2>4. CASE CommitReport(r) \/ CommitFailure(r) \/ CommitReportDeletion(r) \/ ReportAborted(r)
    <3>1. /\ making[r].at \in Reporting \ {"reading"} \/ ReportAborted(r)
          /\ making[r].at \in Reporting
          /\ making' = [making EXCEPT ![r].at = "ended"]
          /\ \E to \in Over : pc' = [pc EXCEPT ![r] = to]
      BY <2>4 DEF CommitReport, CommitFailure, CommitReportDeletion, ReportAborted,
         Turn, Finished, Go, Over, Reporting
    <3>2. pc \in [Requests -> Places]
      BY DEF Base, Documents, TypeOK, DocTypeOK
    <3>. QED
      BY <1>0, <3>1, <3>2 DEF Reporting
  <2>. QED
    BY <1>4, <2>1, <2>2, <2>3, <2>4 DEF ReportStep
<1>. QED
  BY <1>3, <1>4, ReportCourse DEF Next, vars, reportVars, Base, Documents

\* Nobody has made anything.
LEMMA NotedInit == Init => NotedInv
  BY DEF Init, ReportInit, NotedInv

\* What is noted stays true.
LEMMA NotedStep == Base /\ NotedInv /\ [Next]_vars => NotedInv'
  BY MakingMoves DEF NotedInv

\* The HTML and the Markdown of a report are from one generation unless one
\* failed between the two (report_service.py:166-218).
THEOREM ReportFilesStayTogether == Spec => []ReportFilesAgree
<1>1. Init => ReportFilesAgree
  BY DEF Init, ReportInit, ReportFilesAgree
<1>2. Base /\ NotedInv /\ ReportFilesAgree /\ [Next]_vars => ReportFilesAgree'
  <2> SUFFICES ASSUME Base, NotedInv, ReportFilesAgree, [Next]_vars
               PROVE  ReportFilesAgree'
    OBVIOUS
  <2>0. /\ html \in [Requests -> Makers] /\ markdown \in [Requests -> Makers]
        /\ making \in [Requests -> MakingType]
    BY DEF Base, Documents, TypeOK, ReportTypeOK, MakingType
  <2>1. ASSUME NEW d \in Requests, html[d] # markdown[d]
        PROVE  \E r \in Requests : making'[r].report = d /\ making'[r].half
    <3>1. PICK r \in Requests : making[r].report = d /\ making[r].half
      BY <2>1 DEF ReportFilesAgree
    <3>. QED
      BY <3>1, MakingMoves DEF NotedInv
  <2>2. CASE UNCHANGED <<html, markdown>>
    BY <2>1, <2>2 DEF ReportFilesAgree
  <2>3. ASSUME NEW r \in Requests, WriteFiles(r) PROVE ReportFilesAgree'
    <3>1. /\ html' = [html EXCEPT ![making[r].report] = r]
          /\ markdown' = [markdown EXCEPT ![making[r].report] = r]
      BY <2>3 DEF WriteFiles, Written
    <3>. QED
      BY <2>0, <2>1, <3>1 DEF ReportFilesAgree
  <2>4. ASSUME NEW r \in Requests, GenerationFails(r) PROVE ReportFilesAgree'
    <3>1. PICK half \in BOOLEAN :
            /\ making' = [making EXCEPT ![r].at = "failing", ![r].half = half]
            /\ html' = IF half THEN [html EXCEPT ![making[r].report] = r] ELSE html
            /\ markdown' = markdown
      BY <2>4 DEF GenerationFails
    <3>2. half => making'[r].report = making[r].report /\ making'[r].half
      BY <2>0, <3>1 DEF MakingType
    <3>. QED
      BY <2>0, <2>1, <3>1, <3>2 DEF ReportFilesAgree
  <2>. QED
    BY <2>2, <2>3, <2>4
    DEF Next, vars, reportVars, files, ReportStep, CreateReport, Regenerate,
        DeleteReport, Begins, CommitReport, CommitFailure, CommitReportDeletion,
        ReportAborted
<1>. QED
  BY <1>1, <1>2, BaseInit, BaseStep, NotedInit, NotedStep, PTL DEF Spec

FromOrOverlap(d, r) == markdown[d] = r \/ Overlapped(markdown[d], r)

\* What a generation that has written its files finds when it commits; whose
\* the Markdown is; who wrote a row, and what a path to a PDF stands for.
FilesInv ==
  /\ \A r \in Requests : LET d == making[r].report IN making[r].at = "written" =>
       /\ html[d] # NoOne /\ markdown[d] # NoOne
       /\ making[r].pdf = "written" => pdf[d] # NoOne
       /\ FromOrOverlap(d, r)
  /\ \A d \in Requests : LET m == markdown[d] IN m # NoOne =>
       making[m].report = d /\ making[m].at \in {"written", "ended"}
  /\ \A d \in Requests : report[d].by # NoOne => making[report[d].by].at = "ended"
  /\ \A d \in Requests : report[d].status = "completed" =>
       /\ report[d].by # NoOne /\ html[d] # NoOne /\ markdown[d] # NoOne
       /\ FromOrOverlap(d, report[d].by) \/ pc[markdown[d]] # "done"
  /\ \A d \in Requests : pdf[d] = NoOne /\ report[d].pdfPath =>
       \E r \in Requests : making[r].report = d /\ making[r].pdf = "failed"

\* A file changes by a generation that writes it.
LEMMA FilesMove ==
  ASSUME Base, NotedInv, [Next]_vars, NEW d \in Requests
  PROVE  /\ html'[d] # html[d] => html'[d] # NoOne
         /\ pdf'[d] # pdf[d] => pdf'[d] # NoOne
         /\ markdown'[d] # markdown[d] =>
              \E x \in Requests : WriteFiles(x) /\ making[x].report = d /\ markdown'[d] = x
<1>0. /\ html \in [Requests -> Makers] /\ markdown \in [Requests -> Makers]
      /\ pdf \in [Requests -> Makers]
  BY DEF Base, Documents, TypeOK, ReportTypeOK
<1>1. CASE UNCHANGED files
  BY <1>1 DEF files
<1>2. ASSUME NEW x \in Requests, WriteFiles(x)
      PROVE  /\ html'[d] # html[d] => html'[d] # NoOne
             /\ pdf'[d] # pdf[d] => pdf'[d] # NoOne
             /\ markdown'[d] # markdown[d] =>
                  WriteFiles(x) /\ making[x].report = d /\ markdown'[d] = x
  <2>1. /\ html' = [html EXCEPT ![making[x].report] = x]
        /\ markdown' = [markdown EXCEPT ![making[x].report] = x]
        /\ pdf' = [pdf EXCEPT ![making[x].report] = x] \/ pdf' = pdf
    BY <1>2 DEF WriteFiles, Written
  <2>. QED
    BY <1>0, <1>2, <2>1, NoOneAssumption
<1>3. ASSUME NEW x \in Requests, GenerationFails(x)
      PROVE  /\ html'[d] # html[d] => html'[d] # NoOne
             /\ UNCHANGED <<markdown, pdf>>
  BY <1>0, <1>3, NoOneAssumption DEF GenerationFails
<1>. QED
  BY <1>1, <1>2, <1>3
  DEF Next, vars, reportVars, files, ReportStep, CreateReport, Regenerate,
      DeleteReport, Begins, CommitReport, CommitFailure, CommitReportDeletion,
      ReportAborted

\* A row changes when a generation or a deletion is committed.
LEMMA RowsMove ==
  ASSUME Base, [Next]_vars, NEW d \in Requests
  PROVE  \/ report'[d] = report[d]
         \/ report'[d] = NoReport
         \/ \E x \in Requests :
              /\ CommitFailure(x) /\ making[x].report = d
              /\ report'[d].status = "failed" /\ report'[d].by = x
              /\ report'[d].pdfPath = report[d].pdfPath
         \/ \E x \in Requests :
              /\ CommitReport(x) /\ making[x].report = d
              /\ report'[d].status = "completed" /\ report'[d].by = x
              /\ report'[d].pdfPath <=> report[d].pdfPath \/ making[x].pdf # "none"
<1>0. report \in [Requests -> [status : {"absent", "completed", "failed"},
                               by : Makers, paths : BOOLEAN, pdfPath : BOOLEAN]]
  BY DEF Base, Documents, TypeOK, ReportTypeOK
<1>1. CASE UNCHANGED report
  BY <1>1
<1>2. ASSUME NEW x \in Requests, CommitReport(x)
      PROVE  \/ report'[d] = report[d]
             \/ /\ making[x].report = d
                /\ report'[d].status = "completed" /\ report'[d].by = x
                /\ report'[d].pdfPath <=> report[d].pdfPath \/ making[x].pdf # "none"
  <2>1. report' = [report EXCEPT ![making[x].report] =
                     [status |-> "completed", by |-> x, paths |-> TRUE,
                      pdfPath |-> report[making[x].report].pdfPath \/ making[x].pdf # "none"]]
    BY <1>2 DEF CommitReport
  <2>2. CASE making[x].report # d
    BY <1>0, <2>1, <2>2
  <2>3. CASE making[x].report = d
    <3>1. report'[d] = [status |-> "completed", by |-> x, paths |-> TRUE,
                        pdfPath |-> report[d].pdfPath \/ making[x].pdf # "none"]
      BY <1>0, <2>1, <2>3
    <3>2. report'[d].status = "completed" /\ report'[d].by = x
      BY <3>1
    <3>3. report'[d].pdfPath = (report[d].pdfPath \/ making[x].pdf # "none")
      BY <3>1
    <3>4. report'[d].pdfPath <=> report[d].pdfPath \/ making[x].pdf # "none"
      BY Zenon, <3>3
    <3>. QED
      BY Zenon, <2>3, <3>2, <3>4
  <2>. QED
    BY <2>2, <2>3
<1>3. ASSUME NEW x \in Requests, CommitFailure(x)
      PROVE  \/ report'[d] = report[d]
             \/ /\ making[x].report = d
                /\ report'[d].status = "failed" /\ report'[d].by = x
                /\ report'[d].pdfPath = report[d].pdfPath
  BY <1>0, <1>3 DEF CommitFailure
<1>4. ASSUME NEW x \in Requests, CommitReportDeletion(x)
      PROVE  report'[d] = report[d] \/ report'[d] = NoReport
  BY <1>0, <1>4 DEF CommitReportDeletion
<1>. QED
  BY <1>1, <1>2, <1>3, <1>4
  DEF Next, vars, reportVars, ReportStep, CreateReport, Regenerate, WriteFiles,
      DeleteReport, Begins, GenerationFails, ReportAborted

\* The files and paths of a report stay explained by the generations of it that
\* wrote them.
LEMMA FilesInvStep ==
  ASSUME Base, NotedInv, FilesInv, [Next]_vars
  PROVE  FilesInv'
<1>0. /\ html \in [Requests -> Makers] /\ markdown \in [Requests -> Makers]
      /\ pdf \in [Requests -> Makers] /\ making \in [Requests -> MakingType]
      /\ report \in [Requests -> [status : {"absent", "completed", "failed"},
                                  by : Makers, paths : BOOLEAN, pdfPath : BOOLEAN]]
  BY DEF Base, Documents, TypeOK, ReportTypeOK, MakingType
<1>a. /\ html' \in [Requests -> Makers] /\ markdown' \in [Requests -> Makers]
      /\ making' \in [Requests -> MakingType]
  BY BaseStep DEF Base, Documents, TypeOK, ReportTypeOK, MakingType
<1>b. \A r \in Requests : making[r].at # "none" => pc[r] # "idle"
  BY DEF Base, HandlerInv, NoneBut
<1>1. ASSUME NEW d \in Requests, markdown'[d] # NoOne
      PROVE  /\ making'[markdown'[d]].report = d
             /\ making'[markdown'[d]].at \in {"written", "ended"}
  <2>1. CASE markdown'[d] = markdown[d]
    <3>1. PICK m \in Requests : m = markdown[d]
      BY <1>0, <1>1, <2>1 DEF Makers
    <3>. QED
      BY <1>1, <2>1, <3>1, MakingMoves DEF FilesInv
  <2>2. ASSUME NEW x \in Requests, WriteFiles(x), making[x].report = d, markdown'[d] = x
        PROVE  making'[x].report = d /\ making'[x].at = "written"
    BY <1>0, <2>2 DEF WriteFiles, MakingType
  <2>. QED
    BY <2>1, <2>2, FilesMove
\* Whose the Markdown is: unchanged, or of a generation that is at work.
<1>2. ASSUME NEW d \in Requests, NEW r \in Requests, FromOrOverlap(d, r),
             markdown[d] # NoOne, making[r].at # "none",
             markdown'[d] # markdown[d] => pc[r] = "elsewhere"
      PROVE  FromOrOverlap(d, r)'
  <2>1. CASE markdown'[d] = markdown[d]
    <3>1. PICK m \in Requests : m = markdown[d]
      BY <1>0, <1>2 DEF Makers
    <3>2. pc[m] # "idle" /\ pc[r] # "idle"
      BY <1>b, <1>2, <3>1 DEF FilesInv
    <3>. QED
      BY <1>2, <2>1, <3>1, <3>2, OverlapKept DEF FromOrOverlap
  <2>2. ASSUME NEW x \in Requests, WriteFiles(x), markdown'[d] = x, pc[r] = "elsewhere"
        PROVE  FromOrOverlap(d, r)'
    <3>1. pc[x] = "elsewhere"
      BY <2>2 DEF WriteFiles, Base, HandlerInv, Reporting
    <3>2. x = r \/ Overlapped(x, r)
      BY <2>2, <3>1, WorkOverlaps
    <3>3. x = r \/ Overlapped(x, r)'
      BY <2>2, <3>1, <3>2, OverlapKept
    <3>. QED
      BY <2>2, <3>3 DEF FromOrOverlap
  <2>. QED
    BY <1>2, <2>1, <2>2, FilesMove
<1>3. ASSUME NEW r \in Requests, making'[r].at = "written", NEW d \in Requests,
             making'[r].report = d
      PROVE  /\ html'[d] # NoOne /\ markdown'[d] # NoOne
             /\ making'[r].pdf = "written" => pdf'[d] # NoOne
             /\ FromOrOverlap(d, r)'
  <2>1. CASE making[r].at = "written"
    <3>1. making[r].report = d /\ (making'[r].pdf = "written" => making[r].pdf \in {"written", "none"})
      BY <1>0, <1>3, <2>1, MakingMoves DEF MakingType
    <3>2. making'[r].pdf = making[r].pdf
      <4>1. CASE making'[r] = making[r]
        BY <4>1
      <4>2. CASE ReportStep(r)
        BY <1>0, <1>3, <2>1, <4>2
        DEF ReportStep, CreateReport, Regenerate, DeleteReport, Begins, WriteFiles,
            GenerationFails, CommitReport, CommitFailure, CommitReportDeletion,
            ReportAborted, Turn, MakingType
      <4>. QED
        BY <4>1, <4>2, ReportCourse DEF Next, vars, reportVars, Base, Documents
    <3>3. pc[r] = "elsewhere"
      BY <2>1 DEF Base, HandlerInv, Reporting
    <3>. QED
      BY <1>2, <2>1, <3>1, <3>2, <3>3, FilesMove, NoOneAssumption DEF FilesInv
  <2>2. CASE making[r].at # "written"
    <3>1. WriteFiles(r)
      <4>1. ReportStep(r)
        BY <1>3, <2>2, ReportCourse DEF Next, vars, reportVars, Base, Documents
      <4>2. \A e : \A at \in {"reading", "deleting"} : ~Begins(r, e, at)
        BY <1>0, <1>3 DEF Begins, MakingType
      <4>. QED
        BY <1>0, <1>3, <4>1, <4>2
        DEF ReportStep, CreateReport, Regenerate, DeleteReport, GenerationFails,
            CommitReport, CommitFailure, CommitReportDeletion, ReportAborted,
            Turn, MakingType
    <3>2. PICK p \in {"written", "failed", "none"} :
            /\ making' = [making EXCEPT ![r].at = "written", ![r].pdf = p]
            /\ Written(making[r].report, r, p = "written")
      BY <3>1 DEF WriteFiles
    <3>3. making[r].report = d /\ making'[r].pdf = p
      BY <1>0, <1>3, <3>2 DEF MakingType
    <3>4. html'[d] = r /\ markdown'[d] = r /\ (p = "written" => pdf'[d] = r)
      BY <1>0, <3>2, <3>3 DEF Written
    <3>. QED
      BY <3>3, <3>4, NoOneAssumption DEF FromOrOverlap
  <2>. QED
    BY <2>1, <2>2
<1>4. ASSUME NEW d \in Requests, report'[d].by # NoOne
      PROVE  making'[report'[d].by].at = "ended"
  <2>1. CASE report'[d] = report[d]
    <3>1. PICK b \in Requests : b = report[d].by
      BY <1>0, <1>4, <2>1 DEF Makers
    <3>. QED
      BY <1>4, <2>1, <3>1, MakingMoves DEF FilesInv
  <2>2. ASSUME NEW x \in Requests, CommitReport(x) \/ CommitFailure(x)
        PROVE  making'[x].at = "ended"
    BY <1>0, <2>2 DEF CommitReport, CommitFailure, Turn, MakingType
  <2>3. report'[d] # NoReport
    BY <1>4 DEF NoReport
  <2>. QED
    BY <2>1, <2>2, <2>3, RowsMove
<1>5. ASSUME NEW d \in Requests, report'[d].status = "completed"
      PROVE  /\ report'[d].by # NoOne /\ html'[d] # NoOne /\ markdown'[d] # NoOne
             /\ FromOrOverlap(d, report[d].by)' \/ pc'[markdown'[d]] # "done"
  <2>1. ASSUME NEW x \in Requests, CommitReport(x), making[x].report = d,
               report'[d].by = x
        PROVE  /\ report'[d].by # NoOne /\ html'[d] # NoOne /\ markdown'[d] # NoOne
               /\ FromOrOverlap(d, report[d].by)'
    <3>1. making[x].at = "written" /\ UNCHANGED <<html, markdown>>
      BY <2>1 DEF CommitReport, Turn, files
    <3>2. html[d] # NoOne /\ markdown[d] # NoOne /\ FromOrOverlap(d, x)
      BY <2>1, <3>1 DEF FilesInv
    <3>3. FromOrOverlap(d, x)'
      BY <1>2, <3>1, <3>2
    <3>. QED
      BY <2>1, <3>1, <3>2, <3>3, NoOneAssumption DEF FromOrOverlap, Overlapped
  <2>2. CASE report'[d] = report[d]
    <3>1. /\ report[d].by # NoOne /\ html[d] # NoOne /\ markdown[d] # NoOne
          /\ FromOrOverlap(d, report[d].by) \/ pc[markdown[d]] # "done"
      BY <1>5, <2>2 DEF FilesInv
    <3>2. PICK b \in Requests : b = report[d].by
      BY <1>0, <3>1 DEF Makers
    <3>3. html'[d] # NoOne /\ markdown'[d] # NoOne
      BY <3>1, FilesMove, NoOneAssumption
    <3>4. making[b].at = "ended"
      BY <3>1, <3>2 DEF FilesInv
    <3>5. ASSUME markdown'[d] # markdown[d] PROVE pc'[markdown'[d]] # "done"
      <4>1. PICK x \in Requests : WriteFiles(x) /\ markdown'[d] = x
        BY <3>5, FilesMove
      <4>2. pc[x] = "elsewhere" /\ UNCHANGED pc
        BY <4>1 DEF WriteFiles, Base, HandlerInv, Reporting, docVars
      <4>. QED
        BY <4>1, <4>2
    <3>6. ASSUME markdown'[d] = markdown[d], FromOrOverlap(d, b)
          PROVE  FromOrOverlap(d, b)'
      BY <1>2, <3>1, <3>4, <3>6
    <3>7. ASSUME markdown'[d] = markdown[d], pc[markdown[d]] # "done"
          PROVE  FromOrOverlap(d, b)' \/ pc'[markdown'[d]] # "done"
      <4>1. PICK m \in Requests : m = markdown[d]
        BY <1>0, <3>1 DEF Makers
      <4>2. making[m].report = d /\ making[m].at \in {"written", "ended"}
        BY <3>1, <4>1 DEF FilesInv
      <4>3. CASE making[m].at = "ended" \/ pc'[m] # "done"
        BY <3>7, <4>1, <4>3, MakingMoves
      <4>4. CASE making[m].at = "written" /\ pc'[m] = "done"
        <5>1. making'[m].at = "ended"
          BY <4>4, MakingMoves, BaseStep DEF Base, HandlerInv, Reporting
        <5>2. ReportStep(m)
          BY <4>4, <5>1, ReportCourse DEF Next, vars, reportVars, Base, Documents
        <5>3. \A e : \A at \in {"reading", "deleting"} : ~Begins(m, e, at)
          BY <1>0, <5>1 DEF Begins, MakingType
        <5>4. CommitReport(m)
          <6>1. ~ReportAborted(m)
            BY <4>4 DEF ReportAborted, Finished, Go, Base, Documents, TypeOK, DocTypeOK
          <6>. QED
            BY <4>4, <5>2, <5>3, <6>1
            DEF ReportStep, CreateReport, Regenerate, DeleteReport, GenerationFails,
                WriteFiles, CommitFailure, CommitReportDeletion, Turn
        <5>5. report'[d].by = m
          BY <1>0, <4>2, <5>4 DEF CommitReport
        <5>. QED
          BY <2>2, <3>2, <3>7, <4>1, <5>5 DEF FromOrOverlap
      <4>. QED
        BY <4>2, <4>3, <4>4
    <3>. QED
      <4>1. FromOrOverlap(d, b)' \/ pc'[markdown'[d]] # "done"
        BY <3>1, <3>2, <3>5, <3>6, <3>7
      <4>2. report'[d].by = b /\ b # NoOne
        BY <2>2, <3>1, <3>2
      <4>. QED
        BY <3>3, <4>1, <4>2 DEF FromOrOverlap, Overlapped
  <2>3. report'[d] # NoReport
    BY <1>5 DEF NoReport
  <2>. QED
    BY <1>5, <2>1, <2>2, <2>3, RowsMove
<1>6. ASSUME NEW d \in Requests, pdf'[d] = NoOne, report'[d].pdfPath
      PROVE  \E r \in Requests : making'[r].report = d /\ making'[r].pdf = "failed"
  <2>1. pdf[d] = NoOne
    BY <1>6, FilesMove
  <2>2. ASSUME NEW r \in Requests, making[r].report = d, making[r].pdf = "failed"
        PROVE  making'[r].report = d /\ making'[r].pdf = "failed"
    BY <2>2, MakingMoves DEF NotedInv
  <2>3. CASE report[d].pdfPath
    BY <2>1, <2>2, <2>3 DEF FilesInv
  <2>4. ASSUME NEW x \in Requests, CommitReport(x), making[x].report = d,
               making[x].pdf # "none"
        PROVE  making[x].pdf = "failed"
    BY <1>0, <2>1, <2>4 DEF FilesInv, CommitReport, Turn, MakingType
  <2>5. report'[d] # NoReport
    BY <1>6 DEF NoReport
  <2>. QED
    BY <1>6, <2>2, <2>3, <2>4, <2>5, RowsMove
<1>7. ASSUME NEW r \in Requests, making'[r].at = "written"
      PROVE  /\ html'[making'[r].report] # NoOne /\ markdown'[making'[r].report] # NoOne
             /\ making'[r].pdf = "written" => pdf'[making'[r].report] # NoOne
             /\ FromOrOverlap(making[r].report, r)'
  <2>1. PICK d \in Requests : d = making'[r].report
    BY <1>7, MakingMoves
  <2>2. /\ html'[d] # NoOne /\ markdown'[d] # NoOne
        /\ making'[r].pdf = "written" => pdf'[d] # NoOne
        /\ FromOrOverlap(d, r)'
    BY <1>3, <1>7, <2>1
  <2>. QED
    BY <2>1, <2>2 DEF FromOrOverlap, Overlapped
<1>8. \A d \in Requests : report'[d].status = "completed" =>
        /\ report'[d].by # NoOne /\ html'[d] # NoOne /\ markdown'[d] # NoOne
        /\ FromOrOverlap(d, report[d].by)' \/ pc'[markdown'[d]] # "done"
  BY <1>5 DEF FromOrOverlap, Overlapped
<1>. QED
  BY <1>1, <1>4, <1>6, <1>7, <1>8 DEF FilesInv

\* A completed report has its files, and they are from the generation that
\* wrote its row unless another overlapped or was aborted; a path to a PDF that
\* is not there comes from a rendering that failed (report_service.py:166-218).
THEOREM CompletedReportsHaveFiles == Spec => []CompletedReportHasItsFiles
<1>1. Init => FilesInv
  BY DEF Init, ReportInit, FilesInv, NoReport
<1>2. Base /\ NotedInv /\ FilesInv /\ [Next]_vars => FilesInv'
  BY FilesInvStep
<1>3. FilesInv => CompletedReportHasItsFiles
  BY DEF FilesInv, CompletedReportHasItsFiles, FromOrOverlap, Reports
<1>. QED
  BY <1>1, <1>2, <1>3, BaseInit, BaseStep, NotedInit, NotedStep, PTL DEF Spec

-----------------------------------------------------------------------------
(* Graph                                                                   *)

Crossed(r) == \E x \in Requests : gen[x].at # "none" /\ Overlapped(r, x)

Own(r) == [by |-> r, from |-> WithAbstract(r)]

\* From the moment it has written the folder a generation finds its own
\* abstracts and at most its own graph there, unless another crossed it.
FolderInv ==
  \A r \in Requests :
    /\ gen[r].at \in {"running", "reading", "exited"}
         => Crossed(r) \/ (input = WithAbstract(r) /\ output \in {NoGraph, Own(r)})
    /\ gen[r].at \in {"reading", "exited"} => Crossed(r) \/ gen[r].read = WithAbstract(r)
    /\ graphRun[r].nodes # NoGraph => gen[r].at = "ended"
    /\ graphRun[r].nodes \in {NoGraph, Own(r)} \/ Crossed(r)

\* A generation keeps its list of documents, and an overlap is not undone.
LEMMA GenMoves ==
  ASSUME Base, [Next]_vars, NEW r \in Requests, gen[r].at # "none"
  PROVE  /\ gen'[r].at # "none" /\ WithAbstract(r)' = WithAbstract(r)
         /\ Crossed(r) => Crossed(r)'
<1>0. /\ gen \in [Requests -> [at : Generating \cup {"none", "ended"},
                               docs : SUBSET Docs, read : SUBSET Docs]]
      /\ \A x \in Requests : gen[x].at # "none" => pc[x] # "idle"
  BY DEF Base, HandlerInv, NoneBut, Documents, TypeOK, GraphTypeOK
<1>1. ASSUME NEW x \in Requests, gen[x].at # "none"
      PROVE  gen'[x].at # "none" /\ gen'[x].docs = gen[x].docs
  <2>1. CASE gen'[x] = gen[x]
    BY <1>1, <2>1
  <2>2. CASE GraphStep(x)
    <3>1. CASE ListDocuments(x)
      BY <1>0, <1>1, <3>1 DEF ListDocuments, Served, Read, Go, graphVars
    <3>2. CASE Prepare(x)
      BY <1>0, <3>2 DEF Prepare, At
    <3>3. CASE ToolRead(x) \/ ToolExit(x)
      BY <1>0, <3>3 DEF ToolRead, ToolExit, At
    <3>4. CASE ToolFailed(x) \/ Import(x) \/ GenerationAborted(x)
      BY <1>0, <3>4 DEF ToolFailed, Import, GenerationAborted, Settle
    <3>. QED
      BY <2>2, <3>1, <3>2, <3>3, <3>4 DEF GraphStep
  <2>. QED
    BY <2>1, <2>2, GraphCourse DEF Next, vars, graphVars, Base, Documents
<1>2. Crossed(r) => Crossed(r)'
  BY <1>0, <1>1, OverlapKept DEF Crossed
<1>. QED
  BY <1>1, <1>2 DEF WithAbstract

\* The folder is nobody's.
LEMMA FolderInit == Init => FolderInv
  BY DEF Init, GraphInit, FolderInv

\* What a lone generation put into the folder, and the tool next to it, stays as
\* it was.
LEMMA FolderStep ==
  ASSUME Base, FolderInv, [Next]_vars
  PROVE  FolderInv'
<1>0. gen \in [Requests -> [at : Generating \cup {"none", "ended"},
                            docs : SUBSET Docs, read : SUBSET Docs]]
      /\ graphRun \in [Requests -> [status : {"absent", "completed", "failed"},
                                    nodes : Graphs]]
  BY DEF Base, Documents, TypeOK, GraphTypeOK
\* Another generation at work is one that crosses.
<1>1. ASSUME NEW r \in Requests, NEW x \in Requests, r # x,
             gen[r].at \in Generating, gen[x].at \in Generating
      PROVE  Crossed(r)
  BY <1>1, WorkOverlaps DEF Crossed, Generating, Base, HandlerInv
\* Who does not move, and does not see the folder change, keeps what it has.
<1>2. ASSUME NEW r \in Requests, gen'[r] = gen[r], graphRun'[r] = graphRun[r],
             gen[r].at \in Generating => UNCHANGED <<input, output>> \/ Crossed(r)
      PROVE  /\ gen'[r].at \in {"running", "reading", "exited"}
                  => Crossed(r)' \/ (input' = WithAbstract(r)' /\ output' \in {NoGraph, Own(r)'})
             /\ gen'[r].at \in {"reading", "exited"}
                  => Crossed(r)' \/ gen'[r].read = WithAbstract(r)'
             /\ graphRun'[r].nodes # NoGraph => gen'[r].at = "ended"
             /\ graphRun'[r].nodes \in {NoGraph, Own(r)'} \/ Crossed(r)'
  <2>1. CASE gen[r].at = "none"
    BY <1>2, <2>1 DEF FolderInv
  <2>2. CASE gen[r].at # "none"
    <3>1. Own(r)' = Own(r) /\ WithAbstract(r)' = WithAbstract(r) /\ (Crossed(r) => Crossed(r)')
      BY <2>2, GenMoves DEF Own
    <3>. QED
      BY <1>2, <3>1 DEF FolderInv, Generating
  <2>. QED
    BY <2>1, <2>2
<1>3. CASE UNCHANGED graphVars
  BY <1>2, <1>3 DEF graphVars, FolderInv
<1>4. ASSUME NEW x \in Requests, GraphStep(x) PROVE FolderInv'
  <2>1. ASSUME NEW r \in Requests \ {x}
        PROVE  /\ gen'[r] = gen[r] /\ graphRun'[r] = graphRun[r]
               /\ gen[r].at \in Generating => UNCHANGED <<input, output>> \/ Crossed(r)
    <3>1. gen'[r] = gen[r]
      BY <1>4, GraphCourse DEF Base, Documents
    <3>2. graphRun'[r] = graphRun[r]
      BY <1>0, <1>4 DEF GraphStep, ListDocuments, Prepare, ToolRead, ToolExit,
         ToolFailed, Import, GenerationAborted, Settle, graphVars
    <3>3. UNCHANGED <<input, output>> \/ gen[x].at \in Generating
      BY <1>4 DEF GraphStep, ListDocuments, Prepare, ToolRead, ToolExit,
         ToolFailed, Import, GenerationAborted, At, graphVars, Generating
    <3>. QED
      BY <1>1, <3>1, <3>2, <3>3
  <2>2. SUFFICES
          /\ gen'[x].at \in {"running", "reading", "exited"}
               => Crossed(x)' \/ (input' = WithAbstract(x)' /\ output' \in {NoGraph, Own(x)'})
          /\ gen'[x].at \in {"reading", "exited"}
               => Crossed(x)' \/ gen'[x].read = WithAbstract(x)'
          /\ graphRun'[x].nodes # NoGraph => gen'[x].at = "ended"
          /\ graphRun'[x].nodes \in {NoGraph, Own(x)'} \/ Crossed(x)'
    BY <1>2, <2>1 DEF FolderInv
  <2>3. gen[x].at # "none" =>
          /\ Own(x)' = Own(x) /\ WithAbstract(x)' = WithAbstract(x)
          /\ Crossed(x) => Crossed(x)'
    BY GenMoves DEF Own
  <2>4. CASE ListDocuments(x)
    <3>1. pc[x] = "idle" /\ gen[x].at = "none"
      BY <2>4 DEF ListDocuments, Served, Read, Go, Base, HandlerInv, NoneBut
    <3>2. graphRun' = graphRun /\ gen'[x].at \in {"none", "listed"}
      BY <1>0, <2>4, <3>1 DEF ListDocuments, graphVars
    <3>3. graphRun[x].nodes = NoGraph
      BY <3>1 DEF FolderInv
    <3>. QED
      BY <3>2, <3>3
  <2>5. CASE Prepare(x)
    <3>1. /\ gen[x].at = "listed" /\ gen'[x].at \in {"running", "ended"}
          /\ input' = WithAbstract(x) /\ output' = NoGraph /\ graphRun' = graphRun
      BY <1>0, <2>5 DEF Prepare, At
    <3>. QED
      BY <2>3, <3>1 DEF FolderInv
  <2>6. CASE ToolRead(x)
    <3>1. /\ gen[x].at = "running" /\ gen'[x].at = "reading" /\ gen'[x].read = input
          /\ UNCHANGED <<input, output, graphRun>>
      BY <1>0, <2>6 DEF ToolRead
    <3>. QED
      BY <2>3, <3>1 DEF FolderInv
  <2>7. CASE ToolExit(x)
    <3>1. /\ gen[x].at = "reading" /\ gen'[x].at = "exited" /\ gen'[x].read = gen[x].read
          /\ output' = [by |-> x, from |-> gen[x].read] \/ output' = output
          /\ UNCHANGED <<input, graphRun>>
      BY <1>0, <2>7 DEF ToolExit, At
    <3>. QED
      BY <2>3, <3>1 DEF FolderInv, Own
  <2>8. CASE ToolFailed(x) \/ Import(x)
    <3>1. /\ gen[x].at \in {"running", "reading", "exited"} /\ gen'[x].at = "ended"
          /\ UNCHANGED <<input, output>>
      BY <1>0, <2>8 DEF ToolFailed, Import, Settle
    <3>2. graphRun'[x].nodes \in {output, NoGraph}
      <4>1. \E status : \E nodes \in {output, NoGraph} : Settle(x, status, nodes)
        BY <2>8 DEF ToolFailed, Import
      <4>. QED
        BY <1>0, <4>1 DEF Settle
    <3>. QED
      BY <2>3, <3>1, <3>2 DEF FolderInv
  <2>9. CASE GenerationAborted(x)
    <3>1. gen[x].at \in Generating /\ gen'[x].at = "ended" /\ graphRun' = graphRun
      BY <1>0, <2>9 DEF GenerationAborted
    <3>. QED
      BY <2>3, <3>1 DEF FolderInv, Generating
  <2>. QED
    BY <1>4, <2>4, <2>5, <2>6, <2>7, <2>8, <2>9 DEF GraphStep
<1>. QED
  BY <1>3, <1>4 DEF Next, vars, graphVars

\* The nodes of a run come from its own tool and from the documents it listed,
\* unless another generation overlapped (graph_service.py:75-79, 165-187).
THEOREM GraphsAreTheirOwn == Spec => []GraphFromOverlapOnly
<1>1. FolderInv => GraphFromOverlapOnly
  BY DEF FolderInv, GraphFromOverlapOnly, Own, Crossed
<1>. QED
  BY <1>1, BaseInit, BaseStep, FolderInit, FolderStep, PTL DEF Spec

-----------------------------------------------------------------------------
(* Corpus                                                                  *)

\* A rebuild ends with the summary or goes on to another document.
LEMMA GoOnMoves ==
  ASSUME job \in [Requests -> Job], NEW r \in Requests, NEW todo, NEW added,
         NEW cleared, GoOn(r, todo, added, cleared)
  PROVE  \/ /\ todo = {} /\ job'[r].at = "summing"
            /\ meta' = [included |-> added, tests |-> FALSE]
         \/ /\ job'[r].at = "downloading" /\ job'[r].doc \in todo
            /\ job'[r].todo = todo \ {job'[r].doc} /\ job'[r].added = added
<1>1. CASE todo = {}
  <2>1. /\ job' = [job EXCEPT ![r] = [@ EXCEPT !.at = "summing", !.doc = NoDoc,
                                         !.added = added]]
        /\ meta' = [included |-> added, tests |-> FALSE]
    BY <1>1 DEF GoOn
  <2>. QED
    BY <1>1, <2>1 DEF Job
<1>2. CASE todo # {}
  <2>1. PICK d \in todo :
          job' = [job EXCEPT ![r] = [@ EXCEPT !.at = "downloading", !.todo = todo \ {d},
                                       !.doc = d, !.added = added]]
    BY <1>2 DEF GoOn
  <2>. QED
    BY <2>1 DEF Job
<1>. QED
  BY <1>1, <1>2

\* As committed for request s: uploaded before, and not deleted or queued by
\* what was over then.
CurrentFor(s, d) ==
  /\ d \in Stored \/ (d \in after[s] /\ pc[d] = "done")
  /\ \A x \in after[s] : d \in target[x] => pc[x] \notin {"done", "queued"}

Ahead(r) ==
  job[r].todo \cup (IF Working(r) THEN {job[r].doc} ELSE {})

\* What a rebuild has before it, and what it has written, was current for it;
\* a collected document never gets a text.
CurrentInv ==
  /\ \A d \in Collected : ~row[d].text
  /\ \A r \in Requests : job[r].at = "listed" \/ Working(r)
       => \A d \in Ahead(r) : CurrentFor(r, d)
  /\ \A d \in texts : CurrentFor(source[d], d) /\ pc[source[d]] # "idle"

\* What was current for a rebuild stays so: who was over then does nothing more.
LEMMA CurrentKept ==
  ASSUME Base, [Next]_vars, NEW s \in Requests, pc[s] # "idle", NEW d, CurrentFor(s, d)
  PROVE  CurrentFor(s, d)'
<1>0. after \in [Requests -> SUBSET Requests] /\ pc \in [Requests -> Places]
  BY DEF Base, Documents, TypeOK, DocTypeOK
<1>1. after'[s] = after[s]
  BY AfterKept
<1>2. ASSUME NEW x \in after[s]
      PROVE  pc[x] \in Over /\ pc'[x] = pc[x] /\ target'[x] = target[x]
  <2>1. x \in Requests /\ pc[x] \in Over
    BY <1>0 DEF Base, Documents, DocInv, OverInv
  <2>2. ASSUME NEW y \in Requests, DocMove(y) PROVE pc'[x] = pc[x] /\ target'[x] = target[x]
    BY <2>1, <2>2, Advance DEF Base, Documents, TypeOK, DocTypeOK, Over
  <2>. QED
    BY <2>1, <2>2, Moves DEF docVars
<1>. QED
  BY <1>1, <1>2 DEF CurrentFor

\* What a rebuild has listed and not yet downloaded was current when it read.
LEMMA CurrentStep ==
  ASSUME Base, CurrentInv, [Next]_vars
  PROVE  CurrentInv'
<1>0. /\ job \in [Requests -> Job] /\ texts \in SUBSET Docs
      /\ source \in [texts -> Requests]
      /\ row \in [Docs -> [status : {"absent", "pending", "extracted"},
                           original : BOOLEAN, text : BOOLEAN,
                           checksum : Files \cup {NoFile}]]
      /\ folders \in SUBSET Docs
  BY DEF Base, Documents, TypeOK, CorpusTypeOK, DocTypeOK
<1>1. \A d \in Collected : ~row'[d].text
  <2>1. ASSUME NEW r \in Requests, DocMove(r), NEW d \in Collected
        PROVE  ~row'[d].text
    <3>1. d # r /\ d \in Docs /\ ~row[d].text
      BY DocsAssumption DEF Docs, CurrentInv
    <3>2. CASE CommitUpload(r) \/ AddUrl(r)
      BY <1>0, <3>1, <3>2 DEF CommitUpload, AddUrl
    <3>3. CASE CommitDelete(r)
      BY <3>1, <3>3 DEF CommitDelete, Absent
    <3>4. CASE CommitReprocess(r)
      BY <1>0, <3>1, <3>4 DEF CommitReprocess
    <3>5. CASE UNCHANGED row
      BY <3>1, <3>5
    <3>. QED
      BY <2>1, <3>2, <3>3, <3>4, <3>5
      DEF DocMove, DocStep, Taken, Left, Finished, Upload, PutOriginal,
          ExtractNothing, PutText, Delete, Reprocess, Purge, Abort
  <2>. QED
    BY <2>1, Moves DEF docVars, CurrentInv
<1>2. ASSUME NEW r \in Requests, job'[r] = job[r], job[r].at = "listed" \/ Working(r),
             NEW d \in Ahead(r)'
      PROVE  CurrentFor(r, d)'
  <2>1. pc[r] # "idle"
    BY <1>2 DEF Base, HandlerInv, Rebuilding, Working
  <2>. QED
    BY <1>2, <2>1, CurrentKept DEF CurrentInv, Ahead, Working
<1>3. ASSUME NEW d \in texts
      PROVE  CurrentFor(source[d], d)' \/ source'[d] # source[d]
  <2>1. PICK s \in Requests : s = source[d]
    BY <1>0
  <2>2. CurrentFor(s, d)'
    BY <2>1, CurrentKept DEF CurrentInv
  <2>. QED
    BY <2>1, <2>2 DEF CurrentFor
<1>4. ASSUME NEW d \in texts PROVE pc'[source[d]] # "idle"
  BY <1>0, AfterKept DEF CurrentInv
<1>5. CASE UNCHANGED corpusVars
  BY <1>1, <1>2, <1>3, <1>4, <1>5 DEF corpusVars, CurrentInv, Working
<1>6. ASSUME NEW r \in Requests, CorpusStep(r) PROVE CurrentInv'
  <2>1. \A x \in Requests \ {r} : job'[x] = job[x]
    BY <1>6, CorpusCourse DEF Base, Documents
  <2>2. ASSUME job'[r].at = "listed" \/ Working(r)' => \A d \in Ahead(r)' : CurrentFor(r, d)',
               \A d \in texts' : CurrentFor(source[d], d)' /\ pc'[source'[d]] # "idle"
        PROVE  CurrentInv'
    BY <1>1, <1>2, <2>1, <2>2 DEF CurrentInv, Working
  <2>3. ASSUME UNCHANGED <<texts, source>>
        PROVE  \A d \in texts' : CurrentFor(source[d], d)' /\ pc'[source'[d]] # "idle"
    BY <1>3, <1>4, <2>3
  <2>4. CASE RebuildList(r)
    <3>1. job'[r].at = "listed" /\ job'[r].todo = Listed
      BY <1>0, <2>4 DEF RebuildList, NoJob
    <3>2. /\ pc[r] = "idle" /\ pc' = [pc EXCEPT ![r] = "elsewhere"]
          /\ after' = [after EXCEPT ![r] = {x \in Requests : pc[x] \in Over}]
          /\ target' = [target EXCEPT ![r] = {}]
      BY <2>4 DEF RebuildList, Served, Read, Go
    <3>3. /\ pc \in [Requests -> Places] /\ target \in [Requests -> SUBSET Docs]
          /\ after \in [Requests -> SUBSET Requests]
      BY DEF Base, Documents, TypeOK, DocTypeOK
    <3>4. after'[r] = {x \in Requests : pc[x] \in Over} /\ r \notin after'[r]
      BY <3>2, <3>3 DEF Over
    <3>5. \A x \in Requests \ {r} : pc'[x] = pc[x] /\ target'[x] = target[x]
      BY <3>2, <3>3
    <3>6. ASSUME NEW d \in Listed PROVE CurrentFor(r, d)'
      <4>1. d \in Docs /\ row[d].status = "extracted" /\ row[d].text
        BY DEF Listed, Rows
      <4>2. d \in Stored \/ (d \in Requests /\ pc[d] = "done")
        BY <4>1 DEF CurrentInv, Docs, Base, Documents, DocInv, RowInv
      <4>3. ASSUME NEW x \in Requests, d \in target[x] PROVE pc[x] \notin {"done", "queued"}
        BY <4>1, <4>3 DEF Base, Documents, DocInv, TargetInv
      <4>. QED
        BY <3>2, <3>4, <3>5, <4>2, <4>3 DEF CurrentFor, Over
    <3>7. \A d \in Ahead(r)' : d \in Listed
      BY <3>1 DEF Ahead, Working
    <3>8. UNCHANGED <<texts, source>>
      BY <2>4 DEF RebuildList
    <3>. QED
      BY <2>2, <2>3, <3>6, <3>7, <3>8
  <2>5. CASE RebuildClear(r)
    <3>1. PICK todo : todo = job[r].todo /\ \E added, cleared : GoOn(r, todo, added, cleared)
      BY <2>5 DEF RebuildClear
    <3>2. \/ job'[r].at = "summing"
          \/ /\ job'[r].at = "downloading" /\ job'[r].doc \in todo
             /\ job'[r].todo = todo \ {job'[r].doc}
      BY <1>0, <3>1, GoOnMoves
    <3>3. job[r].at = "listed" /\ pc[r] # "idle"
      BY <2>5 DEF RebuildClear, Base, HandlerInv, Rebuilding
    <3>4. \A d \in todo : CurrentFor(r, d)'
      BY <3>1, <3>3, CurrentKept DEF CurrentInv, Ahead
    <3>5. texts' = {}
      BY <2>5 DEF RebuildClear
    <3>. QED
      BY <2>2, <3>2, <3>4, <3>5 DEF Ahead, Working
  <2>6. CASE Download(r)
    <3>1. /\ job[r].at = "downloading" /\ job'[r].at = "writing"
          /\ job'[r].todo = job[r].todo /\ job'[r].doc = job[r].doc
          /\ UNCHANGED <<texts, source>>
      BY <1>0, <2>6 DEF Download, Job
    <3>2. pc[r] # "idle"
      BY <3>1 DEF Base, HandlerInv, Rebuilding
    <3>3. \A d \in Ahead(r) : CurrentFor(r, d)'
      BY <3>1, <3>2, CurrentKept DEF CurrentInv, Working
    <3>. QED
      BY <2>2, <2>3, <3>1, <3>3 DEF Ahead, Working
  <2>7. CASE WriteText(r)
    <3>1. PICK todo : todo = job[r].todo /\ \E added, cleared : GoOn(r, todo, added, cleared)
      BY <2>7 DEF WriteText, Write
    <3>2. \/ job'[r].at = "summing"
          \/ /\ job'[r].at = "downloading" /\ job'[r].doc \in todo
             /\ job'[r].todo = todo \ {job'[r].doc}
      BY <1>0, <3>1, GoOnMoves
    <3>3. job[r].at = "writing" /\ pc[r] # "idle" /\ UNCHANGED pc
      BY <2>7 DEF WriteText, Write, docVars, Base, HandlerInv, Rebuilding
    <3>4. \A d \in todo \cup {job[r].doc} : CurrentFor(r, d)'
      BY <3>1, <3>3, CurrentKept DEF CurrentInv, Ahead, Working
    <3>5. \/ UNCHANGED <<texts, source>>
          \/ /\ texts' = texts \cup {job[r].doc}
             /\ source' = [d \in texts' |-> IF d = job[r].doc THEN r ELSE source[d]]
      BY <2>7 DEF WriteText, Write
    <3>6. CASE UNCHANGED <<texts, source>>
      BY <2>2, <2>3, <3>2, <3>4, <3>6 DEF Ahead, Working
    <3>7. CASE /\ texts' = texts \cup {job[r].doc}
               /\ source' = [d \in texts' |-> IF d = job[r].doc THEN r ELSE source[d]]
      <4>1. ASSUME NEW d \in texts'
            PROVE  CurrentFor(source[d], d)' /\ pc'[source'[d]] # "idle"
        <5>1. CASE d = job[r].doc
          <6>1. source'[d] = r
            BY <3>7, <5>1
          <6>. QED
            BY <3>3, <3>4, <5>1, <6>1 DEF CurrentFor
        <5>2. CASE d # job[r].doc
          BY <1>3, <1>4, <3>7, <5>2
        <5>. QED
          BY <5>1, <5>2
      <4>. QED
        BY <2>2, <3>2, <3>4, <4>1 DEF Ahead, Working
    <3>. QED
      BY <3>5, <3>6, <3>7
  <2>8. CASE Summarise(r) \/ CutShort(r)
    <3>1. job'[r].at \in {"ended", "cut"} /\ UNCHANGED <<texts, source>>
      BY <1>0, <2>8 DEF Summarise, CutShort, Job
    <3>. QED
      BY <2>2, <2>3, <3>1 DEF Working
  <2>9. CASE Seed(r)
    BY <1>1, <1>2, <1>3, <1>4, <2>9 DEF Seed, CurrentInv, Working
  <2>. QED
    BY <1>6, <2>4, <2>5, <2>6, <2>7, <2>8, <2>9 DEF CorpusStep
<1>. QED
  BY <1>5, <1>6 DEF Next, vars, corpusVars

\* A text in the corpus is of a document that was committed as extracted when
\* the rebuild that wrote it read the documents (corpus_service.py:120-121,
\* document_service.py:283).
THEOREM CorpusTextsCurrent == Spec => []CorpusTextsWereCurrent
<1>1. Init => CurrentInv
  BY DocsAssumption DEF Init, DocInit, CorpusInit, CurrentInv, NoJob, Working, Absent, Docs
<1>2. Base /\ CurrentInv /\ [Next]_vars => CurrentInv'
  BY CurrentStep
<1>3. CurrentInv => CorpusTextsWereCurrent
  BY DEF CurrentInv, CorpusTextsWereCurrent, CurrentFor
<1>. QED
  BY <1>1, <1>2, <1>3, BaseInit, BaseStep, PTL DEF Spec

\* A rebuild that is alone counts what it writes: it has not written yet what
\* lies before it.
CountInv ==
  ~disturbed =>
    \A r \in Requests : Working(r) =>
      /\ ~OtherWorking(r) /\ ~testDocs
      /\ IsFiniteSet(texts) /\ job[r].added = Cardinality(texts)
      /\ job[r].doc \notin job[r].todo
      /\ texts \cap (job[r].todo \cup {job[r].doc}) = {}

\* A lone rebuild counts each text it writes once.
LEMMA CountStep ==
  ASSUME Base, CountInv, MetaTellsCorpus, [Next]_vars
  PROVE  CountInv' /\ MetaTellsCorpus'
<1>0. job \in [Requests -> Job] /\ meta \in [included : Nat, tests : BOOLEAN]
  BY DEF Base, Documents, TypeOK, CorpusTypeOK
<1>1. CASE UNCHANGED corpusVars
  BY <1>1 DEF corpusVars, CountInv, MetaTellsCorpus, Working, OtherWorking
<1>2. ASSUME NEW r \in Requests, CorpusStep(r) PROVE CountInv' /\ MetaTellsCorpus'
  <2>1. \A x \in Requests \ {r} : job'[x] = job[x]
    BY <1>2, CorpusCourse DEF Base, Documents
  <2>2. \A x \in Requests \ {r} : Working(x)' <=> Working(x)
    BY <2>1 DEF Working
  \* A step that leaves the texts, the metadata and the rebuilds at work alone.
  <2>3. ASSUME UNCHANGED <<texts, testDocs, meta>>, ~disturbed' => ~disturbed,
               Working(r)' => /\ Working(r)
                              /\ job'[r].todo = job[r].todo /\ job'[r].doc = job[r].doc
                              /\ job'[r].added = job[r].added,
               ~disturbed' => (Working(r) => Working(r)')
        PROVE  CountInv' /\ MetaTellsCorpus'
    <3>1. ~disturbed' => \A x \in Requests : Working(x)' <=> Working(x)
      BY <2>2, <2>3
    <3>2. ASSUME ~disturbed' PROVE \A x \in Requests : OtherWorking(x)' => OtherWorking(x)
      BY <3>1, <3>2 DEF OtherWorking
    <3>3. CountInv'
      BY <2>1, <2>3, <3>1, <3>2 DEF CountInv
    <3>. QED
      BY <2>3, <3>1, <3>3 DEF MetaTellsCorpus
  \* After the write or the removal: the rebuild is alone and has counted right.
  <2>4. ASSUME NEW todo, NEW added, NEW cleared, GoOn(r, todo, added, cleared),
               ~disturbed' => /\ ~OtherWorking(r) /\ ~testDocs'
                              /\ IsFiniteSet(texts') /\ added = Cardinality(texts')
                              /\ texts' \cap todo = {}
        PROVE  CountInv' /\ MetaTellsCorpus'
    <3>1. \/ /\ todo = {} /\ job'[r].at = "summing"
             /\ meta' = [included |-> added, tests |-> FALSE]
          \/ /\ job'[r].at = "downloading" /\ job'[r].doc \in todo
             /\ job'[r].todo = todo \ {job'[r].doc} /\ job'[r].added = added
      BY <1>0, <2>4, GoOnMoves
    <3>2. ASSUME ~disturbed' PROVE \A x \in Requests \ {r} : ~Working(x)'
      BY <2>2, <2>4, <3>2 DEF OtherWorking
    <3>3. CASE job'[r].at = "summing"
      <4>1. ~Working(r)'
        BY <3>3 DEF Working
      <4>2. meta' = [included |-> added, tests |-> FALSE]
        BY <3>1, <3>3
      <4>3. testDocs' \in BOOLEAN
        BY BaseStep DEF Base, Documents, TypeOK, CorpusTypeOK
      <4>4. CountInv'
        BY <3>2, <4>1 DEF CountInv
      <4>5. ~disturbed' => meta' = [included |-> Cardinality(texts'), tests |-> testDocs']
        BY <2>4, <4>2, <4>3
      <4>. QED
        BY <4>4, <4>5 DEF MetaTellsCorpus
    <3>4. CASE job'[r].at = "downloading"
      <4>1. Working(r)'
        BY <3>4 DEF Working
      <4>2. job'[r].doc \in todo /\ job'[r].todo = todo \ {job'[r].doc} /\ job'[r].added = added
        BY <3>1, <3>4
      <4>3. CountInv'
        <5>. SUFFICES ASSUME ~disturbed', NEW x \in Requests, Working(x)'
             PROVE  /\ ~OtherWorking(x)' /\ ~testDocs'
                    /\ IsFiniteSet(texts') /\ job'[x].added = Cardinality(texts')
                    /\ job'[x].doc \notin job'[x].todo
                    /\ texts' \cap (job'[x].todo \cup {job'[x].doc}) = {}
          BY DEF CountInv
        <5>1. x = r
          BY <3>2
        <5>2. ~OtherWorking(r)'
          BY <3>2 DEF OtherWorking
        <5>3. job'[r].todo \cup {job'[r].doc} = todo
          BY <4>2
        <5>. QED
          BY <2>4, <4>2, <5>1, <5>2, <5>3
      <4>. QED
        BY <4>1, <4>3 DEF MetaTellsCorpus
    <3>. QED
      BY <3>1, <3>3, <3>4
  <2>5. CASE RebuildList(r)
    <3>1. job'[r].at = "listed" /\ UNCHANGED <<texts, testDocs, meta, disturbed>>
      BY <1>0, <2>5 DEF RebuildList, NoJob
    <3>2. ~Working(r)
      BY <2>5 DEF RebuildList, Served, Read, Go, Working, Base, HandlerInv, NoneBut
    <3>. QED
      BY <2>3, <3>1, <3>2 DEF Working
  <2>6. CASE RebuildClear(r)
    <3>1. /\ GoOn(r, job[r].todo, 0, {}) /\ texts' = {} /\ testDocs' = FALSE
          /\ disturbed' = OtherWorking(r)
      BY <2>6 DEF RebuildClear
    <3>2. IsFiniteSet({}) /\ Cardinality({}) = 0
      BY FS_EmptySet
    <3>. QED
      BY <2>4, <3>1, <3>2
  <2>7. CASE Download(r)
    <3>1. /\ job[r].at = "downloading" /\ job'[r].at = "writing"
          /\ job'[r].todo = job[r].todo /\ job'[r].doc = job[r].doc
          /\ job'[r].added = job[r].added
          /\ UNCHANGED <<texts, testDocs, meta, disturbed>>
      BY <1>0, <2>7 DEF Download, Job
    <3>. QED
      BY <2>3, <3>1 DEF Working
  <2>8. CASE WriteText(r)
    <3>1. PICK written \in BOOLEAN :
            /\ GoOn(r, job[r].todo, job[r].added + (IF written THEN 1 ELSE 0), folders)
            /\ texts' = IF written THEN texts \cup {job[r].doc} ELSE texts
            /\ UNCHANGED <<testDocs, disturbed>>
      <4>1. CASE job[r].got /\ job[r].doc \in folders
        BY <2>8, <4>1 DEF WriteText, Write
      <4>2. CASE ~(job[r].got /\ job[r].doc \in folders)
        BY <2>8, <4>2 DEF WriteText, Write
      <4>. QED
        BY <4>1, <4>2
    <3>2. ASSUME ~disturbed'
          PROVE  /\ ~OtherWorking(r) /\ ~testDocs
                 /\ IsFiniteSet(texts) /\ job[r].added = Cardinality(texts)
                 /\ job[r].doc \notin job[r].todo
                 /\ texts \cap (job[r].todo \cup {job[r].doc}) = {}
      BY <2>8, <3>1, <3>2 DEF CountInv, Working, WriteText, Write
    <3>3. ASSUME ~disturbed'
          PROVE  /\ IsFiniteSet(texts')
                 /\ job[r].added + (IF written THEN 1 ELSE 0) = Cardinality(texts')
                 /\ texts' \cap job[r].todo = {}
      <4>1. CASE written
        <5>1. /\ IsFiniteSet(texts \cup {job[r].doc})
              /\ Cardinality(texts \cup {job[r].doc}) = Cardinality(texts) + 1
          BY <3>2, <3>3, FS_AddElement
        <5>. QED
          BY <3>1, <3>2, <3>3, <4>1, <5>1
      <4>2. CASE ~written
        <5>1. job[r].added \in Nat
          BY <1>0 DEF Job
        <5>. QED
          BY <3>1, <3>2, <3>3, <4>2, <5>1
      <4>. QED
        BY <4>1, <4>2
    <3>. QED
      BY <2>4, <3>1, <3>2, <3>3
  <2>9. CASE Summarise(r)
    <3>1. job[r].at = "summing" /\ job'[r].at = "ended"
          /\ UNCHANGED <<texts, testDocs, meta, disturbed>>
      BY <1>0, <2>9 DEF Summarise, Job
    <3>. QED
      BY <2>3, <3>1 DEF Working
  <2>10. CASE CutShort(r)
    <3>1. job'[r].at = "cut" /\ disturbed' = (disturbed \/ Working(r))
          /\ UNCHANGED <<texts, testDocs, meta>>
      BY <1>0, <2>10 DEF CutShort, Job
    <3>2. ~Working(r)'
      BY <3>1 DEF Working
    <3>3. ~disturbed' => ~disturbed /\ ~Working(r)
      BY <3>1
    <3>. QED
      BY <2>3, <3>1, <3>2, <3>3
  <2>11. CASE Seed(r)
    <3>1. /\ UNCHANGED <<texts, job>> /\ testDocs' = TRUE
          /\ meta' = [meta EXCEPT !.tests = TRUE]
          /\ disturbed' = (disturbed \/ OtherWorking(r))
      BY <2>11 DEF Seed
    <3>2. ~Working(r)
      BY <2>11 DEF Seed, Read, Go, Working, Base, HandlerInv, NoneBut
    <3>3. ASSUME ~disturbed' PROVE ~disturbed /\ \A x \in Requests : ~Working(x)
      BY <3>1, <3>2, <3>3 DEF OtherWorking
    <3>4. CountInv'
      BY <3>1, <3>3 DEF CountInv, Working
    <3>5. ASSUME ~disturbed' PROVE meta' = [included |-> Cardinality(texts'), tests |-> testDocs']
      <4>1. meta = [included |-> Cardinality(texts), tests |-> testDocs]
        BY <3>3, <3>5 DEF MetaTellsCorpus
      <4>. QED
        BY <3>1, <4>1
    <3>. QED
      BY <3>4, <3>5 DEF MetaTellsCorpus
  <2>. QED
    BY <1>2, <2>5, <2>6, <2>7, <2>8, <2>9, <2>10, <2>11 DEF CorpusStep
<1>. QED
  BY <1>1, <1>2 DEF Next, vars, corpusVars

\* Between rebuilds the metadata tells what is in the folder if the last one
\* was alone in it (corpus_service.py:130-182).
THEOREM MetaTellsTheCorpus == Spec => []MetaTellsCorpus
<1>1. Init => CountInv /\ MetaTellsCorpus
  <2> SUFFICES ASSUME Init PROVE CountInv /\ MetaTellsCorpus
    OBVIOUS
  <2>1. \A r \in Requests : ~Working(r)
    BY DEF Init, CorpusInit, NoJob, Working
  <2>2. meta = [included |-> Cardinality(texts), tests |-> testDocs]
    BY FS_EmptySet DEF Init, CorpusInit
  <2>. QED
    BY <2>1, <2>2 DEF CountInv, MetaTellsCorpus
<1>. QED
  BY <1>1, CountStep, BaseInit, BaseStep, PTL DEF Spec

=============================================================================
