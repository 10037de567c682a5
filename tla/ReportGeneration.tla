-------------------------- MODULE ReportGeneration --------------------------
(***************************************************************************)
(* Reports of a project (api/app/services/report_service.py): a row, and   *)
(* an HTML, a Markdown and perhaps a PDF file in a folder of the report.   *)
(* A report is generated anew under its own names, so the files of an      *)
(* earlier generation are written over, outside of any transaction.        *)
(*                                                                         *)
(* A report is named by the request that created it.                       *)
(***************************************************************************)
EXTENDS DocumentStore

CONSTANTS
  PdfInstalled,   \* whether weasyprint can be imported
  NoOne

ASSUME NoOneAssumption == NoOne \notin Requests

VARIABLES
  report,   \* committed rows; `by`: the request that wrote the row last
  html, markdown, pdf,   \* for each report: the generation its file is from
  making    \* each generation: its place, its report, how the files came out

reportVars == <<report, html, markdown, pdf, making>>

Makers == Requests \cup {NoOne}

ReportTypeOK ==
  /\ report \in [Requests -> [status : {"absent", "completed", "failed"},
                              by : Makers, paths : BOOLEAN, pdfPath : BOOLEAN]]
  /\ html \in [Requests -> Makers] /\ markdown \in [Requests -> Makers]
  /\ pdf \in [Requests -> Makers]
  /\ making \in [Requests ->
       [at : {"none", "reading", "written", "failing", "deleting", "ended"},
        report : Makers, pdf : {"none", "written", "failed"}, half : BOOLEAN]]

NoReport == [status |-> "absent", by |-> NoOne, paths |-> FALSE,
             pdfPath |-> FALSE]

ReportInit ==
  /\ report = [r \in Requests |-> NoReport]
  /\ html = [r \in Requests |-> NoOne]
  /\ markdown = [r \in Requests |-> NoOne]
  /\ pdf = [r \in Requests |-> NoOne]
  /\ making = [r \in Requests |-> [at |-> "none", report |-> NoOne,
                                   pdf |-> "none", half |-> FALSE]]

files == <<html, markdown, pdf>>

Reports == {d \in Requests : report[d].status # "absent"}

-----------------------------------------------------------------------------

Turn(r, from, to) == making[r].at = from /\ making' = [making EXCEPT ![r].at = to]

Begins(r, d, at) ==
  /\ Served(r)
  /\ making' = [making EXCEPT ![r].at = at, ![r].report = d]
  /\ UNCHANGED <<report, files>>

\* A new row is inserted with status generating, seen by this request alone.
CreateReport(r) == Begins(r, r, "reading")

\* The row of the report is left as it is until the end.
Regenerate(r) == \E d \in Reports : Begins(r, d, "reading")

\* The files stay where they are.
DeleteReport(r) == \E d \in Reports : Begins(r, d, "deleting")

Written(d, r, withPdf) ==
  /\ html' = [html EXCEPT ![d] = r]
  /\ markdown' = [markdown EXCEPT ![d] = r]
  /\ pdf' = IF withPdf THEN [pdf EXCEPT ![d] = r] ELSE pdf

\* Mutant: the HTML is written in a step of its own, before the PDF is
\* rendered in another thread.
WriteFilesApart(r) ==
  LET d == making[r].report IN
  /\ making[r].at = "reading"
  /\ \/ html' = [html EXCEPT ![d] = r] /\ UNCHANGED <<markdown, pdf, making>>
     \/ /\ \E x \in Requests : html[x] = r
        /\ making' = [making EXCEPT ![r].at = "written"]
        /\ markdown' = [markdown EXCEPT ![d] = r]
        /\ UNCHANGED <<html, pdf>>
  /\ UNCHANGED <<report, docVars>>

\* Mutant: files that are there are not written again.
WriteMissingFiles(r) ==
  /\ Turn(r, "reading", "written")
  /\ IF html[making[r].report] = NoOne
     THEN Written(making[r].report, r, FALSE)
     ELSE UNCHANGED files
  /\ UNCHANGED <<report, docVars>>

\* After the last SELECT: the three files, without an await in between.  A PDF
\* that cannot be rendered is logged only, and its path is kept.
WriteFiles(r) ==
  /\ making[r].at = "reading"
  /\ \E p \in IF PdfInstalled THEN {"written", "failed"} ELSE {"none"} :
       /\ making' = [making EXCEPT ![r].at = "written", ![r].pdf = p]
       /\ Written(making[r].report, r, p = "written")
  /\ UNCHANGED <<report, docVars>>

\* The data cannot be read or a file cannot be written: before the HTML file,
\* or between the HTML and the Markdown file.
GenerationFails(r) ==
  /\ making[r].at = "reading"
  /\ \E half \in BOOLEAN :
       /\ making' = [making EXCEPT ![r].at = "failing", ![r].half = half]
       /\ html' = IF half THEN [html EXCEPT ![making[r].report] = r] ELSE html
  /\ UNCHANGED <<markdown, pdf, report, docVars>>

\* An UPDATE needs the row; the INSERT of a new report does not.
RowThere(r) == making[r].report \in Reports \cup {r}

\* Status failed; the paths of an earlier generation stay in the row.
CommitFailure(r) ==
  /\ RowThere(r)
  /\ Turn(r, "failing", "ended")
  /\ report' = [report EXCEPT ![making[r].report] =
                  [@ EXCEPT !.status = "failed", !.by = r]]
  /\ Finished(r, "done")
  /\ UNCHANGED files

\* Status completed and the paths; without weasyprint the path of a PDF stays
\* what it was.
CommitReport(r) ==
  /\ RowThere(r)
  /\ Turn(r, "written", "ended")
  /\ report' = [report EXCEPT ![making[r].report] =
                  [status |-> "completed", by |-> r, paths |-> TRUE,
                   pdfPath |-> @.pdfPath \/ making[r].pdf # "none"]]
  /\ Finished(r, "done")
  /\ UNCHANGED files

CommitReportDeletion(r) ==
  /\ Turn(r, "deleting", "ended")
  /\ report' = [report EXCEPT ![making[r].report] = NoReport]
  /\ Finished(r, "done")
  /\ UNCHANGED files

\* The row is gone (the flush raises, and so does the one that would record
\* it), the connection is lost, or the process ends.
ReportAborted(r) ==
  /\ making[r].at \in {"reading", "written", "failing", "deleting"}
  /\ making' = [making EXCEPT ![r].at = "ended"]
  /\ Finished(r, "aborted")
  /\ UNCHANGED <<report, files>>

ReportStep(r) ==
  \/ CreateReport(r) \/ Regenerate(r) \/ DeleteReport(r)
  \/ WriteFiles(r) \/ GenerationFails(r)
  \/ CommitReport(r) \/ CommitFailure(r) \/ CommitReportDeletion(r)
  \/ ReportAborted(r)

ReportNext ==
  \/ \E r \in Requests : ReportStep(r)
  \/ DocNext /\ UNCHANGED reportVars

ReportSpec ==
  DocInit /\ ReportInit /\ [][ReportNext]_<<docVars, reportVars>>

-----------------------------------------------------------------------------
(* Properties                                                              *)

\* The HTML and the Markdown of a report are from one generation, whatever
\* overlapped, unless a generation failed between the two files
\* (report_service.py:166-218).
ReportFilesAgree ==
  \A d \in Requests :
    html[d] # markdown[d] =>
      \E r \in Requests : making[r].report = d /\ making[r].half

\* The files of a completed report are from the generation that wrote its row,
\* or from one that overlapped with it, was aborted, or failed: a row is never
\* left behind by a generation that came later and was committed as completed.
CompletedReportHasItsFiles ==
  \A d \in Reports : report[d].status = "completed" =>
    /\ html[d] # NoOne /\ markdown[d] # NoOne
    /\ \/ markdown[d] = report[d].by
       \/ Overlapped(markdown[d], report[d].by)
       \/ pc[markdown[d]] # "done"
    /\ pdf[d] = NoOne /\ report[d].pdfPath
         => \E r \in Requests : making[r].report = d /\ making[r].pdf = "failed"

=============================================================================
