--------------------------- MODULE DocumentStore ---------------------------
(***************************************************************************)
(* The documents of one project in two stores: rows in Postgres and        *)
(* objects in S3 (api/app/services/document_service.py).                   *)
(*                                                                         *)
(* A request is one transaction, but what it puts into S3 or removes from  *)
(* it is there at once and is never taken back.  The last flush of a       *)
(* handler and the commit after it are one action: what lies between is    *)
(* visible to nobody, and a request that would write the same row waits.   *)
(*                                                                         *)
(* A document is named by the request that uploads it; a file stands for   *)
(* its bytes, and so for its checksum.                                     *)
(***************************************************************************)
EXTENDS FiniteSets

CONSTANTS
  Requests,     \* requests that clients send, in any order
  Stored,       \* documents of this project at the start, with their objects
  Collected,    \* documents that a collection added: an abstract, no file
  Files,        \* what clients upload
  PdfFiles,     \* those with extension .pdf and the PDF header
  BadFiles,     \* those of another type, too large or without the header
  StoredFile,   \* function from Stored: the file each was uploaded from
  NoFile, NoDoc

Docs == Requests \cup Stored \cup Collected

ASSUME FilesAssumption ==
  /\ PdfFiles \subseteq Files /\ BadFiles \subseteq Files \ PdfFiles
  /\ StoredFile \in [Stored -> Files \ BadFiles] /\ NoFile \notin Files
  /\ \A s, t \in Stored : StoredFile[s] = StoredFile[t] => s = t
ASSUME DocsAssumption ==
  /\ Requests \cap (Stored \cup Collected) = {} /\ Stored \cap Collected = {}
  /\ NoDoc \notin Docs

VARIABLES
  row,      \* committed rows of documents
  objects,  \* S3: <<document, "original">> and <<document, "text">>
  pc,       \* where each request is
  file,     \* the file an upload carries
  target,   \* the document a request has read and is about to write
  removed,  \* objects that this request's delete_files took out of S3 
  after     \* history: the requests that were over when this one read

docVars == <<row, objects, pc, file, target, removed, after>>

-----------------------------------------------------------------------------

Keys(d) == {<<d, "original">>, <<d, "text">>}

Absent == [status |-> "absent", original |-> FALSE, text |-> FALSE,
           checksum |-> NoFile]

Uploading == {"inserted", "stored", "read", "bare"}
Deleting  == {"found", "cleaned"}
InProgress == Uploading \cup Deleting \cup {"reprocessing"}
\* "elsewhere": the request is served by a handler of another module.
Over   == {"done", "queued", "refused", "aborted"}
Places == InProgress \cup Over \cup {"idle", "elsewhere"}

Rows == {d \in Docs : row[d].status # "absent"}

\* The objects a row names.
Named(d) == {k \in Keys(d) : row[d][k[2]]}

DocTypeOK ==
  /\ row \in [Docs -> [status : {"absent", "pending", "extracted"},
                       original : BOOLEAN, text : BOOLEAN,
                       checksum : Files \cup {NoFile}]]
  /\ objects \in SUBSET UNION {Keys(d) : d \in Docs}
  /\ pc \in [Requests -> Places]
  /\ file \in [Requests -> Files \cup {NoFile}]
  /\ target \in [Requests -> SUBSET Docs]
  /\ removed \in [Requests -> SUBSET UNION {Keys(d) : d \in Docs}]
  /\ after \in [Requests -> SUBSET Requests]

DocInit ==
  /\ row = [d \in Docs |->
              IF d \in Stored
              THEN [status |-> "extracted", original |-> TRUE, text |-> TRUE,
                    checksum |-> StoredFile[d]]
              ELSE IF d \in Collected
              THEN [Absent EXCEPT !.status = "pending"]
              ELSE Absent]
  /\ objects = UNION {Keys(d) : d \in Stored}
  /\ pc = [r \in Requests |-> "idle"]
  /\ file = [r \in Requests |-> NoFile]
  /\ target = [r \in Requests |-> {}]
  /\ removed = [r \in Requests |-> {}]
  /\ after = [r \in Requests |-> {}]

-----------------------------------------------------------------------------

Go(r, from, to) == pc[r] = from /\ pc' = [pc EXCEPT ![r] = to]

\* The request is served from here on; every SELECT before its first write
\* reads what is committed now.
Read(r, to, docs) ==
  /\ Go(r, "idle", to)
  /\ target' = [target EXCEPT ![r] = docs]
  /\ after' = [after EXCEPT ![r] = {x \in Requests : pc[x] \in Over}]

\* A handler of another module serves the request, and is over with it.
Served(r) ==
  Read(r, "elsewhere", {}) /\ UNCHANGED <<row, objects, file, removed>>
Finished(r, to) ==
  /\ Go(r, "elsewhere", to)
  /\ UNCHANGED <<row, objects, file, target, removed, after>>

\* Neither of two requests was over when the other began.
Overlapped(r, x) == r # x /\ r \notin after[x] /\ x \notin after[r]

-----------------------------------------------------------------------------
(* upload_pdf                                                              *)

WithChecksum(f) == {d \in Rows : row[d].checksum = f}

\* Mutant: the query for the checksum is restricted to extracted documents.
AdmittedIfExtracted(f) ==
  f \notin BadFiles /\ \A d \in WithChecksum(f) : row[d].status # "extracted"

\* A 400 or 413 for the file, a 409 for a document with its checksum; with
\* several such documents scalar_one_or_none raises, a 500.
Admitted(f) == f \notin BadFiles /\ WithChecksum(f) = {}

\* Validation, the query for the checksum, and the INSERT with status
\* "extracting", which is seen by this request alone.
Upload(r, f) ==
  /\ Read(r, IF Admitted(f) THEN "inserted" ELSE "refused", {})
  /\ file' = [file EXCEPT ![r] = f]
  /\ UNCHANGED <<row, objects, removed>>

\* Mutant: the row is committed before its file is stored.
PutOriginalCommitting(r) ==
  /\ Go(r, "inserted", "stored")
  /\ objects' = objects \cup {<<r, "original">>}
  /\ row' = [row EXCEPT ![r] = [Absent EXCEPT !.status = "extracting"]]
  /\ UNCHANGED <<file, target, removed, after>>

PutOriginal(r) ==
  /\ Go(r, "inserted", "stored")
  /\ objects' = objects \cup {<<r, "original">>}
  /\ UNCHANGED <<row, file, target, removed, after>>

\* A PDF may hold no text, and the extractor may raise, which is swallowed:
\* the document goes on without text.  Of another file the text is the bytes.
ExtractNothing(r) ==
  /\ Go(r, "stored", "bare")
  /\ file[r] \in PdfFiles
  /\ UNCHANGED <<row, objects, file, target, removed, after>>

PutText(r) ==
  /\ Go(r, "stored", "read")
  /\ objects' = objects \cup {<<r, "text">>}
  /\ UNCHANGED <<row, file, target, removed, after>>

\* Mutant: text_path is set on every path, with or without text.
CommitUploadWithPaths(r) ==
  /\ \E from \in {"read", "bare"} : Go(r, from, "done")
  /\ row' = [row EXCEPT ![r] = [status |-> "extracted", original |-> TRUE,
                                text |-> TRUE, checksum |-> file[r]]]
  /\ UNCHANGED <<objects, file, target, removed, after>>

CommitUpload(r) ==
  /\ \E from \in {"read", "bare"} : Go(r, from, "done")
  /\ row' = [row EXCEPT ![r] = [status |-> "extracted", original |-> TRUE,
                                text |-> pc[r] = "read", checksum |-> file[r]]]
  /\ UNCHANGED <<objects, file, target, removed, after>>

\* add_url: a pending row without checksum; nothing fetches the page.
AddUrl(r) ==
  /\ Read(r, "done", {})
  /\ row' = [row EXCEPT ![r] = [Absent EXCEPT !.status = "pending"]]
  /\ UNCHANGED <<objects, file, removed>>

-----------------------------------------------------------------------------
(* delete_document                                                         *)

Delete(r, d) ==
  /\ Read(r, IF d \in Rows THEN "found" ELSE "refused", {d})
  /\ UNCHANGED <<row, objects, file, removed>>

\* Mutant: the text of a document is not deleted with its original.
PurgeOriginal(r) ==
  /\ Go(r, "found", "cleaned")
  /\ \E gone \in SUBSET UNION {Named(d) : d \in target[r]} :
       /\ objects' = objects \ {k \in gone : k[2] = "original"}
       /\ removed' = [removed EXCEPT ![r] = gone]
  /\ UNCHANGED <<row, file, target, after>>

\* delete_objects in quiet mode reports keys it could not remove in its
\* answer, which nobody reads; an exception is swallowed as well.
Purge(r) ==
  /\ Go(r, "found", "cleaned")
  /\ \E gone \in SUBSET UNION {Named(d) : d \in target[r]} :
       /\ objects' = objects \ gone
       /\ removed' = [removed EXCEPT ![r] = gone]
  /\ UNCHANGED <<row, file, target, after>>

\* A row that another deletion removed first costs a warning only.
CommitDelete(r) ==
  /\ Go(r, "cleaned", "done")
  /\ row' = [d \in Docs |-> IF d \in target[r] THEN Absent ELSE row[d]]
  /\ UNCHANGED <<objects, file, target, removed, after>>

-----------------------------------------------------------------------------
(* reprocess_document                                                      *)

Reprocess(r, d) ==
  /\ Read(r, IF d \in Rows THEN "reprocessing" ELSE "refused", {d})
  /\ UNCHANGED <<row, objects, file, removed>>

\* An UPDATE that finds no row raises.
CommitReprocess(r) ==
  /\ pc[r] = "reprocessing"
  /\ IF target[r] \subseteq Rows
     THEN /\ Go(r, "reprocessing", "queued")
          /\ row' = [d \in Docs |-> IF d \in target[r]
                                    THEN [row[d] EXCEPT !.status = "pending"]
                                    ELSE row[d]]
     ELSE Go(r, "reprocessing", "aborted") /\ UNCHANGED row
  /\ UNCHANGED <<objects, file, target, removed, after>>

-----------------------------------------------------------------------------

\* An exception, a lost connection or the end of the process at any point:
\* the transaction is rolled back, what S3 holds stays as it is.
Abort(r) ==
  /\ pc[r] \in InProgress
  /\ pc' = [pc EXCEPT ![r] = "aborted"]
  /\ UNCHANGED <<row, objects, file, target, removed, after>>

DocStep(r) ==
  \/ \E f \in Files : Upload(r, f)
  \/ PutOriginal(r) \/ ExtractNothing(r) \/ PutText(r) \/ CommitUpload(r)
  \/ AddUrl(r)
  \/ \E d \in Docs : Delete(r, d) \/ Reprocess(r, d)
  \/ Purge(r) \/ CommitDelete(r) \/ CommitReprocess(r)
  \/ Abort(r)

DocNext == \E r \in Requests : DocStep(r)

DocSpec == DocInit /\ [][DocNext]_docVars

-----------------------------------------------------------------------------
(* Properties                                                              *)

\* A file that a committed row names is in the store, unless a deletion took
\* it out and has not committed: it is about to, or was rolled back after the
\* store had done its part (document_service.py:258-266).
FilesBehindRows ==
  \A d \in Rows : \A k \in Named(d) \ objects :
    \E r \in Requests : k \in removed[r] /\ pc[r] \in {"cleaned", "aborted"}

\* A file without a row is the upload's that is still in progress or failed
\* after it wrote to the store (the docstring of upload_pdf speaks of the row
\* only), or one that the store did not remove for a deletion that ended.
OrphanFilesExplained ==
  \A d \in Docs \ Rows : \A k \in Keys(d) \cap objects :
    \/ d \in Requests /\ pc[d] \in Uploading \cup {"aborted"}
    \/ \E r \in Requests :
         pc[r] = "done" /\ d \in target[r] /\ k \notin removed[r]

\* Two documents of one project have the same content only if their uploads
\* overlapped: an upload that began after another was over is refused
\* (document_service.py:113-119), whatever happened to the document since.
SameContentOnlyFromOverlap ==
  \A d, e \in Rows :
    d # e /\ row[d].checksum = row[e].checksum /\ row[d].checksum # NoFile
      => d \in Requests /\ e \in Requests /\ Overlapped(d, e)

=============================================================================
