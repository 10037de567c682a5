------------------------------- MODULE Corpus -------------------------------
(***************************************************************************)
(* The corpus folder of a project: a local copy of the extracted texts     *)
(* (api/app/services/corpus_service.py), rebuilt and seeded by requests    *)
(* next to those of DocumentStore.                                         *)
(*                                                                         *)
(* A rebuild has no transaction over the folder.  Between two awaits it    *)
(* runs alone, so an action is what it does from one await to the next:    *)
(* the list of documents, the download of each text from S3, the summary.  *)
(***************************************************************************)
EXTENDS DocumentStore, Integers

VARIABLES
  folders,   \* documents with a folder in the corpus
  texts,     \* documents whose folder holds text.md and metadata.json
  testDocs,  \* whether documents of seed_test_docs are in the corpus
  meta,      \* .corpus_meta.json
  job,       \* each rebuild: its place, the list it read, how far it is
  source,    \* history: the rebuild that wrote each text
  disturbed  \* history: a rebuild met another, a seed, or was cut short

corpusVars == <<folders, texts, testDocs, meta, job, source, disturbed>>

Rebuilding == {"listed", "downloading", "writing", "summing"}

\* extracted_docs less those done, the one it is at, whether its download
\* succeeded, the counter `added`.
Job == [at : Rebuilding \cup {"none", "ended", "cut"}, todo : SUBSET Docs,
        doc : Docs \cup {NoDoc}, got : BOOLEAN, added : Nat]

NoJob == [at |-> "none", todo |-> {}, doc |-> NoDoc, got |-> FALSE, added |-> 0]

CorpusTypeOK ==
  /\ folders \in SUBSET Docs
  /\ texts \in SUBSET folders
  /\ testDocs \in BOOLEAN
  /\ meta \in [included : Nat, tests : BOOLEAN]
  /\ job \in [Requests -> Job]
  /\ source \in [texts -> Requests]
  /\ disturbed \in BOOLEAN

CorpusInit ==
  /\ folders = {} /\ texts = {}
  /\ testDocs = FALSE
  /\ meta = [included |-> 0, tests |-> FALSE]
  /\ job = [r \in Requests |-> NoJob]
  /\ source \in [texts -> Requests]
  /\ disturbed = FALSE

-----------------------------------------------------------------------------
(* rebuild                                                                 *)

\* Mutant: documents that wait for reprocessing are copied as well.
ListedWithPending == {d \in Rows : row[d].text}

\* extracted_docs.
Listed == {d \in Rows : row[d].status = "extracted" /\ row[d].text}

\* A rebuild that has begun to change the folder.
Working(r) == job[r].at \in {"downloading", "writing"}

OtherWorking(r) == \E x \in Requests \ {r} : Working(x)

RebuildList(r) ==
  /\ Served(r)
  /\ job' = [job EXCEPT ![r] =
               [NoJob EXCEPT !.at = "listed",
                             !.todo = Listed]]
  /\ UNCHANGED <<folders, texts, testDocs, meta, source, disturbed>>

\* On to the next document: its folder is made (it may be there already) and
\* its download begins.  After the last one the metadata is written.
GoOn(r, todo, added, cleared) ==
  IF todo = {}
  THEN /\ job' = [job EXCEPT ![r] = [@ EXCEPT !.at = "summing", !.doc = NoDoc,
                                       !.added = added]]
       /\ folders' = cleared
       /\ meta' = [included |-> added, tests |-> FALSE]
  ELSE /\ \E d \in todo :
            /\ job' = [job EXCEPT ![r] =
                         [@ EXCEPT !.at = "downloading", !.todo = todo \ {d},
                            !.doc = d, !.added = added]]
            /\ folders' = cleared \cup {d}
       /\ UNCHANGED meta

\* Everything but the metadata is removed.
RebuildClear(r) ==
  /\ job[r].at = "listed"
  /\ texts' = {} /\ source' \in [{} -> Requests]
  /\ testDocs' = FALSE
  /\ GoOn(r, job[r].todo, 0, {})
  /\ disturbed' = OtherWorking(r)
  /\ UNCHANGED docVars

\* get_object in the thread pool; a missing key or a failing store raises.
Download(r) ==
  /\ job[r].at = "downloading"
  /\ \E ok \in BOOLEAN :
       /\ ok => <<job[r].doc, "text">> \in objects
       /\ job' = [job EXCEPT ![r] = [@ EXCEPT !.at = "writing", !.got = ok]]
  /\ UNCHANGED <<folders, texts, testDocs, meta, source, disturbed, docVars>>

\* Writes the text under a condition and counts the document under another.
Write(r, written, counted) ==
  /\ job[r].at = "writing"
  /\ IF written
     THEN /\ texts' = texts \cup {job[r].doc}
          /\ source' = [d \in texts' |-> IF d = job[r].doc THEN r ELSE source[d]]
     ELSE UNCHANGED <<texts, source>>
  /\ GoOn(r, job[r].todo, job[r].added + (IF counted THEN 1 ELSE 0), folders)
  /\ UNCHANGED <<testDocs, disturbed, docVars>>

\* Mutant: a document is counted before its text is there.
WriteTextCounting(r) == Write(r, job[r].got /\ job[r].doc \in folders, TRUE)

\* The text is written if it came and the folder is still there (another
\* rebuild may have removed it); whatever raises is logged and passed over.
WriteText(r) ==
  LET written == job[r].got /\ job[r].doc \in folders IN Write(r, written, written)

\* The summary that the rebuild returns, from documents read anew.
Summarise(r) ==
  /\ job[r].at = "summing"
  /\ job' = [job EXCEPT ![r].at = "ended"]
  /\ Finished(r, "done")
  /\ UNCHANGED <<folders, texts, testDocs, meta, source, disturbed>>

\* The process ends, or a query of the rebuild fails.
CutShort(r) ==
  /\ job[r].at \in Rebuilding
  /\ job' = [job EXCEPT ![r].at = "cut"]
  /\ Finished(r, "aborted")
  /\ disturbed' = (disturbed \/ Working(r))
  /\ UNCHANGED <<folders, texts, testDocs, meta, source>>

-----------------------------------------------------------------------------
(* seed_test_docs                                                          *)

\* Folders of documents that have no row; the metadata keeps what it said.
Seed(r) ==
  /\ Read(r, "done", {})
  /\ testDocs' = TRUE
  /\ meta' = [meta EXCEPT !.tests = TRUE]
  /\ disturbed' = (disturbed \/ OtherWorking(r))
  /\ UNCHANGED <<folders, texts, source, job, row, objects, file, removed>>

-----------------------------------------------------------------------------

CorpusStep(r) ==
  \/ RebuildList(r) \/ RebuildClear(r) \/ Download(r) \/ WriteText(r)
  \/ Summarise(r) \/ CutShort(r)
  \/ Seed(r)

CorpusNext ==
  \/ \E r \in Requests : CorpusStep(r)
  \/ DocNext /\ UNCHANGED corpusVars

CorpusSpec == DocInit /\ CorpusInit /\ [][CorpusNext]_<<docVars, corpusVars>>

-----------------------------------------------------------------------------
(* Properties                                                              *)

\* Between rebuilds the metadata tells how many texts of documents the folder
\* holds and whether test documents are among them, if the last rebuild was
\* alone in the folder (corpus_service.py:130-182).
MetaTellsCorpus ==
  ~disturbed /\ (\A r \in Requests : ~Working(r))
    => meta = [included |-> Cardinality(texts), tests |-> testDocs]

\* A text in the folder is of a document that was committed as extracted when
\* the rebuild that wrote it read the documents: a failed upload never reaches
\* the corpus, nor does a document that had been deleted or queued for
\* reprocessing by then (corpus_service.py:120-121, document_service.py:283).
CorpusTextsWereCurrent ==
  \A d \in texts :
    /\ d \in Stored \/ (d \in after[source[d]] /\ pc[d] = "done")
    /\ \A x \in after[source[d]] :
         d \in target[x] => pc[x] \notin {"done", "queued"}

=============================================================================
