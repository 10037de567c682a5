-------------------------- MODULE CollectionRunner --------------------------
(***************************************************************************)
(* run_collection of api/app/tasks/collection.py, on a session of its own: *)
(* several runs of one project at the same time, next to documents that    *)
(* are imported from a search.                                             *)
(*                                                                         *)
(* A run works in one transaction.  What it flushes (its row as running,   *)
(* batches of documents, its row as failed) is visible to itself alone     *)
(* until the only commit, at the very end of the path without exceptions.  *)
(* Losing the session, by an exception or with the process, rolls back.    *)
(*                                                                         *)
(* A work stands for a raw document after normalisation; what the          *)
(* de-duplication looks at is given by SourceId, Doi (lower case) and      *)
(* Checksum.                                                               *)
(***************************************************************************)
EXTENDS Integers, FiniteSets

CONSTANTS
  Runs,         \* collection runs of one project, all from OpenAlex
  Works,        \* what the source can return
  SourceId,     \* function from works; NoId when the work carries none
  Doi,          \* function from works; NoDoi when the work carries none
  Checksum,     \* function from works
  NoId, NoDoi,
  Imports,      \* works that users may import from a search
  MaxResults,   \* MAX_RESULTS_PER_RUN
  BatchSize     \* BATCH_SIZE

ASSUME WorksAssumption == IsFiniteSet(Works) /\ Imports \subseteq Works
ASSUME LimitsAssumption ==
  MaxResults \in Nat \ {0} /\ BatchSize \in Nat \ {0}

VARIABLES
  (* committed rows *)
  row,        \* collection_runs: status and the two counters, for each run
  docs,       \* documents of each run
  imported,   \* documents collect_from_search stored
  (* what each run holds in memory and in its transaction *)
  pc,
  seen,       \* works whose identifiers the preload put into the sets
  seenDois,   \* imported works whose DOI the preload put into existing_dois
  found, inserted,
  buffer,     \* new_documents
  flushed,    \* documents flushed and not committed
  (* history *)
  earlier     \* runs already completed when this run preloaded

rows   == <<row, docs, imported>>
memory == <<seen, seenDois, found, inserted, buffer, flushed>>
vars   == <<rows, memory, pc, earlier>>

-----------------------------------------------------------------------------

Live == {"queued", "started", "streaming", "finishing"}

TypeOK ==
  /\ row \in [Runs -> [status: {"pending", "completed"},
                       found: Nat, inserted: Nat]]
  /\ docs \in [Runs -> SUBSET Works]
  /\ imported \in SUBSET Works
  /\ pc \in [Runs -> Live \cup {"completed", "failed", "lost"}]
  /\ seen \in [Runs -> SUBSET Works]
  /\ seenDois \in [Runs -> SUBSET Works]
  /\ found \in [Runs -> Nat]
  /\ inserted \in [Runs -> Nat]
  /\ buffer \in [Runs -> SUBSET Works]
  /\ flushed \in [Runs -> SUBSET Works]
  /\ earlier \in [Runs -> SUBSET Runs]

\* transition_status has committed the row; the task has not begun.
Init ==
  /\ row = [r \in Runs |-> [status |-> "pending", found |-> 0, inserted |-> 0]]
  /\ docs = [r \in Runs |-> {}]
  /\ imported = {}
  /\ pc = [r \in Runs |-> "queued"]
  /\ seen = [r \in Runs |-> {}]
  /\ seenDois = [r \in Runs |-> {}]
  /\ found = [r \in Runs |-> 0]
  /\ inserted = [r \in Runs |-> 0]
  /\ buffer = [r \in Runs |-> {}]
  /\ flushed = [r \in Runs |-> {}]
  /\ earlier = [r \in Runs |-> {}]

-----------------------------------------------------------------------------
(* De-duplication                                                          *)

SameId(v, w)  == SourceId[v] = SourceId[w]
SameDoi(v, w) == Doi[v] # NoDoi /\ Doi[v] = Doi[w]
SameSum(v, w) == Checksum[v] = Checksum[w]

\* The documents this run has added to the three sets itself.
Picked(r) == buffer[r] \cup flushed[r]

\* Mutant: existing_dois, existing_source_keys and existing_checksums are not
\* extended while the stream is read.
KnownBefore(r, w) ==
  \/ \E v \in seen[r] : \/ SourceId[v] # NoId /\ SameId(v, w)
                        \/ SameDoi(v, w) \/ SameSum(v, w)
  \/ \E v \in seenDois[r] : SameDoi(v, w)

\* Mutant: documents already stored are not preloaded.
KnownFromStream(r, w) ==
  \E v \in Picked(r) : SameId(v, w) \/ SameDoi(v, w) \/ SameSum(v, w)

\* A preloaded document counts by its identifier only if it has one, a
\* document of this stream counts even then.
Known(r, w) ==
  \/ \E v \in seen[r] : \/ SourceId[v] # NoId /\ SameId(v, w)
                        \/ SameDoi(v, w) \/ SameSum(v, w)
  \/ \E v \in seenDois[r] : SameDoi(v, w)
  \/ \E v \in Picked(r) : SameId(v, w) \/ SameDoi(v, w) \/ SameSum(v, w)

-----------------------------------------------------------------------------
(* One run                                                                 *)

Goto(r, l) == pc' = [pc EXCEPT ![r] = l]

\* The run is fetched and flushed as running, which nobody else sees.
Start(r) ==
  /\ pc[r] = "queued"
  /\ Goto(r, "started")
  /\ UNCHANGED <<rows, memory, earlier>>

\* Project, strategy and connector are there; the documents of the project
\* are preloaded.  An imported document has neither source id nor checksum.
Preload(r) ==
  /\ pc[r] = "started"
  /\ seen' = [seen EXCEPT ![r] = UNION {docs[x] : x \in Runs}]
  /\ seenDois' = [seenDois EXCEPT ![r] = imported]
  /\ earlier' = [earlier EXCEPT ![r] =
                   {x \in Runs : row[x].status = "completed"}]
  /\ Goto(r, "streaming")
  /\ UNCHANGED <<rows, found, inserted, buffer, flushed>>

\* Mutant: the limit is counted anew on every page of the source.
ReceivePerPage(r, w) ==
  /\ pc[r] = "streaming"
  /\ found' = [found EXCEPT ![r] = (@ + 1) % MaxResults]
  /\ IF Known(r, w)
     THEN UNCHANGED <<inserted, buffer>>
     ELSE /\ inserted' = [inserted EXCEPT ![r] = @ + 1]
          /\ buffer' = [buffer EXCEPT ![r] = @ \cup {w}]
  /\ UNCHANGED flushed
  /\ UNCHANGED <<rows, seen, seenDois, pc, earlier>>

\* Mutant: every full batch is committed.
ReceiveCommitting(r, w) ==
  /\ pc[r] = "streaming"
  /\ found[r] < MaxResults
  /\ ~Known(r, w)
  /\ found' = [found EXCEPT ![r] = @ + 1]
  /\ inserted' = [inserted EXCEPT ![r] = @ + 1]
  /\ flushed' = [flushed EXCEPT ![r] = @ \cup {w}]
  /\ docs' = [docs EXCEPT ![r] = flushed'[r]]
  /\ UNCHANGED <<row, imported, seen, seenDois, buffer, pc, earlier>>

\* The connector yields a work, never more than max_results of them.  A new
\* one is buffered, and a full buffer is flushed.
Receive(r, w) ==
  /\ pc[r] = "streaming"
  /\ found[r] < MaxResults
  /\ found' = [found EXCEPT ![r] = @ + 1]
  /\ IF Known(r, w)
     THEN UNCHANGED <<inserted, buffer, flushed>>
     ELSE LET new == buffer[r] \cup {w}
              full == Cardinality(new) >= BatchSize
          IN  /\ inserted' = [inserted EXCEPT ![r] = @ + 1]
              /\ buffer' = [buffer EXCEPT ![r] = IF full THEN {} ELSE new]
              /\ flushed' = [flushed EXCEPT ![r] =
                               IF full THEN @ \cup new ELSE @]
  /\ UNCHANGED <<rows, seen, seenDois, pc, earlier>>

\* Mutant: the last, partial batch is forgotten.
EndOfStreamForgetting(r) ==
  /\ pc[r] = "streaming"
  /\ Goto(r, "finishing")
  /\ UNCHANGED <<rows, memory, earlier>>

\* Mutant: the documents are committed before the row is completed.
EndOfStreamCommitting(r) ==
  /\ pc[r] = "streaming"
  /\ docs' = [docs EXCEPT ![r] = flushed[r] \cup buffer[r]]
  /\ flushed' = [flushed EXCEPT ![r] = docs'[r]]
  /\ buffer' = [buffer EXCEPT ![r] = {}]
  /\ Goto(r, "finishing")
  /\ UNCHANGED <<row, imported, seen, seenDois, found, inserted, earlier>>

\* The source has no more pages, or the limit is reached: what is left in the
\* buffer is flushed and the connector closed.
EndOfStream(r) ==
  /\ pc[r] = "streaming"
  /\ flushed' = [flushed EXCEPT ![r] = @ \cup buffer[r]]
  /\ buffer' = [buffer EXCEPT ![r] = {}]
  /\ Goto(r, "finishing")
  /\ UNCHANGED <<rows, seen, seenDois, found, inserted, earlier>>

\* The row becomes completed with its counters, and is committed together with
\* every document the run has flushed.
Commit(r) ==
  /\ pc[r] = "finishing"
  /\ row' = [row EXCEPT ![r] = [status |-> "completed", found |-> found[r],
                                inserted |-> inserted[r]]]
  /\ docs' = [docs EXCEPT ![r] = flushed[r]]
  /\ Goto(r, "completed")
  /\ UNCHANGED <<imported, memory, earlier>>

\* Mutant: the exception handler commits, and the row says failed.
FailRecording(r) ==
  /\ pc[r] \in Live
  /\ row' = [row EXCEPT ![r].status = "failed"]
  /\ Goto(r, "failed")
  /\ UNCHANGED <<docs, imported, memory, earlier>>

\* Any exception: no strategy, the source not selected, the source failing
\* after its retries, the database.  The handler sets the status to failed and
\* flushes it; the transaction is never committed.
Fail(r) ==
  /\ pc[r] \in Live
  /\ Goto(r, "failed")
  /\ UNCHANGED <<rows, memory, earlier>>

-----------------------------------------------------------------------------

\* collect_from_search stores a document.  It has a DOI check of its own,
\* which the spelling of the DOI can evade; runs are not looked at.
Import(w) ==
  /\ w \notin imported
  /\ imported' = imported \cup {w}
  /\ UNCHANGED <<row, docs, memory, pc, earlier>>

\* The API process dies with every task in it.
Crash ==
  /\ \E r \in Runs : pc[r] \in Live
  /\ pc' = [r \in Runs |-> IF pc[r] \in Live THEN "lost" ELSE pc[r]]
  /\ UNCHANGED <<rows, memory, earlier>>

Step(r) ==
  \/ Start(r) \/ Preload(r) \/ EndOfStream(r) \/ Commit(r)
  \/ \E w \in Works : Receive(r, w)

Next ==
  \/ \E r \in Runs : Step(r) \/ Fail(r)
  \/ \E w \in Imports : Import(w)
  \/ Crash

Safety == Init /\ [][Next]_vars

\* The event loop resumes a task whose round trip has been answered; the HTTP
\* client has a timeout.
Spec == Safety /\ \A r \in Runs : WF_vars(Step(r))

-----------------------------------------------------------------------------
(* Properties                                                              *)

\* Two works the collection takes for the same document.
AlikeWorks(v, w) ==
  (SourceId[v] # NoId /\ SameId(v, w)) \/ SameDoi(v, w) \/ SameSum(v, w)

\* A completed run reports what it did: every document it counted as inserted
\* is there, the last partial batch included, and it found no fewer.
CountersMatchDocuments ==
  \A r \in Runs : row[r].status = "completed" =>
    /\ row[r].inserted = Cardinality(docs[r])
    /\ row[r].inserted <= row[r].found
    /\ row[r].found <= MaxResults

\* A run that has not completed has left nothing, however many batches it has
\* flushed and however it ended.
NoPartialRun ==
  \A r \in Runs : row[r].status # "completed" => docs[r] = {}

\* No run stores two works it would take for the same document.
NoDuplicateWithinRun ==
  \A r \in Runs : \A v, w \in docs[r] : v # w => ~AlikeWorks(v, w)

\* No run stores a work like one a run stored that had completed before it
\* preloaded.
NoDuplicateOfEarlierRun ==
  \A r \in Runs : \A e \in earlier[r] :
    \A w \in docs[r], v \in docs[e] : ~AlikeWorks(v, w)

\* Every run ends, whatever the source returns.
EveryRunEnds == \A r \in Runs : <>(pc[r] \notin Live)

\* "Error: tarea falla -> status=failed": the row of a run that failed says so.
FailureIsRecorded ==
  \A r \in Runs : pc[r] = "failed" => row[r].status = "failed"

\* To the rest of the system a run is one atomic publication.
Contract == INSTANCE CollectionContract WITH
  Alike   <- {p \in Works \X Works : AlikeWorks(p[1], p[2])},
  settled <- {r \in Runs : row[r].status = "completed"}

\* The runner implements the contract.
ImplementsContract == Contract!Spec

-----------------------------------------------------------------------------
(* The inductive invariant behind the safety properties                    *)

\* A row is completed by the commit that ends its run, and shows then what the
\* run held; before, the run has left nothing.
RowInv ==
  \A r \in Runs :
    IF pc[r] = "completed"
    THEN /\ docs[r] = flushed[r]
         /\ row[r] = [status |-> "completed", found |-> found[r],
                      inserted |-> inserted[r]]
    ELSE docs[r] = {} /\ row[r].status = "pending"

\* The buffer fills while the stream is read, and not before the preload.
StageInv ==
  \A r \in Runs : /\ pc[r] \in {"queued", "started"} => Picked(r) = {}
                  /\ pc[r] \in {"finishing", "completed"} => buffer[r] = {}

\* The counters describe what the run has picked.
CountInv ==
  \A r \in Runs : /\ inserted[r] = Cardinality(Picked(r))
                  /\ inserted[r] <= found[r]
                  /\ found[r] <= MaxResults

\* Nothing a run picked is like something else it picked or had preloaded.
DistinctInv ==
  \A r \in Runs :
    /\ \A v, w \in Picked(r) : v # w => ~AlikeWorks(v, w)
    /\ \A v \in seen[r], w \in Picked(r) : ~AlikeWorks(v, w)

\* A run that had completed before the preload had been preloaded in full.
EarlierInv ==
  \A r \in Runs : \A e \in earlier[r] :
    pc[e] = "completed" /\ docs[e] \subseteq seen[r]

IInv ==
  TypeOK /\ RowInv /\ StageInv /\ CountInv /\ DistinctInv /\ EarlierInv

=============================================================================
