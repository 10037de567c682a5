--------------------------- MODULE AnalysisRunner ---------------------------
(***************************************************************************)
(* run_analysis of api/app/tasks/analysis.py: a background task that asks  *)
(* a language model about the documents of a project and replaces the      *)
(* contents of four tables by the answer, in one transaction.              *)
(*                                                                         *)
(* At READ COMMITTED a DELETE removes the rows that were committed when    *)
(* the statement began.  It waits for a transaction that has deleted one   *)
(* of them, and does not see the rows which that transaction then commits. *)
(***************************************************************************)
EXTENDS DocumentStore, Integers, Sequences

CONSTANTS
  TableOrder,    \* the tables, in the order in which they are emptied
  Unstorable,    \* the table whose model does not take the answer's fields
  Answers,       \* what an analysis may find: sets of tables that get rows
  Earlier        \* the owner of the rows that were there at the start

ASSUME TablesAssumption ==
  /\ TableOrder \in Seq(STRING) /\ Len(TableOrder) > 0
  /\ \A i, j \in 1 .. Len(TableOrder) : TableOrder[i] = TableOrder[j] => i = j
  /\ Earlier \notin Requests

Tables == {TableOrder[i] : i \in 1 .. Len(TableOrder)}

ASSUME AnswersAssumption == Answers \subseteq SUBSET Tables

VARIABLES
  results,   \* committed rows: <<table, the analysis they are from>>
  ana,       \* each analysis: its place, the table it is at, the answer
  snapshot,  \* the rows its DELETE has seen and waits to remove
  deleted    \* the rows it has removed, locked until its transaction ends

anaVars == <<results, ana, snapshot, deleted>>

Owned == Tables \X (Requests \cup {Earlier})
Analysing == {"dispatched", "asking", "deleting", "waiting", "leaked"}

AnalysisTypeOK ==
  /\ results \in SUBSET Owned
  /\ ana \in [Requests -> [at : Analysing \cup {"none", "ended"},
                           table : 1 .. Len(TableOrder) + 1,
                           answer : SUBSET Tables, stored : BOOLEAN]]
  /\ snapshot \in [Requests -> SUBSET Owned]
  /\ deleted \in [Requests -> SUBSET Owned]

AnalysisInit ==
  /\ results = (Tables \ {Unstorable}) \X {Earlier}
  /\ ana = [r \in Requests |->
              [at |-> "none", table |-> 1, answer |-> {}, stored |-> FALSE]]
  /\ snapshot = [r \in Requests |-> {}]
  /\ deleted = [r \in Requests |-> {}]

-----------------------------------------------------------------------------

Step(r, from, to) == ana[r].at = from /\ ana' = [ana EXCEPT ![r].at = to]

\* run_full_analysis answers and the task is scheduled, on the session of the
\* request.
DispatchAnalysis(r) ==
  /\ Served(r)
  /\ Step(r, "none", "dispatched")
  /\ UNCHANGED <<results, snapshot, deleted>>

\* The task meets the session while the request commits or closes it, and is
\* over without a trace; or it finds the session closed and begins anew.
AnalysisLost(r) ==
  /\ Step(r, "dispatched", "ended")
  /\ Finished(r, "aborted")
  /\ UNCHANGED <<results, snapshot, deleted>>

\* The project and its documents are read and the model is asked.
Ask(r) ==
  /\ Step(r, "dispatched", "asking")
  /\ UNCHANGED <<results, snapshot, deleted, docVars>>

\* Four calls, each tried three times; a section that cannot be parsed is
\* taken as empty, an exception of one call ends the analysis.
Answer(r, answer) ==
  /\ ana[r].at = "asking"
  /\ ana' = [ana EXCEPT ![r].at = "deleting", ![r].answer = answer]
  /\ UNCHANGED <<results, snapshot, deleted, docVars>>

Current(r) == TableOrder[ana[r].table]

\* Mutant: an analysis without an answer empties the tables backwards.
DeleteBeginsReordered(r) ==
  LET i == ana[r].table
      t == IF ana[r].answer = {} THEN Len(TableOrder) + 1 - i ELSE i IN
  /\ i <= Len(TableOrder)
  /\ Step(r, "deleting", "waiting")
  /\ snapshot' = [snapshot EXCEPT ![r] = {p \in results : p[1] = TableOrder[t]}]
  /\ UNCHANGED <<results, deleted, docVars>>

\* A DELETE begins: it sees the rows that are committed now.
DeleteBegins(r) ==
  /\ ana[r].table <= Len(TableOrder)
  /\ Step(r, "deleting", "waiting")
  /\ snapshot' = [snapshot EXCEPT ![r] = {p \in results : p[1] = Current(r)}]
  /\ UNCHANGED <<results, deleted, docVars>>

Blocks(x, r) == x # r /\ ana[r].at = "waiting" /\ deleted[x] \cap snapshot[r] # {}

\* It has locked what is left of these rows.
DeleteEnds(r) ==
  /\ ana[r].at = "waiting"
  /\ \A x \in Requests : ~Blocks(x, r)
  /\ deleted' = [deleted EXCEPT ![r] = @ \cup (snapshot[r] \cap results)]
  /\ snapshot' = [snapshot EXCEPT ![r] = {}]
  /\ ana' = [ana EXCEPT ![r].at = "deleting", ![r].table = @ + 1]
  /\ UNCHANGED <<results, docVars>>

Emptied(r) == ana[r].at = "deleting" /\ ana[r].table = Len(TableOrder) + 1

\* Mutant: a section without an answer keeps the rows it had.
StoreNonEmpty(r) ==
  /\ Emptied(r) /\ Unstorable \notin ana[r].answer
  /\ results' = (results \ {p \in deleted[r] : p[1] \in ana[r].answer})
                  \cup (ana[r].answer \X {r})
  /\ deleted' = [deleted EXCEPT ![r] = {}]
  /\ ana' = [ana EXCEPT ![r].at = "ended", ![r].stored = TRUE]
  /\ Finished(r, "done")
  /\ UNCHANGED snapshot

\* The answer is inserted and everything is committed at once.
Store(r) ==
  /\ Emptied(r) /\ Unstorable \notin ana[r].answer
  /\ results' = (results \ deleted[r]) \cup (ana[r].answer \X {r})
  /\ deleted' = [deleted EXCEPT ![r] = {}]
  /\ ana' = [ana EXCEPT ![r].at = "ended", ![r].stored = TRUE]
  /\ Finished(r, "done")
  /\ UNCHANGED snapshot

\* Opportunity has no field `name`: one opportunity in the answer and the
\* analysis raises, after the tables were emptied.
CannotStore(r) ==
  /\ Emptied(r) /\ Unstorable \in ana[r].answer
  /\ Step(r, "deleting", "leaked")
  /\ UNCHANGED <<results, snapshot, deleted, docVars>>

\* The model or the database raises.  Nothing is rolled back here: the
\* exception is logged and the session left with its transaction open.
AnalysisRaises(r) ==
  /\ ana[r].at \in {"asking", "deleting", "waiting"}
  /\ ana' = [ana EXCEPT ![r].at = "leaked"]
  /\ snapshot' = [snapshot EXCEPT ![r] = {}]
  /\ UNCHANGED <<results, deleted, docVars>>

\* Mutant: the session is committed on the way out.
ReleaseCommitting(r) ==
  /\ Step(r, "leaked", "ended")
  /\ results' = results \ deleted[r]
  /\ deleted' = [deleted EXCEPT ![r] = {}]
  /\ Finished(r, "aborted")
  /\ UNCHANGED snapshot

\* The session is collected as garbage, or the process ends, and the
\* transaction is rolled back.
Release(r) ==
  /\ Step(r, "leaked", "ended")
  /\ deleted' = [deleted EXCEPT ![r] = {}]
  /\ Finished(r, "aborted")
  /\ UNCHANGED <<results, snapshot>>

AnalysisStep(r) ==
  \/ DispatchAnalysis(r) \/ AnalysisLost(r) \/ Ask(r)
  \/ \E answer \in Answers : Answer(r, answer)
  \/ DeleteBegins(r) \/ DeleteEnds(r)
  \/ Store(r) \/ CannotStore(r) \/ AnalysisRaises(r) \/ Release(r)

AnalysisNext ==
  \/ \E r \in Requests : AnalysisStep(r)
  \/ DocNext /\ UNCHANGED anaVars

AnalysisSpec ==
  DocInit /\ AnalysisInit /\ [][AnalysisNext]_<<docVars, anaVars>>

-----------------------------------------------------------------------------
(* Properties                                                              *)

\* An analysis that was stored replaced everything that was there when its
\* request began: rows of an earlier one are in no table, although each table
\* is emptied by a statement of its own (tasks/analysis.py:51-52, 126-127).
\* Rows of two analyses are in the tables only if these overlapped.
StoredAnalysisReplaces ==
  \A r \in Requests : ana[r].stored =>
    \A p \in results : p[2] # Earlier /\ p[2] \notin after[r]

\* What an analysis that was not stored deleted is there again: the tables are
\* never empty because of a failure.
FailureKeepsResults ==
  (\A r \in Requests : ~ana[r].stored)
    => results = (Tables \ {Unstorable}) \X {Earlier}

\* Analyses never wait for each other in a circle, since all empty the tables
\* in one order: of any of them there is one that waits for none of the others
\* (tasks/analysis.py:51-52, 79-80, 102-103, 126-127).
NoAnalysisDeadlock ==
  \A S \in (SUBSET Requests) \ {{}} : \E r \in S : \A x \in S : ~Blocks(x, r)

=============================================================================
