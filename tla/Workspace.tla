----------------------------- MODULE Workspace -----------------------------
(***************************************************************************)
(* What requests of users do to one project's documents and to what is     *)
(* made from them: corpus, graph, analysis and reports.                    *)
(*                                                                         *)
(* Each request is served by one handler.  The components share the rows   *)
(* and objects of DocumentStore, which corpus and graph read and uploads,  *)
(* deletions and reprocessing change meanwhile; each keeps the state that  *)
(* its own requests share.                                                 *)
(***************************************************************************)
EXTENDS Corpus, GraphGeneration, AnalysisRunner, ReportGeneration

vars == <<docVars, corpusVars, graphVars, anaVars, reportVars>>

Init == DocInit /\ CorpusInit /\ GraphInit /\ AnalysisInit /\ ReportInit

Next == \E r \in Requests :
  \/ DocStep(r) /\ UNCHANGED <<corpusVars, graphVars, anaVars, reportVars>>
  \/ CorpusStep(r) /\ UNCHANGED <<graphVars, anaVars, reportVars>>
  \/ GraphStep(r) /\ UNCHANGED <<corpusVars, anaVars, reportVars>>
  \/ AnalysisStep(r) /\ UNCHANGED <<corpusVars, graphVars, reportVars>>
  \/ ReportStep(r) /\ UNCHANGED <<corpusVars, graphVars, anaVars>>

Spec == Init /\ [][Next]_vars

-----------------------------------------------------------------------------

\* The types of all components: rows are committed in final states only
\* (a document is never left "extracting", a graph run never "running").
TypeOK ==
  DocTypeOK /\ CorpusTypeOK /\ GraphTypeOK /\ AnalysisTypeOK /\ ReportTypeOK

=============================================================================
