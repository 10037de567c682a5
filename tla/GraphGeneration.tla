-------------------------- MODULE GraphGeneration --------------------------
(***************************************************************************)
(* Generating the knowledge graph of a project                             *)
(* (api/app/services/graph_service.py): the abstracts are written into a   *)
(* folder, an external tool turns them into graph.json in the same folder, *)
(* and its nodes and edges are imported.                                   *)
(*                                                                         *)
(* The folder belongs to the project and not to the run, so generations    *)
(* that overlap work in the same one.  The row of the run is part of the   *)
(* transaction of the whole request, the hour of the tool included.        *)
(***************************************************************************)
EXTENDS DocumentStore

CONSTANT NoGraph

VARIABLES
  input,     \* flat_corpus: the documents whose abstract is in the folder
  output,    \* graph.json: the generation whose tool wrote it, and from what
  gen,       \* each generation: its place, what it listed, what its tool read
  graphRun   \* committed rows of runs, with the graph.json their nodes are from

graphVars == <<input, output, gen, graphRun>>

Generating == {"listed", "running", "reading", "exited"}

Graphs == [by : Requests, from : SUBSET Docs] \cup {NoGraph}

GraphTypeOK ==
  /\ input \in SUBSET Docs
  /\ output \in Graphs
  /\ gen \in [Requests -> [at : Generating \cup {"none", "ended"},
                           docs : SUBSET Docs, read : SUBSET Docs]]
  /\ graphRun \in [Requests -> [status : {"absent", "completed", "failed"},
                                nodes : Graphs]]

GraphInit ==
  /\ input = {} /\ output = NoGraph
  /\ gen = [r \in Requests |-> [at |-> "none", docs |-> {}, read |-> {}]]
  /\ graphRun = [r \in Requests |-> [status |-> "absent", nodes |-> NoGraph]]

-----------------------------------------------------------------------------

At(r, from, to) == gen[r].at = from /\ gen' = [gen EXCEPT ![r].at = to]

\* The documents of the project; without any the request is a 400.
ListDocuments(r) ==
  IF Rows = {}
  THEN /\ Read(r, "refused", {})
       /\ UNCHANGED <<row, objects, file, removed, graphVars>>
  ELSE /\ Served(r)
       /\ gen' = [gen EXCEPT ![r] = [at |-> "listed", docs |-> Rows, read |-> {}]]
       /\ UNCHANGED <<input, output, graphRun>>

WithAbstract(r) == gen[r].docs \cap Collected

\* Mutant: the folder is written over, not removed first.
PrepareOver(r) ==
  /\ input' = WithAbstract(r)
  /\ UNCHANGED <<output, graphRun>>
  /\ IF WithAbstract(r) = {}
     THEN At(r, "listed", "ended") /\ Finished(r, "refused")
     ELSE At(r, "listed", "running") /\ UNCHANGED docVars

\* The folder is removed with all it holds and written anew, without an
\* await.  Without an abstract this is a 400, after the folder was emptied.
\* Otherwise the run is inserted (seen by this request alone) and the tool
\* is started.
Prepare(r) ==
  /\ input' = WithAbstract(r)
  /\ output' = NoGraph
  /\ UNCHANGED graphRun
  /\ IF WithAbstract(r) = {}
     THEN At(r, "listed", "ended") /\ Finished(r, "refused")
     ELSE At(r, "listed", "running") /\ UNCHANGED docVars

\* The tool reads the folder, and later writes into it.
ToolRead(r) ==
  /\ gen[r].at = "running"
  /\ gen' = [gen EXCEPT ![r].at = "reading", ![r].read = input]
  /\ UNCHANGED <<input, output, graphRun, docVars>>

\* It may also exit with code 0 and leave no graph.json.
ToolExit(r) ==
  /\ At(r, "reading", "exited")
  /\ \/ output' = [by |-> r, from |-> gen[r].read]
     \/ UNCHANGED output
  /\ UNCHANGED <<input, graphRun, docVars>>

\* The row of the run is committed with the request.
Settle(r, status, nodes) ==
  /\ gen' = [gen EXCEPT ![r].at = "ended"]
  /\ graphRun' = [graphRun EXCEPT ![r] = [status |-> status, nodes |-> nodes]]
  /\ Finished(r, "done")

\* A code other than 0, or the timeout of an hour.
ToolFailed(r) ==
  /\ gen[r].at \in {"running", "reading"}
  /\ Settle(r, "failed", NoGraph)
  /\ UNCHANGED <<input, output>>

\* app.models.graph_run, which two steps of the import need, is not in the
\* source tree.
GraphRunModuleExists == FALSE

\* _import_nodes goes through.  It adds the nodes first, then the documents
\* as nodes of their own, unless there were none to begin with.
NodesImported(nodes) == nodes = NoGraph \/ GraphRunModuleExists

\* _import_mention_edges goes through.
MentionsImported == GraphRunModuleExists

\* Whatever graph.json is there now is imported; it may have no nodes, or be
\* unreadable.  What raises after the nodes were added turns the run into a
\* failed one, and the flush that records this writes them as well.
Import(r) ==
  /\ gen[r].at = "exited"
  /\ \E nodes \in {output, NoGraph}, readable \in BOOLEAN :
       /\ nodes # NoGraph => readable
       /\ Settle(r, IF readable /\ NodesImported(nodes) /\ MentionsImported
                    THEN "completed" ELSE "failed", nodes)
  /\ UNCHANGED <<input, output>>

\* An exception outside the try block, a database error within it (the flush
\* of the handler raises again), or the end of the process.
GenerationAborted(r) ==
  /\ gen[r].at \in Generating
  /\ gen' = [gen EXCEPT ![r].at = "ended"]
  /\ Finished(r, "aborted")
  /\ UNCHANGED <<input, output, graphRun>>

GraphStep(r) ==
  \/ ListDocuments(r) \/ Prepare(r)
  \/ ToolRead(r) \/ ToolExit(r) \/ ToolFailed(r)
  \/ Import(r) \/ GenerationAborted(r)

GraphNext ==
  \/ \E r \in Requests : GraphStep(r)
  \/ DocNext /\ UNCHANGED graphVars

GraphSpec == DocInit /\ GraphInit /\ [][GraphNext]_<<docVars, graphVars>>

-----------------------------------------------------------------------------
(* Properties                                                              *)

\* The nodes of a run are from the graph of its own tool, made from the
\* documents it listed itself, unless another generation overlapped with it:
\* what an earlier one left in the folder never gets into a run
\* (graph_service.py:75-79, 165-187).
GraphFromOverlapOnly ==
  \A r \in Requests : LET nodes == graphRun[r].nodes IN
    nodes # NoGraph /\ nodes # [by |-> r, from |-> WithAbstract(r)]
      => \E x \in Requests : gen[x].at # "none" /\ Overlapped(r, x)

\* "4. Import nodes and edges into DB  5. Mark run as completed": a run whose
\* nodes are in the database is completed (graph_service.py:36-44).
ImportedRunCompletes ==
  \A r \in Requests :
    graphRun[r].nodes # NoGraph => graphRun[r].status = "completed"

=============================================================================
