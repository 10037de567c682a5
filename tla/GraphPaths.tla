----------------------------- MODULE GraphPaths -----------------------------
(***************************************************************************)
(* The search for a path between two nodes of a generated graph            *)
(* (GraphEdgeRepository.find_path, api/app/repositories/                   *)
(* graph_repository.py), step by step.  Edges are read in no particular    *)
(* order, and followed in both directions.                                 *)
(***************************************************************************)
EXTENDS Integers, Sequences, FiniteSets

CONSTANTS
  Nodes,
  Graphs,   \* sets of edges; an edge is the set of its one or two ends
  MaxDepth  \* bound on max_depth, of which the API takes 1 to 10

ASSUME PathsAssumption ==
  /\ IsFiniteSet(Nodes) /\ MaxDepth \in Nat \ {0}
  /\ \A g \in Graphs : \A e \in g : e \subseteq Nodes /\ e # {}

VARIABLES
  graph, from, to, depth,  \* the question
  queue,      \* paths to be continued, each a sequence of nodes from "from"
  visited,
  neighbours, \* of the end of the first path, those not looked at yet
  answer      \* the path found; empty when there is none

question == <<graph, from, to, depth>>
pathVars == <<question, queue, visited, neighbours, answer>>

Paths == UNION {[1..n -> Nodes] : n \in 1..(MaxDepth + 1)}

PathTypeOK ==
  /\ graph \in Graphs /\ {from, to} \subseteq Nodes /\ depth \in 1..MaxDepth
  /\ queue \in Seq(Paths) /\ visited \in SUBSET Nodes
  /\ neighbours \in SUBSET Nodes /\ answer \in Paths \cup {<<>>}

Last(path) == path[Len(path)]
Edges(path) == Len(path) - 1

\* The adjacency list; an edge from a node to itself leads there.
Adjacent(n) == {m \in Nodes : {n, m} \in graph}

PathInit ==
  /\ graph \in Graphs /\ from \in Nodes /\ to \in Nodes
  /\ depth \in 1..MaxDepth
  /\ queue = <<<<from>>>> /\ visited = {from}
  /\ neighbours = Adjacent(from) /\ answer = <<>>

-----------------------------------------------------------------------------

\* Mutant: a path is continued once it has max_depth edges already.
OneDeeper(path) == Edges(path) <= depth

MayContinue(path) == Edges(path) < depth

Searching == queue # <<>> /\ answer = <<>>

\* Mutant: a node that is queued is not marked.
LookUnmarked(n) ==
  /\ Searching /\ n \in neighbours
  /\ LET path == Append(Head(queue), n)
     IN  IF n = to
         THEN answer' = path /\ UNCHANGED queue
         ELSE /\ queue' = IF n \in visited THEN queue ELSE Append(queue, path)
              /\ UNCHANGED answer
  /\ neighbours' = neighbours \ {n}
  /\ UNCHANGED <<question, visited>>

\* The next neighbour of the end of the first path: the target is answered
\* at once, another is queued when it is new.
Look(n) ==
  /\ Searching /\ n \in neighbours
  /\ LET path == Append(Head(queue), n)
     IN  IF n = to
         THEN answer' = path /\ UNCHANGED <<queue, visited>>
         ELSE /\ visited' = visited \cup {n}
              /\ queue' = IF n \in visited THEN queue ELSE Append(queue, path)
              /\ UNCHANGED answer
  /\ neighbours' = neighbours \ {n}
  /\ UNCHANGED question

\* The next path of the queue; one of max_depth edges is dropped.
Pop ==
  /\ Searching /\ neighbours = {}
  /\ queue' = Tail(queue)
  /\ neighbours' = IF queue' # <<>> /\ MayContinue(Head(queue'))
                   THEN Adjacent(Last(Head(queue'))) ELSE {}
  /\ UNCHANGED <<question, visited, answer>>

PathNext == (\E n \in Nodes : Look(n)) \/ Pop

PathSpec == PathInit /\ [][PathNext]_pathVars

-----------------------------------------------------------------------------
(* Properties                                                              *)

\* The ways to go along k edges, some of them perhaps more than once.
Walks(k) ==
  {w \in [0..k -> Nodes] : /\ w[0] = from
                           /\ \A i \in 1..k : {w[i - 1], w[i]} \in graph}

Lengths == {k \in 1..depth : \E w \in Walks(k) : w[k] = to}

\* The search answers with a path of the graph from one node to the other,
\* and no walk between them is shorter; without an answer there is none of
\* max_depth edges or fewer.  A node is found from itself in one edge, or
\* there and back (graph_repository.py:173-189).
ShortestPathFound ==
  /\ answer # <<>> =>
       /\ answer[1] = from /\ Last(answer) = to /\ Edges(answer) \in Lengths
       /\ \A k \in 1..Edges(answer) : {answer[k], answer[k + 1]} \in graph
       /\ \A k \in Lengths : Edges(answer) <= k
  /\ queue = <<>> => Lengths = {}

\* Nodes that an unanswered search has not met.
Unmet == IF answer = <<>> THEN Cardinality(Nodes \ visited) + 1 ELSE 0

\* The search ends on any graph, cycles or not, and continues a path to each
\* node once at most: whatever makes the queue longer meets a node it had not
\* met (graph_repository.py:173-189).
SearchAdvances ==
  [][/\ Unmet' \in Nat
     /\ \/ Unmet' < Unmet
        \/ /\ Unmet' = Unmet
           /\ \/ Len(queue') < Len(queue)
              \/ /\ queue' = queue
                 /\ Cardinality(neighbours') < Cardinality(neighbours)
    ]_pathVars

=============================================================================
