------------------------- MODULE ServicesPaths_proofs ------------------------
(***************************************************************************)
(* The search for a path in Services finds a shortest one, whatever the    *)
(* graph, the order of its edges and the depth.                            *)
(***************************************************************************)
EXTENDS ServicesSources_proofs

\* The edges of the path that is being continued, and where it ends.
Level == Edges(Head(queue))
Here  == Last(Head(queue))

\* Where the paths of the queue end, and those that are longer by one.
PathEnds     == {Last(queue[i]) : i \in 1..Len(queue)}
LaterEnds == {Last(queue[i]) : i \in {j \in 1..Len(queue) :
                                       Edges(queue[j]) = Level + 1}}

\* A path of the graph that begins where the search does.
IsPath(p) ==
  /\ p \in Paths /\ p[1] = from /\ Last(p) \in visited
  /\ \A k \in 1..Edges(p) : {p[k], p[k + 1]} \in graph

\* The queue holds paths that are no longer than its first by more than one
\* edge, the longer ones last; what is looked at is next to the first.
QueueInv ==
  /\ \A i \in 1..Len(queue) : IsPath(queue[i])
  /\ \A i \in 1..Len(queue) : Edges(queue[i]) \in {Level, Level + 1}
  /\ \A i, j \in 1..Len(queue) : i < j => Edges(queue[i]) <= Edges(queue[j])
  /\ from \in visited
  /\ queue # <<>> => neighbours \subseteq Adjacent(Here)

\* Every neighbour is visited, and none of them is the target.
Expanded(n, but) == Adjacent(n) \ but \subseteq visited \ {to}

\* Nodes that have left the queue are expanded, and the one at its front up to
\* the neighbours that are left, until the depth is reached.
ExpandedInv ==
  queue # <<>> /\ Level < depth =>
    /\ \A n \in visited \ PathEnds : Expanded(n, {})
    /\ Expanded(Here, neighbours)

\* A walk as long as the first path or shorter ends in a node that was put
\* into the queue before those of the next level, and not at the target.
WalksInv ==
  queue # <<>> =>
    \A k \in 0..Level : \A w \in Walks(k) :
      /\ w[k] \in visited \ LaterEnds
      /\ k > 0 => w[k] # to

SearchInv ==
  /\ PathInv
  /\ answer = <<>> => QueueInv /\ ExpandedInv /\ WalksInv
  /\ ShortestPathFound

\* A walk begins with a walk of one edge less, and goes on to a neighbour.
LEMMA WalkBefore ==
  ASSUME NEW k \in Nat, NEW w \in Walks(k + 1)
  PROVE  \E v \in Walks(k) : /\ \A i \in 0..k : v[i] = w[i]
                             /\ w[k + 1] \in Adjacent(v[k])
                             /\ w[k + 1] \in Nodes
<1> DEFINE v == [i \in 0..k |-> w[i]]
<1>1. /\ w \in [0..(k + 1) -> Nodes] /\ w[0] = from
      /\ \A i \in 1..(k + 1) : {w[i - 1], w[i]} \in graph
  BY DEF Walks
<1>2. v \in [0..k -> Nodes] /\ \A i \in 0..k : v[i] = w[i]
  BY <1>1
<1>3. \A i \in 1..k : {v[i - 1], v[i]} \in graph
  <2>1. ASSUME NEW i \in 1..k PROVE {v[i - 1], v[i]} \in graph
    <3>1. i - 1 \in 0..k /\ i \in 0..k /\ i \in 1..(k + 1)
      OBVIOUS
    <3>. QED
      BY <1>1, <1>2, <3>1
  <2>. QED
    BY <2>1
<1>4. v[0] = from
  BY <1>1, <1>2
<1>5. w[k + 1] \in Adjacent(v[k]) /\ w[k + 1] \in Nodes
  <2>1. {w[(k + 1) - 1], w[k + 1]} \in graph /\ (k + 1) - 1 = k
    BY <1>1
  <2>2. w[k + 1] \in Nodes /\ v[k] = w[k]
    BY <1>1
  <2>. QED
    BY <2>1, <2>2 DEF Adjacent
<1>. QED
  BY <1>2, <1>3, <1>4, <1>5 DEF Walks

\* A walk within a set of nodes that has all their neighbours.
LEMMA WalkWithin ==
  ASSUME NEW S, from \in S, \A n \in S : Adjacent(n) \subseteq S,
         NEW k \in Nat, NEW w \in Walks(k)
  PROVE  \A i \in 0..k : w[i] \in S
<1> DEFINE T == {i \in 0..k : w[i] \in S}
<1>1. /\ w \in [0..k -> Nodes] /\ w[0] = from
      /\ \A i \in 1..k : {w[i - 1], w[i]} \in graph
  BY DEF Walks
<1>2. T \in SUBSET Nat /\ IsFiniteSet(T)
  <2>1. T \in SUBSET (0..k) /\ IsFiniteSet(0..k)
    BY FS_Interval
  <2>. QED
    BY <2>1, FS_Subset
<1>3. PICK n \in Nat : n \notin T /\ \A j \in 0..(n - 1) : j \in T
  BY <1>2, LeastOutside
<1>4. n > k
  <2>1. SUFFICES ASSUME n <= k PROVE FALSE
    OBVIOUS
  <2>2. n # 0
    BY <1>1, <1>3
  <2>3. n - 1 \in T /\ n \in 1..k
    BY <1>3, <2>1, <2>2
  <2>4. w[n] \in Adjacent(w[n - 1])
    BY <1>1, <2>3 DEF Adjacent
  <2>. QED
    BY <1>3, <2>3, <2>4
<1>. QED
  BY <1>3, <1>4

\* The path that is being continued.
LEMMA Front ==
  ASSUME SearchInv, answer = <<>>, queue # <<>>
  PROVE  /\ queue \in Seq(Paths) /\ Len(queue) \in Nat \ {0}
         /\ Head(queue) = queue[1] /\ IsPath(Head(queue))
         /\ Level \in 0..depth /\ Len(Head(queue)) = Level + 1
         /\ Here \in visited /\ Here \in Nodes /\ depth \in 1..MaxDepth
         /\ Head(queue) \in [1..(Level + 1) -> Nodes]
         /\ depth \in Nat /\ visited \in SUBSET Nodes
         /\ neighbours # {} => Level < depth
<1>1. /\ queue \in Seq(Paths) /\ depth \in 1..MaxDepth
      /\ visited \in SUBSET Nodes
  BY DEF SearchInv, PathInv, PathTypeOK
<1>2. /\ Head(queue) \in Paths /\ Head(queue) = queue[1]
      /\ Len(Head(queue)) \in 1..(depth + 1) /\ 1 \in 1..Len(queue)
      /\ Last(Head(queue)) \in Nodes
  BY FirstPath DEF SearchInv
<1>3. IsPath(Head(queue))
  BY <1>2 DEF SearchInv, QueueInv
<1>4. depth \in Nat /\ Len(queue) \in Nat \ {0}
  BY <1>1, <1>2, PathsAssumption
<1>5. Level \in 0..depth /\ Len(Head(queue)) = Level + 1
  BY <1>2, <1>4 DEF Level, Edges
<1>6. Head(queue) \in [1..(Level + 1) -> Nodes]
  <2>1. PICK m \in 1..(MaxDepth + 1) : Head(queue) \in [1..m -> Nodes]
    BY <1>2 DEF Paths
  <2>2. m \in Nat
    BY PathsAssumption
  <2>3. Len(Head(queue)) = m
    BY <2>1, <2>2
  <2>. QED
    BY <1>5, <2>1, <2>3
<1>7. neighbours # {} => Level < depth
  BY <1>4, <1>5 DEF SearchInv, PathInv
<1>. QED
  BY <1>1, <1>2, <1>3, <1>4, <1>5, <1>6, <1>7 DEF IsPath, Here

\* The first path and a neighbour of its end are a path, and a walk.
LEMMA Further ==
  ASSUME SearchInv, answer = <<>>, queue # <<>>, NEW n \in neighbours,
         NEW path, path = Append(Head(queue), n)
  PROVE  /\ path \in Paths /\ path[1] = from /\ Last(path) = n
         /\ n \in Nodes /\ path # <<>>
         /\ Edges(path) = Level + 1 /\ Edges(path) \in 1..depth
         /\ \A k \in 1..Edges(path) : {path[k], path[k + 1]} \in graph
         /\ \E w \in Walks(Edges(path)) : w[Edges(path)] = n
<1> DEFINE h == Head(queue)
<1>1. /\ h \in [1..(Level + 1) -> Nodes] /\ IsPath(h) /\ Len(h) = Level + 1
      /\ Level \in 0..depth /\ Level < depth /\ depth \in 1..MaxDepth
      /\ depth \in Nat /\ Here \in Nodes
  BY Front
<1>2. n \in Adjacent(Here) /\ n \in Nodes
  BY DEF SearchInv, QueueInv, Adjacent
<1>3. Here = h[Level + 1]
  BY <1>1 DEF Here, Last
<1> HIDE DEF h
<1>4. h \in Seq(Nodes) /\ h \in Paths /\ Level \in Nat
  BY <1>1 DEF IsPath
<1>5. /\ path \in Seq(Nodes) /\ Len(path) = Level + 2 /\ path # <<>>
      /\ \A i \in 1..(Level + 1) : path[i] = h[i]
      /\ path[Level + 2] = n
  <2>1. path = Append(h, n)
    BY DEF h
  <2>2. /\ path \in Seq(Nodes) /\ Len(path) = Len(h) + 1 /\ path # <<>>
        /\ \A i \in 1..Len(h) : path[i] = h[i]
        /\ path[Len(h) + 1] = n
    <3>1. h \in Seq(Nodes) /\ n \in Nodes
      BY <1>2, <1>4
    <3>. QED
      BY ONLY <2>1, <3>1, AppendProperties
  <2>. QED
    BY <1>1, <1>4, <2>2
<1>6. path \in Paths
  BY <1>1, <1>2, <1>4, PathLengths DEF h
<1>7. Edges(path) = Level + 1 /\ Last(path) = n /\ path[1] = from
  BY <1>1, <1>4, <1>5 DEF Edges, Last, IsPath
<1>8. Edges(h) = Level
  BY <1>1, <1>4 DEF Edges
<1>9. ASSUME NEW k \in 1..(Level + 1)
      PROVE  {path[k], path[k + 1]} \in graph
  <2>1. CASE k \in 1..Level
    <3>1. {h[k], h[k + 1]} \in graph
      BY <1>1, <1>8, <2>1 DEF IsPath
    <3>2. k \in 1..(Level + 1) /\ k + 1 \in 1..(Level + 1)
      BY <1>4, <2>1
    <3>3. path[k] = h[k] /\ path[k + 1] = h[k + 1]
      BY <1>5, <3>2
    <3>. QED
      BY <3>1, <3>3
  <2>2. CASE k = Level + 1
    <3>1. {Here, n} \in graph
      BY <1>2 DEF Adjacent
    <3>2. k + 1 = Level + 2 /\ path[k] = Here /\ path[k + 1] = n
      BY <1>3, <1>4, <1>5, <2>2
    <3>. QED
      BY <3>1, <3>2
  <2>3. k \in 1..Level \/ k = Level + 1
    BY <1>4
  <2>. QED
    BY <2>1, <2>2, <2>3
<1>10. \E w \in Walks(Level + 1) : w[Level + 1] = n
  <2> DEFINE w == [i \in 0..(Level + 1) |-> path[i + 1]]
  <2>1. \A i \in 0..(Level + 1) : i + 1 \in 1..(Level + 2)
    BY <1>4
  <2>2. path \in [1..(Level + 2) -> Nodes]
    BY <1>5, LenProperties
  <2>3. w \in [0..(Level + 1) -> Nodes]
    BY <2>1, <2>2
  <2>4. w[0] = from /\ w[Level + 1] = n
    BY <1>4, <1>5, <1>7
  <2>5. ASSUME NEW i \in 1..(Level + 1) PROVE {w[i - 1], w[i]} \in graph
    <3>0. /\ i - 1 \in 0..(Level + 1) /\ i \in 0..(Level + 1)
          /\ (i - 1) + 1 = i
      BY <1>4
    <3>1. w[i - 1] = path[i] /\ w[i] = path[i + 1]
      BY <3>0
    <3>. QED
      BY <1>9, <3>1
  <2> HIDE DEF w
  <2>6. w \in Walks(Level + 1)
    BY <2>3, <2>4, <2>5 DEF Walks
  <2>. QED
    BY <2>4, <2>6
<1>. QED
  BY <1>1, <1>2, <1>4, <1>5, <1>6, <1>7, <1>9, <1>10

\* The answer is as short as any walk, since those as long as the first path
\* do not end at the target.
LEMMA StepFound ==
  ASSUME SearchInv, Look(to)
  PROVE  SearchInv'
<1>1. /\ queue # <<>> /\ answer = <<>> /\ to \in neighbours
      /\ answer' = Append(Head(queue), to) /\ UNCHANGED <<queue, visited>>
      /\ UNCHANGED question
  BY DEF Look, Searching
<1>2. PICK path : path = Append(Head(queue), to)
  OBVIOUS
<1>3. /\ path[1] = from /\ Last(path) = to /\ path # <<>>
      /\ Edges(path) = Level + 1 /\ Edges(path) \in 1..depth
      /\ \A k \in 1..Edges(path) : {path[k], path[k + 1]} \in graph
      /\ \E w \in Walks(Edges(path)) : w[Edges(path)] = to
  BY <1>1, <1>2, Further
<1>4. Lengths' = Lengths
  BY <1>1 DEF question, Lengths, Walks
<1>5. Edges(path) \in Lengths
  BY <1>3 DEF Lengths
<1>6. ASSUME NEW k \in Lengths PROVE Edges(path) <= k
  <2>1. k \in 1..depth /\ \E w \in Walks(k) : w[k] = to
    BY DEF Lengths
  <2>2. Level \in 0..depth /\ depth \in Nat
    BY <1>1, Front
  <2>3. ~(k \in 0..Level)
    BY <1>1, <2>1, <2>2 DEF SearchInv, WalksInv
  <2>. QED
    BY <1>3, <2>1, <2>2, <2>3
<1>7. answer' = path /\ graph' = graph /\ from' = from /\ to' = to
  BY <1>1, <1>2 DEF question
<1>8. ShortestPathFound'
  BY <1>1, <1>3, <1>4, <1>5, <1>6, <1>7 DEF ShortestPathFound
<1>9. PathInv'
  <2>1. to \in Nodes
    BY DEF SearchInv, PathInv, PathTypeOK
  <2>. QED
    BY <2>1, StepPath DEF SearchInv, PathNext
<1>. QED
  BY <1>3, <1>7, <1>8, <1>9 DEF SearchInv

\* A neighbour that is not the target is visited, and ends a path of the
\* queue if it had not been.
LEMMA StepPassed ==
  ASSUME SearchInv, NEW n \in Nodes, Look(n), n # to
  PROVE  SearchInv'
<1>1. /\ queue # <<>> /\ answer = <<>> /\ n \in neighbours
      /\ answer' = <<>> /\ visited' = visited \cup {n}
      /\ neighbours' = neighbours \ {n} /\ UNCHANGED question
  BY DEF Look, Searching
<1>2. PICK path : path = Append(Head(queue), n)
  OBVIOUS
<1>3. queue' = IF n \in visited THEN queue ELSE Append(queue, path)
  BY <1>2 DEF Look
<1>4. /\ queue \in Seq(Paths) /\ Len(queue) \in Nat \ {0}
      /\ Head(queue) = queue[1]
      /\ Level \in 0..depth /\ Level \in Nat
  BY <1>1, Front
<1>5. /\ path \in Paths /\ path[1] = from /\ Last(path) = n
      /\ Edges(path) = Level + 1
      /\ \A k \in 1..Edges(path) : {path[k], path[k + 1]} \in graph
  BY <1>1, <1>2, Further
<1>6. /\ graph' = graph /\ from' = from /\ to' = to /\ depth' = depth
      /\ \A k : Walks(k)' = Walks(k) /\ \A m : Adjacent(m)' = Adjacent(m)
  BY <1>1 DEF question, Walks, Adjacent
<1>7. PathInv'
  BY StepPath DEF SearchInv, PathNext
<1>8. QueueInv /\ ExpandedInv /\ WalksInv
  BY <1>1 DEF SearchInv
<1>9. \A q : IsPath(q) => IsPath(q)'
  BY <1>1, <1>6 DEF IsPath
<1>10. QueueInv' /\ ExpandedInv' /\ WalksInv' /\ queue' # <<>>
  <2>1. CASE n \in visited
    <3>1. queue' = queue /\ visited' = visited
      BY <1>1, <1>3, <2>1
    <3>2. /\ Level' = Level /\ Here' = Here
          /\ PathEnds' = PathEnds /\ LaterEnds' = LaterEnds
      BY <3>1 DEF Level, Here, PathEnds, LaterEnds
    <3>3. QueueInv'
      BY <1>1, <1>6, <1>8, <1>9, <3>1, <3>2 DEF QueueInv
    <3>4. ExpandedInv'
      BY <1>1, <1>6, <1>8, <2>1, <3>1, <3>2 DEF ExpandedInv, Expanded
    <3>5. WalksInv'
      BY <1>6, <1>8, <3>1, <3>2 DEF WalksInv
    <3>. QED
      BY <1>1, <3>1, <3>3, <3>4, <3>5
  <2>2. CASE n \notin visited
    <3>1. /\ queue' \in Seq(Paths) /\ Len(queue') = Len(queue) + 1
          /\ queue' # <<>>
          /\ \A i \in 1..Len(queue) : queue'[i] = queue[i]
          /\ queue'[Len(queue) + 1] = path
      <4>1. queue' = Append(queue, path)
        BY <1>3, <2>2
      <4>. QED
        BY ONLY <1>4, <1>5, <4>1, AppendProperties
    <3>2. Head(queue') = Head(queue)
      BY <1>4, <3>1
    <3>3. Level' = Level /\ Here' = Here
      BY <3>2 DEF Level, Here
    <3>4. \A i \in 1..Len(queue') :
            i \in 1..Len(queue) \/ i = Len(queue) + 1
      BY <1>4, <3>1
    <3>5. n \in PathEnds' /\ PathEnds \subseteq PathEnds'
      <4>1. Len(queue) + 1 \in 1..Len(queue')
        BY <1>4, <3>1
      <4>2. 1..Len(queue) \subseteq 1..Len(queue')
        BY <1>4, <3>1
      <4>. QED
        BY <1>5, <3>1, <4>1, <4>2 DEF PathEnds
    <3>6. LaterEnds' \subseteq LaterEnds \cup {n}
      BY <1>5, <3>1, <3>3, <3>4 DEF LaterEnds
    <3>7. QueueInv'
      <4>1. ASSUME NEW i \in 1..Len(queue') PROVE IsPath(queue[i])'
        <5>1. CASE i \in 1..Len(queue)
          <6>1. IsPath(queue[i]) /\ queue'[i] = queue[i]
            BY <1>8, <3>1, <5>1 DEF QueueInv
          <6>. QED
            BY <1>1, <1>6, <6>1 DEF IsPath
        <5>2. CASE i = Len(queue) + 1
          BY <1>1, <1>5, <1>6, <3>1, <5>2 DEF IsPath
        <5>. QED
          BY <3>4, <5>1, <5>2
      <4>2. \A i \in 1..Len(queue') : Edges(queue'[i]) \in {Level, Level + 1}
        BY <1>5, <1>8, <3>1, <3>4 DEF QueueInv
      <4>3. \A i, j \in 1..Len(queue') :
              i < j => Edges(queue'[i]) <= Edges(queue'[j])
        <5>1. ASSUME NEW i \in 1..Len(queue'), NEW j \in 1..Len(queue'),
                     i < j
              PROVE  Edges(queue'[i]) <= Edges(queue'[j])
          <6>1. i \in 1..Len(queue)
            BY <1>4, <3>1, <5>1
          <6>2. CASE j \in 1..Len(queue)
            BY <1>8, <3>1, <5>1, <6>1, <6>2 DEF QueueInv
          <6>3. CASE j = Len(queue) + 1
            <7>1. Edges(queue'[i]) \in {Level, Level + 1}
              BY <4>2
            <7>2. Edges(queue'[j]) = Level + 1
              BY <1>5, <3>1, <6>3
            <7>. QED
              BY <1>4, <7>1, <7>2
          <6>. QED
            BY <3>4, <6>2, <6>3
        <5>. QED
          BY <5>1
      <4>4. from' \in visited' /\ neighbours' \subseteq Adjacent(Here)'
        <5>1. neighbours' \subseteq Adjacent(Here)
          BY <1>1, <1>8 DEF QueueInv
        <5>. QED
          BY <1>1, <1>6, <1>8, <3>3, <5>1 DEF QueueInv, Adjacent
      <4>5. \A i \in 1..Len(queue') :
              Edges(queue[i])' \in {Level', Level' + 1}
        BY <3>3, <4>2 DEF Edges
      <4>6. \A i, j \in 1..Len(queue') :
              i < j => Edges(queue[i])' <= Edges(queue[j])'
        BY <4>3 DEF Edges
      <4>. QED
        BY <4>1, <4>4, <4>5, <4>6 DEF QueueInv
    <3>8. ExpandedInv'
      <4>1. visited' \ PathEnds' \subseteq visited \ PathEnds
        BY <1>1, <3>5
      <4>. QED
        BY <1>1, <1>6, <1>8, <3>3, <4>1 DEF ExpandedInv, Expanded
    <3>9. WalksInv'
      <4>1. visited \ LaterEnds \subseteq visited' \ LaterEnds'
        BY <1>1, <2>2, <3>6
      <4>. QED
        BY <1>1, <1>6, <1>8, <3>3, <4>1 DEF WalksInv
    <3>. QED
      BY <3>1, <3>7, <3>8, <3>9
  <2>. QED
    BY <2>1, <2>2
<1>11. ShortestPathFound'
  BY <1>1, <1>10 DEF ShortestPathFound
<1>. QED
  BY <1>7, <1>10, <1>11 DEF SearchInv

\* The first path leaves the queue, which is empty then.
LEMMA StepLast ==
  ASSUME SearchInv, Pop, queue' = <<>>
  PROVE  SearchInv'
<1>1. /\ queue # <<>> /\ answer = <<>> /\ neighbours = {}
      /\ queue' = Tail(queue) /\ UNCHANGED <<question, visited, answer>>
  BY DEF Pop, Searching
<1>2. /\ queue \in Seq(Paths) /\ Len(queue) \in Nat \ {0}
      /\ Head(queue) = queue[1] /\ Level \in 0..depth /\ depth \in Nat
      /\ Here \in visited
  BY <1>1, Front
<1>3. Len(queue) = 1
  <2>1. Len(queue') = Len(queue) - 1
    BY <1>1, <1>2, HeadTailProperties
  <2>. QED
    BY <1>2, <2>1
<1>4. PathEnds \subseteq {Here}
  BY <1>2, <1>3 DEF PathEnds, Here
<1>5. QueueInv /\ ExpandedInv /\ WalksInv
  BY <1>1 DEF SearchInv
<1>6. ASSUME NEW k \in 1..depth, NEW w \in Walks(k)
      PROVE  w[k] # to
  <2>1. CASE Level = depth
    BY <1>1, <1>2, <1>5, <2>1 DEF WalksInv
  <2>2. CASE Level < depth
    <3>1. \A n \in visited : Adjacent(n) \subseteq visited \ {to}
      BY <1>1, <1>4, <1>5, <2>2 DEF ExpandedInv, Expanded
    <3>2. k \in Nat /\ k - 1 \in 0..k /\ k \in 1..k /\ k \in 0..k
      BY <1>2
    <3>3. w[k - 1] \in visited
      <4>1. from \in visited /\ \A n \in visited : Adjacent(n) \subseteq visited
        BY <1>5, <3>1 DEF QueueInv
      <4>. QED
        BY <3>2, <4>1, WalkWithin
    <3>4. w[k] \in Adjacent(w[k - 1])
      BY <3>2 DEF Walks, Adjacent
    <3>. QED
      BY <3>1, <3>3, <3>4
  <2>. QED
    BY <1>2, <2>1, <2>2
<1>7. Lengths = {}
  BY <1>6 DEF Lengths
<1>8. Lengths' = Lengths
  BY <1>1 DEF question, Lengths, Walks
<1>9. ShortestPathFound'
  BY <1>1, <1>7, <1>8 DEF ShortestPathFound
<1>10. PathInv'
  BY StepPath DEF SearchInv, PathNext
<1>11. QueueInv' /\ ExpandedInv' /\ WalksInv'
  BY <1>1, <1>5 DEF QueueInv, ExpandedInv, WalksInv, question
<1>. QED
  BY <1>9, <1>10, <1>11 DEF SearchInv

\* The first path leaves the queue, and the next one is continued: of the same
\* level, or of the next one when all walks of this level are expanded.
LEMMA StepNext ==
  ASSUME SearchInv, Pop, queue' # <<>>
  PROVE  SearchInv'
<1>1. /\ queue # <<>> /\ answer = <<>> /\ answer' = <<>> /\ neighbours = {}
      /\ queue' = Tail(queue) /\ UNCHANGED <<question, visited>>
      /\ neighbours' = IF MayContinue(Head(queue'))
                       THEN Adjacent(Last(Head(queue'))) ELSE {}
  BY DEF Pop, Searching
<1>2. /\ queue \in Seq(Paths) /\ Len(queue) \in Nat \ {0}
      /\ Head(queue) = queue[1] /\ Level \in 0..depth /\ Level \in Nat
      /\ depth \in Nat /\ Here \in visited
  BY <1>1, Front
<1>3. /\ graph' = graph /\ from' = from /\ to' = to /\ depth' = depth
      /\ visited' = visited
      /\ \A k : Walks(k)' = Walks(k) /\ \A m : Adjacent(m)' = Adjacent(m)
  BY <1>1 DEF question, Walks, Adjacent
<1>4. PathInv'
  BY StepPath DEF SearchInv, PathNext
<1>5. QueueInv /\ ExpandedInv /\ WalksInv
  BY <1>1 DEF SearchInv
<1>6. /\ queue' \in Seq(Paths) /\ Len(queue') = Len(queue) - 1
      /\ \A i \in 1..Len(queue') : queue'[i] = queue[i + 1]
      /\ Len(queue') \in Nat \ {0}
  <2>1. /\ queue' \in Seq(Paths) /\ Len(queue') = Len(queue) - 1
        /\ \A i \in 1..Len(queue') : queue'[i] = queue[i + 1]
    BY <1>1, <1>2, HeadTailProperties
  <2>2. Len(queue') \in Nat \ {0}
    BY <2>1, EmptySeq
  <2>. QED
    BY <2>1, <2>2
<1>7. \A i \in 1..Len(queue') : i + 1 \in 1..Len(queue)
  BY <1>2, <1>6
<1>8. Head(queue') = queue'[1] /\ 1 \in 1..Len(queue')
  BY <1>6
<1>9. Level' = Edges(queue'[1]) /\ Here' = Last(queue'[1])
  BY <1>8 DEF Level, Here, Edges, Last
<1>10. \A i \in 1..Len(queue') :
         Edges(queue'[i]) \in {Level, Level + 1} /\ Edges(queue'[i]) >= Level'
  <2>1. ASSUME NEW i \in 1..Len(queue')
        PROVE  Edges(queue'[i]) \in {Level, Level + 1}
               /\ Edges(queue'[i]) >= Level'
    <3>1. i + 1 \in 1..Len(queue) /\ 2 \in 1..Len(queue)
      BY <1>7, <1>8
    <3>2. Edges(queue[i + 1]) \in {Level, Level + 1}
      BY <1>5, <3>1 DEF QueueInv
    <3>3. Edges(queue[2]) \in {Level, Level + 1}
      BY <1>5, <3>1 DEF QueueInv
    <3>4. Level' = Edges(queue[2]) /\ queue'[i] = queue[i + 1]
      BY <1>6, <1>8, <1>9
    <3>5. Edges(queue[2]) <= Edges(queue[i + 1])
      <4>1. CASE i = 1
        BY <1>2, <3>3, <4>1
      <4>2. CASE 2 < i + 1
        BY <1>5, <3>1, <4>2 DEF QueueInv
      <4>. QED
        BY <4>1, <4>2
    <3>. QED
      BY <1>2, <3>2, <3>3, <3>4, <3>5
  <2>. QED
    BY <2>1
<1>11. Level' \in {Level, Level + 1}
  BY <1>8, <1>9, <1>10
<1>12. QueueInv'
  <2>1. ASSUME NEW i \in 1..Len(queue') PROVE IsPath(queue[i])'
    <3>1. IsPath(queue[i + 1]) /\ queue'[i] = queue[i + 1]
      BY <1>5, <1>6, <1>7 DEF QueueInv
    <3>. QED
      BY <1>3, <3>1 DEF IsPath
  <2>2. \A i \in 1..Len(queue') : Edges(queue[i])' \in {Level', Level' + 1}
    <3>1. \A i \in 1..Len(queue') : Edges(queue'[i]) \in {Level', Level' + 1}
      BY <1>2, <1>10, <1>11
    <3>. QED
      BY <3>1 DEF Edges
  <2>3. \A i, j \in 1..Len(queue') :
          i < j => Edges(queue[i])' <= Edges(queue[j])'
    <3>1. \A i, j \in 1..Len(queue') :
            i < j => Edges(queue'[i]) <= Edges(queue'[j])
      <4>1. ASSUME NEW i \in 1..Len(queue'), NEW j \in 1..Len(queue'), i < j
            PROVE  Edges(queue'[i]) <= Edges(queue'[j])
        <5>1. i + 1 \in 1..Len(queue) /\ j + 1 \in 1..Len(queue) /\ i + 1 < j + 1
          BY <1>6, <1>7, <4>1
        <5>2. Edges(queue[i + 1]) <= Edges(queue[j + 1])
          BY <1>5, <5>1 DEF QueueInv
        <5>. QED
          BY <1>6, <5>2
      <4>. QED
        BY <4>1
    <3>. QED
      BY <3>1 DEF Edges
  <2>4. neighbours' \subseteq Adjacent(Here)'
    BY <1>1, <1>3, <1>8, <1>9 DEF Adjacent
  <2>5. from' \in visited'
    BY <1>3, <1>5 DEF QueueInv
  <2>. QED
    BY <2>1, <2>2, <2>3, <2>4, <2>5 DEF QueueInv
<1>13. ASSUME Level < depth, NEW n \in visited \ PathEnds'
       PROVE  Expanded(n, {})
  <2>1. CASE n = Here
    BY <1>1, <1>5, <1>13, <2>1 DEF ExpandedInv
  <2>2. CASE n # Here
    <3>1. n \notin PathEnds
      <4>1. SUFFICES ASSUME NEW i \in 1..Len(queue), n = Last(queue[i])
                     PROVE  FALSE
        BY DEF PathEnds
      <4>2. i # 1
        BY <1>2, <2>2, <4>1 DEF Here
      <4>3. i - 1 \in 1..Len(queue') /\ (i - 1) + 1 = i
        BY <1>2, <1>6, <4>2
      <4>4. queue'[i - 1] = queue[i]
        BY <1>6, <4>3
      <4>5. Last(queue'[i - 1]) \in PathEnds'
        BY <4>3 DEF PathEnds, Last
      <4>. QED
        BY <1>13, <4>1, <4>4, <4>5
    <3>. QED
      BY <1>1, <1>5, <1>13, <3>1 DEF ExpandedInv
  <2>. QED
    BY <2>1, <2>2
<1>14. ExpandedInv'
  <2>1. SUFFICES ASSUME Level' < depth
                 PROVE  /\ \A n \in visited \ PathEnds' : Expanded(n, {})'
                        /\ Expanded(Here, neighbours)'
    BY <1>3 DEF ExpandedInv
  <2>2. Level < depth
    BY <1>2, <1>11, <2>1
  <2>3. \A n \in visited \ PathEnds' : Expanded(n, {})'
    BY <1>3, <1>13, <2>2 DEF Expanded
  <2>4. neighbours' = Adjacent(Here)'
    <3>1. MayContinue(Head(queue'))
      BY <1>8, <1>9, <2>1 DEF MayContinue
    <3>. QED
      BY <1>1, <1>3, <1>8, <1>9, <3>1 DEF Adjacent
  <2>. QED
    BY <2>3, <2>4 DEF Expanded
<1>15. WalksInv'
  <2>1. CASE Level' = Level
    <3>1. LaterEnds' \subseteq LaterEnds
      <4>1. \A i \in 1..Len(queue') : Edges(queue'[i]) = Level' + 1 =>
              /\ i + 1 \in 1..Len(queue) /\ queue'[i] = queue[i + 1]
              /\ Edges(queue[i + 1]) = Level + 1
        BY <1>6, <1>7, <2>1
      <4>. QED
        BY <4>1 DEF LaterEnds, Edges, Last
    <3>. QED
      BY <1>1, <1>3, <1>5, <2>1, <3>1 DEF WalksInv
  <2>2. CASE Level' = Level + 1
    <3>1. LaterEnds' = {}
      <4>1. \A i \in 1..Len(queue') : Edges(queue'[i]) # Level' + 1
        BY <1>2, <1>10, <2>2
      <4>. QED
        BY <4>1 DEF LaterEnds, Edges
    <3>2. PathEnds' \subseteq LaterEnds
      <4>1. ASSUME NEW i \in 1..Len(queue')
            PROVE  Last(queue'[i]) \in LaterEnds
        <5>1. Edges(queue'[i]) = Level + 1
          BY <1>2, <1>10, <2>2
        <5>2. i + 1 \in 1..Len(queue) /\ queue'[i] = queue[i + 1]
          BY <1>6, <1>7
        <5>. QED
          BY <5>1, <5>2 DEF LaterEnds
      <4>. QED
        BY <4>1 DEF PathEnds, Last
    <3>3. Level < depth
      <4>1. Len(queue'[1]) <= depth + 1
        BY <1>3, <1>4, <1>8 DEF PathInv
      <4>2. queue'[1] \in Paths
        BY <1>6, <1>8
      <4>3. Len(queue'[1]) \in Nat
        BY <4>2, PathsAssumption DEF Paths
      <4>. QED
        BY <1>2, <1>9, <2>2, <4>1, <4>3 DEF Edges
    <3>4. ASSUME NEW k \in 0..(Level + 1), NEW w \in Walks(k)
          PROVE  w[k] \in visited /\ (k > 0 => w[k] # to)
      <4>1. CASE k \in 0..Level
        BY <1>1, <1>5, <4>1 DEF WalksInv
      <4>2. CASE k = Level + 1
        <5>1. PICK v \in Walks(Level) : w[Level + 1] \in Adjacent(v[Level])
          BY <1>2, <4>2, WalkBefore
        <5>2. v[Level] \in visited \ LaterEnds
          BY <1>1, <1>2, <1>5 DEF WalksInv
        <5>3. Expanded(v[Level], {})
          BY <1>13, <3>2, <3>3, <5>2
        <5>. QED
          BY <4>2, <5>1, <5>3 DEF Expanded
      <4>. QED
        BY <1>2, <4>1, <4>2
    <3>. QED
      BY <1>3, <2>2, <3>1, <3>4 DEF WalksInv
  <2>. QED
    BY <1>11, <2>1, <2>2
<1>16. ShortestPathFound'
  BY <1>1 DEF ShortestPathFound
<1>. QED
  BY <1>4, <1>12, <1>14, <1>15, <1>16 DEF SearchInv

-----------------------------------------------------------------------------

\* The search begins with the walk of no edges.
LEMMA InitSearch == PathInit => SearchInv
<1> SUFFICES ASSUME PathInit PROVE SearchInv
  OBVIOUS
<1>1. /\ queue = <<<<from>>>> /\ visited = {from} /\ from \in Nodes
      /\ neighbours = Adjacent(from) /\ answer = <<>>
  BY DEF PathInit
<1>2. PathInv
  BY InitPath
<1>3. /\ Len(queue) = 1 /\ queue[1] = <<from>> /\ Head(queue) = <<from>>
      /\ Len(<<from>>) = 1 /\ <<from>>[1] = from /\ queue # <<>>
  BY <1>1
<1>4. Level = 0 /\ Here = from /\ Edges(<<from>>) = 0 /\ Last(<<from>>) = from
  <2>1. Edges(<<from>>) = 0
    BY <1>3 DEF Edges
  <2>2. Last(<<from>>) = from
    <3>1. Last(<<from>>) = <<from>>[Len(<<from>>)]
      BY DEF Last
    <3>. QED
      BY <1>3, <3>1
  <2>3. Level = Edges(<<from>>) /\ Here = Last(<<from>>)
    BY <1>3 DEF Level, Here
  <2>. QED
    BY <2>1, <2>2, <2>3
<1>5. \A i \in 1..Len(queue) : i = 1
  BY <1>3
<1>6. IsPath(<<from>>)
  <2>1. queue[1] \in Paths
    BY <1>2, <1>3 DEF PathInv, PathTypeOK
  <2>. QED
    BY <1>1, <1>3, <1>4, <2>1 DEF IsPath
<1>7. QueueInv
  BY <1>1, <1>3, <1>4, <1>5, <1>6 DEF QueueInv
<1>8. PathEnds = {from} /\ LaterEnds = {}
  BY <1>3, <1>4, <1>5 DEF PathEnds, LaterEnds
<1>9. ExpandedInv
  BY <1>1, <1>4, <1>8 DEF ExpandedInv, Expanded
<1>10. WalksInv
  BY <1>1, <1>4, <1>8 DEF WalksInv, Walks
<1>11. ShortestPathFound
  BY <1>1, <1>3 DEF ShortestPathFound
<1>. QED
  BY <1>2, <1>7, <1>9, <1>10, <1>11 DEF SearchInv

\* Every step of the search keeps the invariant.
LEMMA StepSearch == SearchInv /\ [PathNext]_pathVars => SearchInv'
<1> SUFFICES ASSUME SearchInv, [PathNext]_pathVars PROVE SearchInv'
  OBVIOUS
<1>1. ASSUME NEW n \in Nodes, Look(n) PROVE SearchInv'
  BY <1>1, StepFound, StepPassed
<1>2. CASE Pop
  BY <1>2, StepLast, StepNext
<1>3. CASE UNCHANGED pathVars
  <2>1. UNCHANGED <<graph, from, to, depth, queue, visited, neighbours, answer>>
    BY <1>3 DEF pathVars, question
  <2>2. PathInv'
    BY <1>3, StepPath DEF SearchInv
  <2>3. UNCHANGED <<Level, Here, PathEnds, LaterEnds, Lengths>>
    BY <2>1 DEF Level, Here, PathEnds, LaterEnds, Lengths, Walks
  <2>4. QueueInv => QueueInv'
    BY <2>1, <2>3 DEF QueueInv, IsPath, Adjacent
  <2>5. ExpandedInv => ExpandedInv'
    BY <2>1, <2>3 DEF ExpandedInv, Expanded, Adjacent
  <2>6. WalksInv => WalksInv'
    BY <2>1, <2>3 DEF WalksInv, Walks
  <2>7. ShortestPathFound => ShortestPathFound'
    BY <2>1, <2>3 DEF ShortestPathFound
  <2>. QED
    BY <2>1, <2>2, <2>4, <2>5, <2>6, <2>7 DEF SearchInv
<1>. QED
  BY <1>1, <1>2, <1>3 DEF PathNext

\* The search of graph_repository.py:173-189 answers with a shortest path, and
\* with none only where no walk of max_depth edges or fewer leads to the
\* target: nodes enter the queue level by level, whatever the order of edges.
THEOREM PathsAreShortest == Spec => []ShortestPathFound
<1>1. Init => SearchInv
  BY InitSearch DEF Init
<1>2. SearchInv /\ [Next]_vars => SearchInv'
  BY StepOfParts, StepSearch
<1>3. SearchInv => ShortestPathFound
  BY DEF SearchInv
<1>. QED
  BY <1>1, <1>2, <1>3, PTL DEF Spec

-----------------------------------------------------------------------------
(* The end of the search                                                   *)

\* Less of the graph to meet, or of the queue, or of the neighbours at hand.
Nearer ==
  /\ Unmet' \in Nat
  /\ \/ Unmet' < Unmet
     \/ /\ Unmet' = Unmet
        /\ \/ Len(queue') < Len(queue)
           \/ /\ queue' = queue
              /\ Cardinality(neighbours') < Cardinality(neighbours)

\* Sets of nodes are finite, and smaller without one of their members.
LEMMA NodeSets ==
  ASSUME NEW S \in SUBSET Nodes, NEW n \in S
  PROVE  /\ Cardinality(S) \in Nat /\ Cardinality(S \ {n}) \in Nat
         /\ Cardinality(S \ {n}) < Cardinality(S)
<1>1. IsFiniteSet(S)
  BY PathsAssumption, FS_Subset
<1>2. IsFiniteSet(S \ {n}) /\ Cardinality(S \ {n}) = Cardinality(S) - 1
  BY <1>1, FS_RemoveElement
<1>. QED
  BY <1>1, <1>2, FS_CardinalityType

\* Each look and each pop leaves less to do.
LEMMA StepNearer ==
  ASSUME PathInv, PathNext
  PROVE  Nearer
<1>1. /\ queue \in Seq(Paths) /\ queue # <<>> /\ answer = <<>>
      /\ neighbours \in SUBSET Nodes /\ (Nodes \ visited) \in SUBSET Nodes
  BY DEF PathInv, PathTypeOK, PathNext, Look, Pop, Searching
<1>2. Unmet = Cardinality(Nodes \ visited) + 1
  BY <1>1 DEF Unmet
<1>3. Cardinality(Nodes \ visited) \in Nat
  BY PathsAssumption, FS_Subset, FS_CardinalityType
<1>4. ASSUME NEW n \in Nodes, Look(n) PROVE Nearer
  <2>. DEFINE path == Append(Head(queue), n)
  <2>1. n \in neighbours /\ neighbours' = neighbours \ {n}
    BY <1>4 DEF Look
  <2>2. Cardinality(neighbours') < Cardinality(neighbours)
    BY <1>1, <2>1, NodeSets
  <2>3. CASE n = to
    <3>1. answer' = path
      BY <1>4, <2>3 DEF Look
    <3>2. path # <<>>
      <4>1. Head(queue) \in Paths /\ Len(Head(queue)) <= depth /\ depth \in 1..MaxDepth
        BY <1>1, <2>1, FirstPath DEF PathInv, PathTypeOK
      <4>2. Len(path) = Len(Head(queue)) + 1 /\ Len(Head(queue)) \in Nat
        BY <4>1, PathLengths, PathsAssumption DEF Paths
      <4>. QED
        BY <4>2
    <3>. HIDE DEF path
    <3>3. Unmet' = 0
      BY <3>1, <3>2 DEF Unmet
    <3>. QED
      BY ONLY <1>2, <1>3, <3>3 DEF Nearer
  <2>4. CASE n # to /\ n \in visited
    <3>1. answer' = answer /\ queue' = queue /\ visited' = visited
      BY <1>4, <2>4 DEF Look
    <3>2. Unmet' = Unmet
      BY ONLY <3>1 DEF Unmet
    <3>. QED
      BY ONLY <1>2, <1>3, <2>2, <3>1, <3>2 DEF Nearer
  <2>5. CASE n # to /\ n \notin visited
    <3>1. answer' = <<>> /\ visited' = visited \cup {n}
      BY <1>1, <1>4, <2>5 DEF Look
    <3>2. Nodes \ visited' = (Nodes \ visited) \ {n} /\ n \in Nodes \ visited
      BY <2>5, <3>1
    <3>3. /\ Cardinality(Nodes \ visited') \in Nat
          /\ Cardinality(Nodes \ visited') < Cardinality(Nodes \ visited)
      BY <1>1, <3>2, NodeSets
    <3>4. Unmet' = Cardinality(Nodes \ visited') + 1
      BY <3>1 DEF Unmet
    <3>. QED
      BY ONLY <1>2, <1>3, <3>3, <3>4 DEF Nearer
  <2>. QED
    BY <2>3, <2>4, <2>5
<1>5. CASE Pop
  <2>1. queue' = Tail(queue) /\ UNCHANGED <<visited, answer>>
    BY <1>5 DEF Pop
  <2>2. Len(queue') < Len(queue)
    <3>1. Len(queue') = Len(queue) - 1 /\ Len(queue) \in Nat
      BY <1>1, <2>1, HeadTailProperties
    <3>. QED
      BY <3>1
  <2>3. Unmet' = Unmet
    BY ONLY <2>1 DEF Unmet
  <2>. QED
    BY ONLY <1>2, <1>3, <2>2, <2>3 DEF Nearer
<1>. QED
  BY <1>4, <1>5 DEF PathNext

\* The search ends on any finite graph (graph_repository.py:173-189): a node
\* enters the queue when it is met and never again, so that each step leaves
\* fewer nodes to meet, fewer paths in the queue, or fewer neighbours.
THEOREM SearchesAdvance == Spec => SearchAdvances
<1>1. Init => PathInv
  BY InitPath DEF Init
<1>2. PathInv /\ [Next]_vars => PathInv'
  BY StepOfParts, StepPath
<1>3. PathInv /\ [Next]_vars => [Nearer]_pathVars
  BY StepOfParts, StepNearer
<1>4. [Nearer]_pathVars
        => [/\ Unmet' \in Nat
            /\ \/ Unmet' < Unmet
               \/ /\ Unmet' = Unmet
                  /\ \/ Len(queue') < Len(queue)
                     \/ /\ queue' = queue
                        /\ Cardinality(neighbours') < Cardinality(neighbours)
           ]_pathVars
  BY DEF Nearer
<1>. QED
  BY <1>1, <1>2, <1>3, <1>4, PTL DEF Spec, SearchAdvances

=============================================================================
