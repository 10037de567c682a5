---------------------- MODULE CollectionRunner_proofs ----------------------
(***************************************************************************)
(* Proofs about CollectionRunner: what a run publishes is consistent, and  *)
(* the runner implements CollectionContract, for any number of runs, any   *)
(* works, limits and batch size.                                           *)
(***************************************************************************)
EXTENDS CollectionRunner, FiniteSetTheorems, TLAPS

-----------------------------------------------------------------------------
(* Types                                                                   *)

\* The initial rows and empty sessions have their types.
LEMMA InitTypeOK == Init => TypeOK
BY DEF Init, TypeOK, Live

\* No step of a run, an import or a crash leaves the types.
LEMMA StepTypeOK == TypeOK /\ [Next]_vars => TypeOK'
<1> SUFFICES ASSUME TypeOK, [Next]_vars PROVE TypeOK'
  OBVIOUS
<1> USE DEF TypeOK, rows, memory, Goto, Live
<1>1. ASSUME NEW r \in Runs, Start(r) \/ Fail(r) PROVE TypeOK'
  BY <1>1 DEF Start, Fail
<1>2. ASSUME NEW r \in Runs, Preload(r) PROVE TypeOK'
  BY <1>2 DEF Preload
<1>3. ASSUME NEW r \in Runs, NEW w \in Works, Receive(r, w) PROVE TypeOK'
  <2>1. CASE Known(r, w)
    BY <1>3, <2>1 DEF Receive
  <2>2. CASE ~Known(r, w)
    <3>1. PICK b \in SUBSET Works, f \in SUBSET Works :
            /\ buffer' = [buffer EXCEPT ![r] = b]
            /\ flushed' = [flushed EXCEPT ![r] = f]
      <4>. DEFINE new == buffer[r] \cup {w}
      <4>1. CASE Cardinality(new) >= BatchSize
        BY <1>3, <2>2, <4>1 DEF Receive
      <4>2. CASE ~(Cardinality(new) >= BatchSize)
        BY <1>3, <2>2, <4>2 DEF Receive
      <4>. QED
        BY <4>1, <4>2
    <3>2. /\ found' = [found EXCEPT ![r] = @ + 1]
          /\ inserted' = [inserted EXCEPT ![r] = @ + 1]
          /\ UNCHANGED <<row, docs, imported, seen, seenDois, pc, earlier>>
      BY <1>3, <2>2 DEF Receive
    <3>. QED
      BY <3>1, <3>2
  <2>. QED
    BY <2>1, <2>2
<1>4. ASSUME NEW r \in Runs, EndOfStream(r) PROVE TypeOK'
  BY <1>4 DEF EndOfStream
<1>5. ASSUME NEW r \in Runs, Commit(r) PROVE TypeOK'
  BY <1>5 DEF Commit
<1>6. ASSUME NEW w \in Imports, Import(w) PROVE TypeOK'
  BY <1>6, WorksAssumption DEF Import
<1>7. CASE Crash \/ UNCHANGED vars
  BY <1>7 DEF Crash, vars
<1>. QED
  BY <1>1, <1>2, <1>3, <1>4, <1>5, <1>6, <1>7 DEF Next, Step

\* Every variable keeps its type.
THEOREM TypeCorrect == Spec => []TypeOK
<1>1. Init /\ [][Next]_vars => []TypeOK
  BY InitTypeOK, StepTypeOK, PTL
<1>. QED
  BY <1>1, PTL DEF Spec, Safety

-----------------------------------------------------------------------------
(* What a step does to a run                                               *)

\* All a step of run r, or of its surroundings, can do to what r has picked.
LEMMA PickedSteps ==
  ASSUME TypeOK, [Next]_vars, NEW r \in Runs
  PROVE  \/ Picked(r)' = Picked(r) /\ UNCHANGED <<inserted[r], found[r]>>
         \/ /\ pc[r] = "streaming" /\ pc' = pc /\ found[r] < MaxResults
            /\ found'[r] = found[r] + 1
            /\ Picked(r)' = Picked(r) /\ inserted'[r] = inserted[r]
         \/ /\ pc[r] = "streaming" /\ pc' = pc /\ found[r] < MaxResults
            /\ found'[r] = found[r] + 1
            /\ inserted'[r] = inserted[r] + 1
            /\ \E w \in Works :
                 ~Known(r, w) /\ Picked(r)' = Picked(r) \cup {w}
<1> USE DEF TypeOK, rows, memory, Goto, Picked
<1>1. ASSUME NEW x \in Runs, Start(x) \/ Fail(x) \/ Preload(x) \/ Commit(x)
      PROVE  Picked(r)' = Picked(r) /\ UNCHANGED <<inserted[r], found[r]>>
  BY <1>1 DEF Start, Fail, Preload, Commit
<1>2. ASSUME NEW x \in Runs, EndOfStream(x)
      PROVE  Picked(r)' = Picked(r) /\ UNCHANGED <<inserted[r], found[r]>>
  BY <1>2 DEF EndOfStream
<1>3. ASSUME NEW x \in Runs, NEW w \in Works, Receive(x, w), x # r
      PROVE  Picked(r)' = Picked(r) /\ UNCHANGED <<inserted[r], found[r]>>
  BY <1>3 DEF Receive
<1>4. ASSUME NEW w \in Works, Receive(r, w), Known(r, w)
      PROVE  /\ pc[r] = "streaming" /\ pc' = pc /\ found[r] < MaxResults
             /\ found'[r] = found[r] + 1
             /\ Picked(r)' = Picked(r) /\ inserted'[r] = inserted[r]
  BY <1>4 DEF Receive
<1>5. ASSUME NEW w \in Works, Receive(r, w), ~Known(r, w)
      PROVE  /\ pc[r] = "streaming" /\ pc' = pc /\ found[r] < MaxResults
             /\ found'[r] = found[r] + 1
             /\ inserted'[r] = inserted[r] + 1
             /\ Picked(r)' = Picked(r) \cup {w}
  BY <1>5 DEF Receive
<1>6. ASSUME NEW w \in Imports, Import(w)
      PROVE  Picked(r)' = Picked(r) /\ UNCHANGED <<inserted[r], found[r]>>
  BY <1>6 DEF Import
<1>7. CASE Crash \/ UNCHANGED vars
  BY <1>7 DEF Crash, vars
<1>. QED
  BY <1>1, <1>2, <1>3, <1>4, <1>5, <1>6, <1>7 DEF Next, Step

\* The rows change by an import or by the commit of one run.
LEMMA RowSteps ==
  ASSUME TypeOK, [Next]_vars
  PROVE  \/ UNCHANGED <<row, docs>>
         \/ \E r \in Runs : Commit(r)
<1> USE DEF rows, memory
<1>1. ASSUME NEW r \in Runs, Step(r) \/ Fail(r), ~Commit(r)
      PROVE  UNCHANGED <<row, docs>>
  BY <1>1 DEF Step, Start, Fail, Preload, Receive, EndOfStream
<1>2. ASSUME NEW w \in Imports, Import(w) PROVE UNCHANGED <<row, docs>>
  BY <1>2 DEF Import
<1>3. CASE Crash \/ UNCHANGED vars
  BY <1>3 DEF Crash, vars
<1>. QED
  BY <1>1, <1>2, <1>3 DEF Next

\* What a run has preloaded changes by its preload alone.
LEMMA PreloadSteps ==
  ASSUME TypeOK, [Next]_vars, NEW r \in Runs
  PROVE  \/ UNCHANGED <<seen[r], earlier[r]>>
         \/ Preload(r)
<1> USE DEF TypeOK, rows, memory
<1>1. ASSUME NEW x \in Runs, Step(x) \/ Fail(x), ~Preload(r)
      PROVE  UNCHANGED <<seen[r], earlier[r]>>
  BY <1>1 DEF Step, Start, Fail, Preload, Receive, EndOfStream, Commit
<1>2. ASSUME NEW w \in Imports, Import(w) PROVE UNCHANGED <<seen[r], earlier[r]>>
  BY <1>2 DEF Import
<1>3. CASE Crash \/ UNCHANGED vars
  BY <1>3 DEF Crash, vars
<1>. QED
  BY <1>1, <1>2, <1>3 DEF Next

\* A run that has ended stays where it is.
LEMMA EndedSteps ==
  ASSUME TypeOK, [Next]_vars, NEW r \in Runs, pc[r] \notin Live
  PROVE  UNCHANGED <<pc[r], flushed[r], buffer[r], found[r], inserted[r]>>
<1> USE DEF TypeOK, rows, memory, Goto, Live
<1>1. ASSUME NEW x \in Runs, Start(x) \/ Fail(x) \/ Preload(x) \/ Commit(x)
      PROVE  UNCHANGED <<pc[r], flushed[r], buffer[r], found[r], inserted[r]>>
  BY <1>1 DEF Start, Fail, Preload, Commit
<1>2. ASSUME NEW x \in Runs, EndOfStream(x)
      PROVE  UNCHANGED <<pc[r], flushed[r], buffer[r], found[r], inserted[r]>>
  BY <1>2 DEF EndOfStream
<1>3. ASSUME NEW x \in Runs, NEW w \in Works, Receive(x, w)
      PROVE  UNCHANGED <<pc[r], flushed[r], buffer[r], found[r], inserted[r]>>
  BY <1>3 DEF Receive
<1>4. ASSUME NEW w \in Imports, Import(w)
      PROVE  UNCHANGED <<pc[r], flushed[r], buffer[r], found[r], inserted[r]>>
  BY <1>4 DEF Import
<1>5. CASE Crash \/ UNCHANGED vars
  BY <1>5 DEF Crash, vars
<1>. QED
  BY <1>1, <1>2, <1>3, <1>4, <1>5 DEF Next, Step

\* Only a commit completes a run.
LEMMA CompletionSteps ==
  ASSUME TypeOK, [Next]_vars, NEW r \in Runs, ~Commit(r)
  PROVE  pc[r]' = "completed" <=> pc[r] = "completed"
<1> USE DEF TypeOK, rows, memory, Goto, Live
<1>1. ASSUME NEW x \in Runs, Step(x) \/ Fail(x)
      PROVE  pc[r]' = "completed" <=> pc[r] = "completed"
  <2>1. CASE Start(x) \/ Fail(x) \/ Preload(x) \/ EndOfStream(x)
    BY <2>1 DEF Start, Fail, Preload, EndOfStream
  <2>2. CASE Commit(x)
    BY <2>2 DEF Commit
  <2>3. CASE \E w \in Works : Receive(x, w)
    BY <2>3 DEF Receive
  <2>. QED
    BY <1>1, <2>1, <2>2, <2>3 DEF Step
<1>2. ASSUME NEW w \in Imports, Import(w)
      PROVE  pc[r]' = "completed" <=> pc[r] = "completed"
  BY <1>2 DEF Import
<1>3. CASE Crash \/ UNCHANGED vars
  BY <1>3 DEF Crash, vars
<1>. QED
  BY <1>1, <1>2, <1>3 DEF Next

-----------------------------------------------------------------------------
(* The inductive invariant                                                 *)

\* Only the commit touches the rows of a run, and it completes it.
LEMMA StepRow == IInv /\ [Next]_vars => RowInv'
<1>. DEFINE Row(x) ==
       IF pc[x] = "completed"
       THEN /\ docs[x] = flushed[x]
            /\ row[x] = [status |-> "completed", found |-> found[x],
                         inserted |-> inserted[x]]
       ELSE docs[x] = {} /\ row[x].status = "pending"
<1> SUFFICES ASSUME IInv, [Next]_vars, NEW r \in Runs PROVE Row(r)'
  BY DEF RowInv
<1> USE DEF IInv, TypeOK
<1>1. CASE UNCHANGED <<row, docs>> /\ ~Commit(r)
  <2>1. pc[r]' = "completed" <=> pc[r] = "completed"
    BY <1>1, CompletionSteps
  <2>2. pc[r] = "completed" => UNCHANGED <<flushed[r], found[r], inserted[r]>>
    BY EndedSteps DEF Live
  <2>. QED
    BY <1>1, <2>1, <2>2 DEF RowInv
<1>2. CASE Commit(r)
  BY <1>2 DEF Commit, Goto, memory
<1>3. ASSUME NEW x \in Runs, Commit(x), x # r PROVE Row(r)'
  BY <1>3 DEF Commit, Goto, memory, RowInv
<1>. QED
  BY <1>1, <1>2, <1>3, RowSteps

\* Nothing is picked before the preload, and the last flush empties the buffer.
LEMMA StepStage == IInv /\ [Next]_vars => StageInv'
<1>. DEFINE Stage(x) ==
       /\ pc[x] \in {"queued", "started"} => Picked(x) = {}
       /\ pc[x] \in {"finishing", "completed"} => buffer[x] = {}
<1> SUFFICES ASSUME IInv, [Next]_vars, NEW r \in Runs PROVE Stage(r)'
  BY DEF StageInv
<1> USE DEF IInv, TypeOK, rows, memory, Goto, Picked, StageInv, Live
<1>1. ASSUME NEW x \in Runs, Start(x) \/ Fail(x) \/ Preload(x) \/ Commit(x)
      PROVE  Stage(r)'
  <2>1. CASE Start(x)
    BY <2>1 DEF Start
  <2>2. CASE Fail(x)
    BY <2>2 DEF Fail
  <2>3. CASE Preload(x)
    BY <2>3 DEF Preload
  <2>4. CASE Commit(x)
    BY <2>4 DEF Commit
  <2>. QED
    BY <1>1, <2>1, <2>2, <2>3, <2>4
<1>2. ASSUME NEW x \in Runs, EndOfStream(x) PROVE Stage(r)'
  BY <1>2 DEF EndOfStream
<1>3. ASSUME NEW x \in Runs, NEW w \in Works, Receive(x, w) PROVE Stage(r)'
  <2>1. CASE x = r
    BY <1>3, <2>1 DEF Receive
  <2>2. CASE x # r
    BY <1>3, <2>2 DEF Receive
  <2>. QED
    BY <2>1, <2>2
<1>4. ASSUME NEW w \in Imports, Import(w) PROVE Stage(r)'
  BY <1>4 DEF Import
<1>5. CASE Crash \/ UNCHANGED vars
  BY <1>5 DEF Crash, vars
<1>. QED
  BY <1>1, <1>2, <1>3, <1>4, <1>5 DEF Next, Step

\* A run knows every work it has picked, if only by its checksum.
LEMMA KnowsPicked ==
  ASSUME NEW r \in Runs, NEW w \in Works, ~Known(r, w)
  PROVE  w \notin Picked(r)
BY DEF Known, SameId

\* The counter of inserted documents grows with the picked works, which are
\* never picked twice.
LEMMA StepCount == IInv /\ [Next]_vars => CountInv'
<1> SUFFICES ASSUME IInv, [Next]_vars, NEW r \in Runs
             PROVE  /\ inserted'[r] = Cardinality(Picked(r)')
                    /\ inserted'[r] <= found'[r]
                    /\ found'[r] <= MaxResults
  BY DEF CountInv
<1>1. /\ inserted[r] \in Nat /\ found[r] \in Nat /\ MaxResults \in Nat
      /\ Picked(r) \in SUBSET Works
  BY LimitsAssumption DEF IInv, TypeOK, Picked
<1>2. /\ inserted[r] = Cardinality(Picked(r))
      /\ inserted[r] <= found[r] /\ found[r] <= MaxResults
  BY DEF IInv, CountInv
<1>3. IsFiniteSet(Picked(r))
  BY <1>1, WorksAssumption, FS_Subset
<1>4. ASSUME NEW w \in Works, ~Known(r, w), Picked(r)' = Picked(r) \cup {w}
      PROVE  Cardinality(Picked(r)') = Cardinality(Picked(r)) + 1
  BY <1>3, <1>4, KnowsPicked, FS_AddElement
<1>. QED
  BY <1>1, <1>2, <1>4, PickedSteps DEF IInv

\* Being taken for the same document is symmetric.
LEMMA LikeIsSymmetric ==
  \A v, w \in Works : AlikeWorks(v, w) <=> AlikeWorks(w, v)
BY DEF AlikeWorks, SameId, SameDoi, SameSum

\* What a run does not know is like nothing it has preloaded or picked.
LEMMA UnknownIsNew ==
  ASSUME NEW r \in Runs, NEW w \in Works, ~Known(r, w)
  PROVE  \A v \in seen[r] \cup Picked(r) : ~AlikeWorks(v, w)
BY DEF Known, AlikeWorks

\* The sets for de-duplication are extended with every work that is picked.
LEMMA StepDistinct == IInv /\ [Next]_vars => DistinctInv'
<1> SUFFICES ASSUME IInv, [Next]_vars, NEW r \in Runs
             PROVE  /\ \A v, w \in Picked(r)' : v # w => ~AlikeWorks(v, w)
                    /\ \A v \in seen'[r], w \in Picked(r)' : ~AlikeWorks(v, w)
  BY DEF DistinctInv, AlikeWorks, SameId, SameDoi, SameSum
<1>0. /\ Picked(r) \in SUBSET Works
      /\ \A v, w \in Picked(r) : v # w => ~AlikeWorks(v, w)
      /\ \A v \in seen[r], w \in Picked(r) : ~AlikeWorks(v, w)
  BY DEF IInv, TypeOK, Picked, DistinctInv
<1>1. CASE Preload(r)
  <2>1. Picked(r) = {}
    BY <1>1 DEF Preload, IInv, StageInv
  <2>2. Picked(r)' = Picked(r)
    BY <1>1 DEF Preload, Picked
  <2>. QED
    BY <2>1, <2>2
<1>2. CASE seen'[r] = seen[r] /\ Picked(r)' = Picked(r)
  BY <1>0, <1>2
<1>3. ASSUME seen'[r] = seen[r],
             NEW w \in Works, ~Known(r, w), Picked(r)' = Picked(r) \cup {w}
      PROVE  /\ \A v, x \in Picked(r)' : v # x => ~AlikeWorks(v, x)
             /\ \A v \in seen'[r], x \in Picked(r)' : ~AlikeWorks(v, x)
  <2>1. \A v \in seen[r] \cup Picked(r) : ~AlikeWorks(v, w)
    BY <1>3, UnknownIsNew
  <2>2. \A v \in Picked(r) : ~AlikeWorks(w, v)
    BY <1>0, <2>1, LikeIsSymmetric
  <2>. QED
    BY <1>0, <1>3, <2>1, <2>2
<1>4. TypeOK
  BY DEF IInv
<1>. QED
  BY <1>1, <1>2, <1>3, <1>4, PickedSteps, PreloadSteps

\* A completed run keeps its documents, so the preload goes on covering them.
LEMMA StepEarlier == IInv /\ [Next]_vars => EarlierInv'
<1> SUFFICES ASSUME IInv, [Next]_vars, NEW r \in Runs, NEW e \in earlier'[r]
             PROVE  pc'[e] = "completed" /\ docs'[e] \subseteq seen'[r]
  BY DEF EarlierInv
<1>0. TypeOK /\ TypeOK' /\ e \in Runs
  BY StepTypeOK DEF IInv, TypeOK
<1>1. ASSUME pc[e] = "completed" PROVE pc'[e] = "completed" /\ docs'[e] = docs[e]
  <2>1. pc'[e] = "completed"
    BY <1>0, <1>1, EndedSteps DEF Live
  <2>2. ASSUME NEW x \in Runs, Commit(x) PROVE docs'[e] = docs[e]
    BY <1>0, <1>1, <2>2 DEF Commit, TypeOK
  <2>. QED
    BY <1>0, <2>1, <2>2, RowSteps
<1>2. CASE UNCHANGED <<seen[r], earlier[r]>>
  BY <1>1, <1>2 DEF IInv, EarlierInv
<1>3. CASE Preload(r)
  <2>1. row[e].status = "completed" /\ docs[e] \subseteq seen'[r]
    BY <1>0, <1>3 DEF Preload, TypeOK
  <2>2. pc[e] = "completed"
    BY <1>0, <2>1 DEF IInv, RowInv
  <2>. QED
    BY <1>1, <2>1, <2>2
<1>. QED
  BY <1>0, <1>2, <1>3, PreloadSteps

\* Before its task starts a run has picked nothing.
LEMMA InitIInv == Init => IInv
<1> SUFFICES ASSUME Init PROVE IInv
  OBVIOUS
<1>1. \A r \in Runs : Picked(r) = {}
  BY DEF Init, Picked
<1>2. \A r \in Runs : Cardinality(Picked(r)) = 0
  BY <1>1, FS_EmptySet
<1>3. CountInv
  <2> SUFFICES ASSUME NEW r \in Runs
               PROVE  /\ inserted[r] = Cardinality(Picked(r))
                      /\ inserted[r] <= found[r] /\ found[r] <= MaxResults
    BY DEF CountInv
  <2>1. inserted[r] = 0 /\ found[r] = 0
    BY DEF Init
  <2>. QED
    BY <1>2, <2>1, LimitsAssumption
<1>. QED
  BY <1>1, <1>3, InitTypeOK
     DEF Init, IInv, RowInv, StageInv, DistinctInv, EarlierInv

\* The inductive invariant holds in every reachable state.
THEOREM Invariance == Spec => []IInv
<1>1. IInv /\ [Next]_vars => IInv'
  <2> SUFFICES ASSUME IInv, [Next]_vars PROVE IInv'
    OBVIOUS
  <2>1. TypeOK'
    BY StepTypeOK DEF IInv
  <2>. QED
    BY <2>1, StepRow, StepStage, StepCount, StepDistinct, StepEarlier DEF IInv
<1>2. Init /\ [][Next]_vars => []IInv
  BY <1>1, InitIInv, PTL
<1>. QED
  BY <1>2, PTL DEF Spec, Safety

-----------------------------------------------------------------------------
(* The properties                                                          *)

\* The row of a completed run, field by field.
LEMMA CompletedRow ==
  ASSUME IInv, NEW r \in Runs, pc[r] = "completed"
  PROVE  /\ docs[r] = flushed[r] /\ row[r].status = "completed"
         /\ row[r].found = found[r] /\ row[r].inserted = inserted[r]
<1>1. /\ docs[r] = flushed[r]
      /\ row[r] = [status |-> "completed", found |-> found[r],
                   inserted |-> inserted[r]]
  BY DEF IInv, RowInv
<1>. QED
  BY <1>1

\* A run that has not completed has left nothing.
THEOREM NothingPartial == Spec => []NoPartialRun
<1>1. IInv => NoPartialRun
  <2> SUFFICES ASSUME IInv, NEW r \in Runs, row[r].status # "completed"
               PROVE  docs[r] = {}
    BY DEF NoPartialRun
  <2>1. pc[r] # "completed"
    BY CompletedRow
  <2>. QED
    BY <2>1 DEF IInv, RowInv
<1>. QED
  BY <1>1, Invariance, PTL

\* The counters of a completed run are right.
THEOREM CountersRight == Spec => []CountersMatchDocuments
<1>1. IInv => CountersMatchDocuments
  <2> SUFFICES ASSUME IInv, NEW r \in Runs, row[r].status = "completed"
               PROVE  /\ row[r].inserted = Cardinality(docs[r])
                      /\ row[r].inserted <= row[r].found
                      /\ row[r].found <= MaxResults
    BY DEF CountersMatchDocuments
  <2>1. pc[r] = "completed"
    BY DEF IInv, RowInv
  <2>2. /\ docs[r] = flushed[r]
        /\ row[r].found = found[r] /\ row[r].inserted = inserted[r]
    BY <2>1, CompletedRow
  <2>3. docs[r] = Picked(r)
    BY <2>1, <2>2 DEF IInv, StageInv, Picked
  <2>. QED
    BY <2>2, <2>3 DEF IInv, CountInv
<1>. QED
  BY <1>1, Invariance, PTL

\* What has been stored was picked by the run that stored it.
LEMMA StoredWasPicked == IInv => \A r \in Runs : docs[r] \subseteq Picked(r)
BY DEF IInv, RowInv, Picked

\* No run stores two works that are alike.
THEOREM DistinctWithinRun == Spec => []NoDuplicateWithinRun
<1>1. IInv => NoDuplicateWithinRun
  BY StoredWasPicked DEF IInv, DistinctInv, NoDuplicateWithinRun
<1>. QED
  BY <1>1, Invariance, PTL

\* No run stores a work like one of a run that had completed before.
THEOREM DistinctFromEarlier == Spec => []NoDuplicateOfEarlierRun
<1>1. IInv => NoDuplicateOfEarlierRun
  BY StoredWasPicked DEF IInv, DistinctInv, EarlierInv, NoDuplicateOfEarlierRun
<1>. QED
  BY <1>1, Invariance, PTL

-----------------------------------------------------------------------------
(* The refinement                                                          *)

\* The initial rows show no run as completed.
LEMMA InitContract == Init => Contract!Init
BY DEF Init, Contract!Init

\* The commit of a run is a publication; every other step is a stutter.
LEMMA StepContract ==
  IInv /\ [Next]_vars => [Contract!Next]_(Contract!vars)
<1> SUFFICES ASSUME IInv, [Next]_vars
             PROVE  Contract!Next \/ UNCHANGED Contract!vars
  OBVIOUS
<1>0. TypeOK
  BY DEF IInv
<1>1. CASE UNCHANGED <<row, docs>>
  BY <1>1 DEF Contract!vars
<1>2. ASSUME NEW r \in Runs, Commit(r) PROVE Contract!Next
  <2>. DEFINE settled == {x \in Runs : row[x].status = "completed"}
  <2>1. r \notin settled
    BY <1>2 DEF Commit, IInv, RowInv
  <2>2. settled' = settled \cup {r}
    BY <1>0, <1>2 DEF Commit, TypeOK
  <2>3. flushed[r] \in SUBSET Works /\ docs' = [docs EXCEPT ![r] = flushed[r]]
    BY <1>0, <1>2 DEF Commit, TypeOK
  <2>4. \A v, w \in flushed[r] : v # w => ~AlikeWorks(v, w)
    BY DEF IInv, DistinctInv, Picked
  <2>5. Contract!Distinct(flushed[r])
    BY <2>3, <2>4 DEF Contract!Distinct
  <2>. QED
    BY <2>1, <2>2, <2>3, <2>5 DEF Contract!Next, Contract!Publish
<1>. QED
  BY <1>0, <1>1, <1>2, RowSteps

\* To the rest of the system every run is one atomic publication of distinct
\* works, or nothing.
THEOREM Implementation == Spec => ImplementsContract
<1>1. []IInv /\ Init /\ [][Next]_vars => Contract!Spec
  BY InitContract, StepContract, PTL DEF Contract!Spec
<1>. QED
  BY <1>1, Invariance, PTL DEF Spec, Safety, ImplementsContract

=============================================================================
